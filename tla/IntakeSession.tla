----------------------------- MODULE IntakeSession -----------------------------
(***************************************************************************)
(* One public intake session: the wizard in the applicant's browser tabs   *)
(* (public-intake-wizard.tsx), other clients that hold its resume token,   *)
(* and the session operations of intake-forms.service.ts, up to the        *)
(* accepted submission.  What becomes of it is DealPipeline's.             *)
(*                                                                         *)
(* Save and submit are public and take the list of documents from the body *)
(* as it is: that a listed document was confirmed is checked nowhere.  The *)
(* wizard lists what the server has confirmed; another client may list     *)
(* anything.                                                               *)
(*                                                                         *)
(* Requests overlap: each is sent, checked against the session's status,   *)
(* applied and answered in separate steps, and answers reach the tab in    *)
(* any order or not at all.  Of the answers only the uploaded documents    *)
(* are kept; the other fields travel with them and nothing depends on      *)
(* them.                                                                   *)
(***************************************************************************)
EXTENDS Naturals, FiniteSets

CONSTANTS Tabs,          \* browser tabs that opened the resume link
          Requests,      \* slots for requests in flight
          Files,         \* uploads, each with a storage key of its own
          Required,      \* the uploads of the one required document type, {} if none is required
          OtherLists,    \* what clients other than the wizard list as documents
          MaxFiles,      \* stands for MAX_SUBMISSION_BYTES, every file of size 1
          None           \* no submission yet, no request in the slot, no tab of the wizard

ASSUME BoundsAssumption ==
  /\ MaxFiles \in Nat
  /\ Required \subseteq Files /\ OtherLists \subseteq SUBSET Files
ASSUME SentinelAssumption == None \notin Tabs /\ \A S \in SUBSET Files : S # None

VARIABLES
  draft,       \* documents in IntakeSession.answersJson
  sessionStatus,
  submission,  \* documents in IntakeSubmission.rawAnswersJson, or None
  verified,    \* files whose stored object has passed verifyUploadedObject
  foreign,     \* files that a client other than the wizard has listed so far
  shown,       \* shown[t]: the wizard's uploadedDocuments
  readOnly,    \* tabs whose wizard knows the session is submitted
  uploaded,    \* files put into the bucket
  step, body,  \* per request: how far it is, and what it carries
  finalizeJobs \* intake.finalize jobs created for the session

sessionVars == <<draft, sessionStatus, submission, verified, foreign, uploaded, finalizeJobs>>
vars == <<sessionVars, shown, readOnly, step, body>>

Bodies == [tab : Tabs \cup {None}, kind : {"save", "submit", "confirm"}, docs : SUBSET Files]

\* What a client sends.  A confirm carries the one new file; the others a list of documents.
Send(t, kind, docs) ==
  \E r \in Requests :
    /\ step[r] = "free"
    /\ step' = [step EXCEPT ![r] = "sent"]
    /\ body' = [body EXCEPT ![r] = [tab |-> t, kind |-> kind, docs |-> docs]]

Advance(r, s) == step' = [step EXCEPT ![r] = s]
Free(r) == Advance(r, "free") /\ body' = [body EXCEPT ![r] = None]

-----------------------------------------------------------------------------
(* The wizard. *)

\* The wizard starts from the documents in the stored answers and the session's status.
Mount(t) ==
  /\ shown' = [shown EXCEPT ![t] = draft]
  /\ readOnly' = IF sessionStatus = "submitted" THEN readOnly \cup {t} ELSE readOnly \ {t}

\* Opening or reloading the page: getPublicSession.
Load(t) ==
  /\ Mount(t)
  /\ UNCHANGED <<sessionVars, step, body>>

\* Autosave, next or back, and the submit button.
Post(t, kind) ==
  /\ t \notin readOnly
  /\ Send(t, kind, shown[t])
  /\ UNCHANGED <<sessionVars, shown, readOnly>>

\* A client other than the wizard saves or submits a list of its own.
PostOther(kind, docs) ==
  /\ Send(None, kind, docs)
  /\ foreign' = foreign \cup docs
  /\ UNCHANGED <<draft, sessionStatus, submission, verified, uploaded, finalizeJobs, shown, readOnly>>

\* Faulty variant: the wizard lists the file before the server has confirmed it.
UploadOptimistic(t, f) ==
  /\ t \notin readOnly /\ sessionStatus = "draft" /\ f \notin uploaded
  /\ uploaded' = uploaded \cup {f}
  /\ Send(t, "confirm", {f})
  /\ shown' = [shown EXCEPT ![t] = @ \cup {f}]
  /\ UNCHANGED <<draft, sessionStatus, submission, verified, foreign, finalizeJobs, readOnly>>

\* handleDocumentUpload: createUploadIntent (refused once submitted), the PUT to the bucket, and
\* the confirm request.
Upload(t, f) ==
  /\ t \notin readOnly /\ sessionStatus = "draft" /\ f \notin uploaded
  /\ uploaded' = uploaded \cup {f}
  /\ Send(t, "confirm", {f})
  /\ UNCHANGED <<draft, sessionStatus, submission, verified, foreign, finalizeJobs, shown, readOnly>>

\* An answer reaches its client: a confirm replaces the tab's list by the server's.
Deliver(r) ==
  /\ step[r] = "answered"
  /\ Free(r)
  /\ LET t == body[r].tab IN
       /\ shown' = IF body[r].kind = "confirm" THEN [shown EXCEPT ![t] = body[r].docs] ELSE shown
       /\ readOnly' = IF body[r].kind = "submit" THEN readOnly \cup ({t} \ {None}) ELSE readOnly
  /\ UNCHANGED <<sessionVars>>

\* A request or its answer is lost, or the request is refused: expired session, failed
\* verification, missing documents, a failed statement.
Lose(r) ==
  /\ step[r] # "free"
  /\ Free(r)
  /\ UNCHANGED <<sessionVars, shown, readOnly>>

-----------------------------------------------------------------------------
(* The API. *)

\* requireActiveSession and the test of its status.  A submitted session refuses saves and
\* confirms; a submit of it is answered with the existing submission.
Check(r) ==
  /\ step[r] = "sent"
  /\ \/ sessionStatus = "draft" /\ Advance(r, "checked") /\ UNCHANGED body
     \/ /\ sessionStatus # "draft" /\ body[r].kind = "submit"
        /\ Advance(r, "answered") /\ UNCHANGED body
     \/ sessionStatus # "draft" /\ body[r].kind # "submit" /\ Free(r)
  /\ UNCHANGED <<sessionVars, shown, readOnly>>

\* Faulty variant: saving writes the whole session back, its status included.
SaveReopens(r) ==
  /\ step[r] = "checked" /\ body[r].kind = "save"
  /\ draft' = body[r].docs
  /\ sessionStatus' = "draft"
  /\ Advance(r, "answered")
  /\ UNCHANGED <<submission, verified, foreign, uploaded, finalizeJobs, shown, readOnly, body>>

\* savePublicSession: the update is by id, whatever the status has become.
Save(r) ==
  /\ step[r] = "checked" /\ body[r].kind = "save"
  /\ draft' = body[r].docs
  /\ Advance(r, "answered")
  /\ UNCHANGED <<sessionStatus, submission, verified, foreign, uploaded, finalizeJobs, shown,
                 readOnly, body>>

\* confirmUploadedDocument: the object is verified, then the draft read again ...
ConfirmRead(r) ==
  /\ step[r] = "checked" /\ body[r].kind = "confirm"
  /\ body[r].docs \subseteq uploaded
  /\ verified' = verified \cup body[r].docs
  /\ IF Cardinality(draft \cup body[r].docs) <= MaxFiles
       THEN /\ body' = [body EXCEPT ![r].docs = draft \cup @]
            /\ Advance(r, "merged")
       ELSE Free(r)
  /\ UNCHANGED <<draft, sessionStatus, submission, foreign, uploaded, finalizeJobs, shown, readOnly>>

\* ... and the merged list written by id: a change between the two is overwritten.
ConfirmWrite(r) ==
  /\ step[r] = "merged"
  /\ draft' = body[r].docs
  /\ Advance(r, "answered")
  /\ UNCHANGED <<sessionStatus, submission, verified, foreign, uploaded, finalizeJobs, shown,
                 readOnly, body>>

Acceptable(docs) ==
  /\ Required # {} => docs \cap Required # {}
  /\ Cardinality(docs) <= MaxFiles

Accept(docs) ==
  /\ submission' = docs
  /\ draft' = docs
  /\ sessionStatus' = "submitted"
  /\ finalizeJobs' = finalizeJobs + 1

\* Faulty variant: an existing submission is updated instead of refused.
SubmitUpserts(r) ==
  /\ step[r] = "checked" /\ body[r].kind = "submit"
  /\ Acceptable(body[r].docs)
  /\ Accept(body[r].docs)
  /\ Advance(r, "answered")
  /\ UNCHANGED <<verified, foreign, uploaded, shown, readOnly, body>>

\* submitPublicSession: the checks of what was sent, and one transaction for the submission,
\* the session and the job.  The unique index on the session turns a second one into the
\* answer with the first.
Submit(r) ==
  /\ step[r] = "checked" /\ body[r].kind = "submit"
  /\ Acceptable(body[r].docs)
  /\ IF submission = None
       THEN Accept(body[r].docs)
       ELSE UNCHANGED <<submission, draft, sessionStatus, finalizeJobs>>
  /\ Advance(r, "answered")
  /\ UNCHANGED <<verified, foreign, uploaded, shown, readOnly, body>>

-----------------------------------------------------------------------------
Init ==
  /\ draft = {} /\ sessionStatus = "draft" /\ submission = None
  /\ verified = {} /\ foreign = {} /\ uploaded = {}
  /\ shown = [t \in Tabs |-> {}] /\ readOnly = {}
  /\ step = [r \in Requests |-> "free"]
  /\ body = [r \in Requests |-> None]
  /\ finalizeJobs = 0

Client(t) ==
  \/ Load(t) \/ Post(t, "save") \/ Post(t, "submit") \/ \E f \in Files : Upload(t, f)

Server(r) == Check(r) \/ Save(r) \/ ConfirmRead(r) \/ ConfirmWrite(r) \/ Submit(r)

Next ==
  \/ \E t \in Tabs : Client(t)
  \/ \E kind \in {"save", "submit"}, docs \in OtherLists : PostOther(kind, docs)
  \/ \E r \in Requests : Server(r) \/ Deliver(r) \/ Lose(r)

Spec == Init /\ [][Next]_vars

-----------------------------------------------------------------------------
(* Properties *)

\* Every variable has the values its column, field or component state can hold.
TypeOK ==
  /\ draft \subseteq Files /\ sessionStatus \in {"draft", "submitted"}
  /\ (submission = None \/ submission \subseteq Files)
  /\ verified \subseteq Files /\ foreign \subseteq Files /\ uploaded \subseteq Files
  /\ shown \in [Tabs -> SUBSET Files] /\ readOnly \subseteq Tabs
  /\ step \in [Requests -> {"free", "sent", "checked", "merged", "answered"}]
  /\ body \in [Requests -> Bodies \cup {None}]
  /\ finalizeJobs \in Nat

\* However saves, confirms, reloads and lost answers of any clients interleave, a document of the
\* accepted submission that was never verified is one that a client other than the wizard has
\* listed: the wizard adds none of its own.
UnverifiedAreForeign == submission # None => submission \subseteq verified \cup foreign

\* Acceptance is one event: submission, submitted session and one finalization job exist
\* together, and no late save takes the session back.
AcceptanceIsAtomic ==
  /\ submission # None <=> sessionStatus = "submitted"
  /\ finalizeJobs = IF submission = None THEN 0 ELSE 1

\* Duplicate and concurrent submits change nothing of what was accepted first.
AcceptedOnce == [][submission # None => submission' = submission]_submission

=============================================================================
