---------------------------- MODULE SchemaUpgrade ----------------------------
(***************************************************************************)
(* How a database gets the current schema: the scripts of packages/db/     *)
(* scripts run by an operator, statement by statement and each statement   *)
(* committed on its own, or `prisma migrate deploy`.                       *)
(*                                                                         *)
(* A script is data: a sequence of statements.  Meanwhile the application  *)
(* of the previous release may write rows, scripts die between two         *)
(* statements, and the operator repairs what a guard names and repeats.    *)
(* Only the objects that some script after the baseline adds are told      *)
(* apart.                                                                  *)
(***************************************************************************)
EXTENDS Naturals, Sequences, FiniteSets, SequencesExt

CONSTANTS MaxCrashes,   \* bound: scripts that die halfway
          MaxWrites     \* bound: bad rows that the previous release writes

ASSUME UpgradeAssumption ==
  /\ MaxCrashes \in Nat /\ MaxWrites \in Nat

VARIABLES
  schema,     \* tables, columns, indexes, types and constraints that exist
  history,    \* migrations that _prisma_migrations lists, 0 when there is no such table
  bad,        \* rows that some statement must deal with: a subset of BadRows
  undrained,  \* workers of the previous release claim jobs
  script,     \* the script that runs, "none" when there is none
  next,       \* the index of its next statement
  upgraded,   \* the upgrade script has reported ok
  crashes, writes   \* used up so far of the bounds

database == <<schema, history, bad>>
session == <<script, next, upgraded>>
upgradeFaults == <<crashes, writes>>
upgradeVars == <<database, undrained, session, upgradeFaults>>

-----------------------------------------------------------------------------
(* Statements: what one does, the object it makes, what comes with that       *)
(* object, the objects it needs, and the bad rows it stops at or takes away.  *)

Statement(does, object, along, needs, rows) ==
  [does |-> does, object |-> object, along |-> along, needs |-> needs, rows |-> rows]

Create(object, along) == Statement("create", object, along, {}, {})
\* A plain CREATE UNIQUE INDEX fails on the rows it forbids.
CreateUnique(object, rows) == Statement("create", object, {}, {}, rows)

\* Faulty variant: a plain ADD COLUMN or CREATE INDEX.
PlainEnsure(object, along, needs, rows) == Statement("create", object, along, needs, rows)

\* ... IF NOT EXISTS, or a DO block that looks into the catalogue first.  A unique index or
\* SET NOT NULL fails on the rows it forbids.
Ensure(object, along, needs, rows) == Statement("ensure", object, along, needs, rows)
Add(object, needs) == Ensure(object, {}, needs, {})
\* A DO block that raises when it finds the rows.
Guard(needs, rows) == Statement("guard", "none", {}, needs, rows)
\* An UPDATE that leaves none of the rows.
Mend(needs, rows) == Statement("mend", "none", {}, needs, rows)

Duplicates == {"document_twice", "company_twice", "applicant_twice"}
Unnamed == {"notification_without_event_id", "notification_without_dedupe_key"}
Leftover == "running_job_without_lease"
BadRows == Duplicates \cup Unnamed \cup {Leftover}

-----------------------------------------------------------------------------
(* Schemas. *)

Tables == {"organizations", "intake_submissions", "documents", "companies",
           "applicants", "notifications", "jobs"}
NotificationIdentity ==
  {"notifications.event_id", "notifications.dedupe_key",
   "notifications.event_id.not_null", "notifications.dedupe_key.not_null",
   "notifications_organization_id_dedupe_key_key"}
Baseline == Tables \cup NotificationIdentity

\* What each migration after the baseline adds.
LeaseMigration ==
  {"jobs.available_at", "jobs.lease_expires_at", "jobs.lease_token",
   "jobs_status_available_at_idx", "jobs_status_lease_expires_at_idx"}
OutboxMigration ==
  {"NotificationOutboxStatus", "notification_outbox",
   "notification_outbox_organization_id_dedupe_key_key",
   "notification_outbox_status_available_at_created_at_idx",
   "notification_outbox_organization_id_created_at_idx",
   "notification_outbox_status_locked_at_idx",
   "notification_outbox_organization_id_fkey"}
FinalizationMigration ==
  {"jobs.intake_submission_id", "jobs_intake_submission_id_key",
   "documents_deal_id_storage_key_key", "jobs_intake_submission_id_fkey"}
IdentityMigration ==
  {"companies.identity_jurisdiction",
   "companies_organization_id_legal_name_identity_jurisdiction_key",
   "applicants_organization_id_email_key"}
Current ==
  Baseline \cup LeaseMigration \cup OutboxMigration \cup FinalizationMigration
           \cup IdentityMigration

\* A migration: what it adds, the rows it stops at and those it takes away.
Migration(adds, stops, mends) == [adds |-> adds, stops |-> stops, mends |-> mends]
Migrations ==
  <<Migration(Baseline, {}, {}),
    Migration(LeaseMigration, {}, {Leftover}),
    Migration(OutboxMigration, {}, {}),
    Migration(FinalizationMigration, {"document_twice"}, {}),
    Migration(IdentityMigration, {"company_twice", "applicant_twice"}, {})>>

\* Databases made by an init.sql of a release before the migrations: some have no job queue,
\* some no identity of notifications.
Legacy == {Baseline, Baseline \ {"jobs"}, Baseline \ NotificationIdentity,
           Baseline \ (NotificationIdentity \cup {"jobs"})}

-----------------------------------------------------------------------------
(* The scripts. *)

JobColumns == {"jobs.available_at", "jobs.lease_expires_at", "jobs.lease_token"}

\* Faulty variant: a database that has the lease columns is taken to be past the cutover.
LeaseStatementsByColumns ==
  <<Add("jobs.available_at", {"jobs"}), Add("jobs.lease_expires_at", {"jobs"}),
    Add("jobs.lease_token", {"jobs"}),
    Add("jobs_status_available_at_idx", {"jobs.available_at"}),
    Add("jobs_status_lease_expires_at_idx", {"jobs.lease_expires_at"})>>

\* The UPDATE requeues every running job.  Those that have a lease, when the script is run again
\* beside workers of the new release, are not told apart: their workers then are in the place of
\* workers whose lease ran out.
LeaseStatements ==
  <<Add("jobs.available_at", {"jobs"}), Add("jobs.lease_expires_at", {"jobs"}),
    Add("jobs.lease_token", {"jobs"}),
    Mend(JobColumns, {Leftover}),
    Add("jobs_status_available_at_idx", {"jobs.available_at"}),
    Add("jobs_status_lease_expires_at_idx", {"jobs.lease_expires_at"})>>

OutboxStatements ==
  <<Add("NotificationOutboxStatus", {}),
    Add("notification_outbox", {"NotificationOutboxStatus"}),
    Add("notification_outbox_organization_id_dedupe_key_key", {"notification_outbox"}),
    Add("notification_outbox_status_available_at_created_at_idx", {"notification_outbox"}),
    Add("notification_outbox_organization_id_created_at_idx", {"notification_outbox"}),
    Add("notification_outbox_status_locked_at_idx", {"notification_outbox"}),
    Add("notification_outbox_organization_id_fkey", {"notification_outbox", "organizations"})>>

FinalizationStatements ==
  <<Add("jobs.intake_submission_id", {"jobs"}),
    Guard({"documents"}, {"document_twice"}),
    Add("jobs_intake_submission_id_key", {"jobs.intake_submission_id"}),
    Ensure("documents_deal_id_storage_key_key", {}, {"documents"}, {"document_twice"}),
    Add("jobs_intake_submission_id_fkey",
        {"jobs.intake_submission_id", "intake_submissions"})>>

IdentityStatements ==
  <<Add("companies.identity_jurisdiction", {"companies"}),
    Guard({"companies", "applicants"}, {"company_twice", "applicant_twice"}),
    Ensure("companies_organization_id_legal_name_identity_jurisdiction_key", {},
           {"companies.identity_jurisdiction"}, {"company_twice"}),
    Ensure("applicants_organization_id_email_key", {}, {"applicants"}, {"applicant_twice"})>>

UpgradeScript ==
  LeaseStatements \o OutboxStatements \o FinalizationStatements \o IdentityStatements

PatchScript ==
  <<Add("notifications.event_id", {"notifications"}),
    Add("notifications.dedupe_key", {"notifications"}),
    Mend({"notifications.event_id"}, {"notification_without_event_id"}),
    Mend({"notifications.dedupe_key"}, {"notification_without_dedupe_key"}),
    Ensure("notifications.event_id.not_null", {}, {"notifications.event_id"},
           {"notification_without_event_id"}),
    Ensure("notifications.dedupe_key.not_null", {}, {"notifications.dedupe_key"},
           {"notification_without_dedupe_key"}),
    Add("notifications_organization_id_dedupe_key_key", {"notifications.dedupe_key"})>>

\* The table comes with its lease columns only when it is not there yet.
JobsScript ==
  <<Ensure("jobs", JobColumns, {"organizations"}, {}),
    Add("jobs.available_at", {"jobs"}), Add("jobs.lease_expires_at", {"jobs"}),
    Add("jobs.lease_token", {"jobs"}),
    Add("jobs_status_available_at_idx", {"jobs.available_at"}),
    Add("jobs_status_lease_expires_at_idx", {"jobs.lease_expires_at"})>>

\* init.sql of this commit, for an empty database: nothing in it can be repeated.
BootstrapScript ==
  <<Create("NotificationOutboxStatus", {}),
    Create("organizations", {}),
    Create("companies", {"companies.identity_jurisdiction"}),
    Create("applicants", {}),
    Create("intake_submissions", {}),
    Create("documents", {}),
    Create("notifications",
           NotificationIdentity \ {"notifications_organization_id_dedupe_key_key"}),
    Create("notifications_organization_id_dedupe_key_key", {}),
    Create("notification_outbox", {}),
    Create("notification_outbox_organization_id_dedupe_key_key", {}),
    Create("jobs", JobColumns \cup {"jobs.intake_submission_id"}),
    CreateUnique("companies_organization_id_legal_name_identity_jurisdiction_key",
                 {"company_twice"}),
    CreateUnique("applicants_organization_id_email_key", {"applicant_twice"}),
    CreateUnique("documents_deal_id_storage_key_key", {"document_twice"}),
    Create("notification_outbox_status_available_at_created_at_idx", {}),
    Create("notification_outbox_organization_id_created_at_idx", {}),
    Create("notification_outbox_status_locked_at_idx", {}),
    Create("jobs_status_available_at_idx", {}),
    Create("jobs_status_lease_expires_at_idx", {}),
    Create("jobs_intake_submission_id_key", {}),
    Create("notification_outbox_organization_id_fkey", {}),
    Create("jobs_intake_submission_id_fkey", {})>>

Scripts ==
  [upgrade |-> UpgradeScript, patch |-> PatchScript, jobs |-> JobsScript,
   bootstrap |-> BootstrapScript]

-----------------------------------------------------------------------------
(* Running a script. *)

UpgradeInit ==
  /\ \/ schema = {} /\ history = 0
     \/ schema \in Legacy /\ history = 0
     \/ schema = Baseline /\ history = 1
  /\ bad \in SUBSET BadRows
  /\ bad \cap Unnamed \in {{}, Unnamed}
  /\ schema = {} => bad = {}
  /\ "jobs" \notin schema => Leftover \notin bad
  /\ NotificationIdentity \subseteq schema => bad \cap Unnamed = {}
  /\ undrained \in BOOLEAN
  /\ script = "none" /\ next = 0 /\ upgraded = "no"
  /\ crashes = 0 /\ writes = 0

\* Only the upgrade looks for a migration history, once, before its first statement.
Start(s) ==
  /\ script = "none"
  /\ s = "upgrade" => history = 0
  /\ script' = s /\ next' = 1
  /\ UNCHANGED <<database, undrained, upgraded, upgradeFaults>>

Succeeds(st) ==
  /\ st.needs \subseteq schema
  /\ st.does = "create" => st.object \notin schema
  /\ st.does = "guard" => st.rows \cap bad = {}
  /\ st.does \in {"create", "ensure"} /\ st.object \notin schema => st.rows \cap bad = {}

Effect(st) ==
  /\ schema' = IF st.does \in {"create", "ensure"} /\ st.object \notin schema
               THEN schema \cup {st.object} \cup st.along ELSE schema
  /\ bad' = IF st.does = "mend" THEN bad \ st.rows ELSE bad

\* Each statement is a request and a transaction of its own; an error ends the script.
RunStatement ==
  /\ script # "none"
  /\ LET st == Scripts[script][next]
         last == next = Len(Scripts[script])
     IN  \/ /\ Succeeds(st) /\ Effect(st)
            /\ IF last THEN script' = "none" /\ next' = 0 ELSE script' = script /\ next' = next + 1
            /\ upgraded' = IF ~last \/ script # "upgrade" THEN upgraded
                           ELSE IF undrained THEN "undrained" ELSE "drained"
         \/ /\ ~Succeeds(st)
            /\ script' = "none" /\ next' = 0
            /\ UNCHANGED <<schema, bad, upgraded>>
  /\ UNCHANGED <<history, undrained, upgradeFaults>>

ScriptDies ==
  /\ script # "none" /\ crashes < MaxCrashes
  /\ crashes' = crashes + 1 /\ script' = "none" /\ next' = 0
  /\ UNCHANGED <<database, undrained, upgraded, writes>>

\* The operator resolves the duplicates that a guard reported.
Repair ==
  /\ script = "none" /\ bad \cap Duplicates # {}
  /\ bad' = bad \ Duplicates
  /\ UNCHANGED <<schema, history, undrained, session, upgradeFaults>>

\* Rows that no constraint keeps out yet.
Admissible ==
  {r \in BadRows :
     CASE r = "document_twice" ->
            "documents" \in schema /\ "documents_deal_id_storage_key_key" \notin schema
       [] r = "company_twice" ->
            /\ "companies" \in schema
            /\ "companies_organization_id_legal_name_identity_jurisdiction_key" \notin schema
       [] r = "applicant_twice" ->
            "applicants" \in schema /\ "applicants_organization_id_email_key" \notin schema
       [] r \in Unnamed ->
            /\ "notifications" \in schema
            /\ {"notifications.event_id.not_null", "notifications.dedupe_key.not_null"}
                 \cap schema = {}
       [] r = Leftover -> "jobs" \in schema}

\* The API of the previous release inserts a row of each kind as it always did.
OldWrite ==
  /\ writes < MaxWrites /\ writes' = writes + 1
  /\ \E rows \in {{d} : d \in Duplicates} \cup {Unnamed} :
       rows \subseteq Admissible /\ bad' = bad \cup rows
  /\ UNCHANGED <<schema, history, undrained, session, crashes>>

\* A worker of the previous release claims a job; it knows of no lease.
OldClaim ==
  /\ undrained /\ writes < MaxWrites /\ writes' = writes + 1
  /\ Leftover \in Admissible /\ bad' = bad \cup {Leftover}
  /\ UNCHANGED <<schema, history, undrained, session, crashes>>

\* Between two scripts the operator may drain the workers.
Drain ==
  /\ script = "none" /\ undrained /\ undrained' = FALSE
  /\ UNCHANGED <<database, session, upgradeFaults>>

\* `prisma migrate deploy`, behind the wrapper of MigrationWrapper, applies the next migration
\* that the history lacks; it may end before the one after it.  It refuses a database that has
\* tables and no history.  A migration is one batch of statements, so it is applied as a whole or,
\* when something that it adds is there or a row is in its way, not at all.
PrismaDeploy ==
  /\ history < Len(Migrations) /\ (history = 0 => schema = {})
  /\ LET migration == Migrations[history + 1] IN
       /\ migration.adds \cap schema = {} /\ migration.stops \cap bad = {}
       /\ schema' = schema \cup migration.adds
       /\ bad' = bad \ migration.mends
  /\ history' = history + 1
  /\ UNCHANGED <<undrained, session, upgradeFaults>>

UpgradeNext ==
  \/ \E s \in DOMAIN Scripts : Start(s)
  \/ RunStatement
  \/ ScriptDies
  \/ Repair
  \/ OldWrite
  \/ OldClaim
  \/ Drain
  \/ PrismaDeploy

UpgradeSpec == UpgradeInit /\ [][UpgradeNext]_upgradeVars

\* Statements end, and an operator who wants the upgrade goes on: runs it again, runs the job
\* script in case the queue is missing, and resolves what the guards report.
OperatorPersists ==
  /\ WF_upgradeVars(RunStatement)
  /\ SF_upgradeVars(Start("upgrade"))
  /\ SF_upgradeVars(Start("jobs"))
  /\ SF_upgradeVars(Repair)

-----------------------------------------------------------------------------
(* Properties. *)

\* An upgrade that reports ok leaves what the migrations would have: every object of theirs,
\* no row that breaks an identity, and, when the workers were drained as the script's comment
\* asks, no running job without a lease: one that a worker of the new release would take over at
\* once, whoever is still at work on it.
UpgradeSuffices ==
  upgraded # "no" =>
    /\ LeaseMigration \cup OutboxMigration \cup FinalizationMigration \cup IdentityMigration
         \subseteq schema
    /\ bad \cap Duplicates = {}
    /\ upgraded = "drained" => Leftover \notin bad

\* A legacy database can be brought forward however often the script dies or stops at a guard,
\* and although the previous release goes on writing for a while: every statement can be repeated.
UpgradeCompletes ==
  OperatorPersists =>
    (Tables \ {"jobs"} \subseteq schema /\ history = 0 ~> upgraded # "no")
=============================================================================
