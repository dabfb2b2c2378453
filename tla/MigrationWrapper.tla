-------------------------- MODULE MigrationWrapper --------------------------
(***************************************************************************)
(* The wrapper in front of `prisma migrate`                                *)
(* (packages/db/scripts/run-prisma-migration.ts): which database a command *)
(* may reach.  A target is a host, a port and a database; the environment  *)
(* of a command is whatever the operator's shell holds at that time.       *)
(***************************************************************************)
EXTENDS FiniteSets

CONSTANTS Targets,    \* databases a URL can name: [host, port, database]
          NoTarget    \* a variable that is not set

ASSUME WrapperAssumption == NoTarget \notin Targets

VARIABLES approved,   \* targets whose printed fingerprint the lead has approved
          migrated    \* the last command that ran: mode and the database it opened

wrapperVars == <<approved, migrated>>

Optional == Targets \cup {NoTarget}
\* `expected` stands for the expected host and database; it has no port.
Environments ==
  [profile : {"local", "ci", "disposable"}, migrationUrl : Optional, databaseUrl : Optional,
   expected : Optional]
Idle == [mode |-> "none", opened |-> NoTarget]

\* Faulty variant: the fingerprint leaves the port out.
FingerprintWithoutPort(t) == <<t.host, t.database>>
\* A digest; distinct targets are taken to have distinct ones.
Fingerprint(t) == <<t.host, t.port, t.database>>

IsLocal(t) == t.host = "loopback" /\ t.database = "aideal_local"

\* targetFromEnvironment does not fail.
Verified(env) ==
  /\ env.migrationUrl # NoTarget
  /\ IF env.profile = "local" THEN IsLocal(env.migrationUrl)
     ELSE /\ env.expected # NoTarget
          /\ env.migrationUrl.host = env.expected.host
          /\ env.migrationUrl.database = env.expected.database

ModeIsAllowed(mode, env, approval) ==
  /\ mode = "dev" => env.profile = "local"
  /\ mode = "deploy" => approval = Fingerprint(env.migrationUrl)

SanitizedEnvironment(env) == [env EXCEPT !.databaseUrl = NoTarget]
\* prisma.config.ts: without a migration URL the command gets an address that leads nowhere.
PrismaUrl(env) == env.migrationUrl

WrapperInit == approved = {} /\ migrated = Idle

\* A refused deploy printed the fingerprint of its target, and the lead approves it.
Approve(env) ==
  /\ Verified(env)
  /\ approved' = approved \cup {env.migrationUrl}
  /\ UNCHANGED migrated

\* The approval variable holds the fingerprint of some target approved earlier, or nothing.
Migrate(mode, env) ==
  /\ Verified(env)
  /\ \E approval \in {Fingerprint(t) : t \in approved} \cup {<<>>} :
       ModeIsAllowed(mode, env, approval)
  /\ migrated' = [mode |-> mode, opened |-> PrismaUrl(SanitizedEnvironment(env))]
  /\ UNCHANGED approved

WrapperNext ==
  \E env \in Environments :
    \/ Approve(env)
    \/ \E mode \in {"dev", "deploy"} : Migrate(mode, env)

WrapperSpec == WrapperInit /\ [][WrapperNext]_wrapperVars

\* An approval lets `migrate deploy` open the database it was given for and no other, and
\* `migrate dev` opens the reserved local database only, whatever else the environment holds.
OnlyApprovedTargets ==
  CASE migrated.mode = "deploy" -> migrated.opened \in approved
    [] migrated.mode = "dev" -> IsLocal(migrated.opened)
    [] OTHER -> TRUE
=============================================================================
