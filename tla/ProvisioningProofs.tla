-------------------------- MODULE ProvisioningProofs --------------------------
(***************************************************************************)
(* Proofs about Workspace, for any number of visits, users and             *)
(* organizations, about MigrationWrapper, for any set of targets, and      *)
(* about SchemaUpgrade, for any number of crashes and old writes.          *)
(***************************************************************************)
EXTENDS Workspace, MigrationWrapper, SchemaUpgrade, SequenceTheorems, TLAPS

InTransaction == {"user", "organization", "membership", "count", "create", "commit"}
PastOrg == {"membership", "count", "create", "commit"}

\* A visit is in its transaction for as long as that is open.
OpenInv == \A v \in Visits : v \in open <=> step[v] \in InTransaction

\* The organization row is a lock: one transaction at a time has written it.
OneWriter ==
  \A v, w \in Visits : v # w /\ step[v] \in PastOrg /\ step[w] \in PastOrg => org(v) # org(w)

\* What a transaction counted is still so when it commits.
CountInv ==
  \A v \in Visits :
    /\ step[v] = "create" => starters[org(v)] = 0
    /\ step[v] = "commit" => starters[org(v)] = 1

WInv == WorkspaceTypeOK /\ OpenInv /\ OneWriter /\ CountInv /\ OneStarter

LEMMA WorkspaceInitInv == WorkspaceInit => WInv
  BY WorkspaceAssumption
  DEF WorkspaceInit, WInv, WorkspaceTypeOK, OpenInv, OneWriter, CountInv, OneStarter,
      InTransaction, PastOrg, VisitSteps

\* What the steps below need of the types.
LEMMA Types ==
  ASSUME WorkspaceTypeOK
  PROVE  /\ losses \in Nat /\ disabled \in Nat
         /\ step \in [Visits -> VisitSteps] /\ open \subseteq Visits
         /\ starters \in [Orgs -> Nat]
         /\ \A v \in Visits : org(v) \in Orgs /\ user(v) \in Users
  BY DEF WorkspaceTypeOK, org, user

\* Nobody changes whose visit it is.
LEMMA SignInFixed ==
  [WorkspaceNext]_workspaceVars => \A v \in Visits : org(v)' = org(v)
<1>1. [WorkspaceNext]_workspaceVars => UNCHANGED clerk
  BY DEF WorkspaceNext, Serve, Visit, WorkspaceGuard, Look, Write, Count, Commit, Recover, Lose,
     Disable, workspaceVars, clerk
<1> QED
  BY <1>1 DEF org, clerk

LEMMA WorkspaceTypeStep == WorkspaceTypeOK /\ [WorkspaceNext]_workspaceVars => WorkspaceTypeOK'
<1> SUFFICES ASSUME WorkspaceTypeOK, [WorkspaceNext]_workspaceVars PROVE WorkspaceTypeOK'
  OBVIOUS
<1> USE DEF WorkspaceTypeOK, VisitSteps, clerk, workspaceRows, workspaceBounds, GoTo, Rollback, user, org
<1>1. ASSUME NEW v \in Visits, Visit(v) \/ WorkspaceGuard(v) \/ Recover(v) \/ Lose(v)
      PROVE WorkspaceTypeOK'
  <2>1. CASE Visit(v) \/ Recover(v)
    BY <2>1 DEF Visit, Recover
  <2>2. CASE WorkspaceGuard(v)
    BY <2>2 DEF WorkspaceGuard
  <2>3. CASE Lose(v)
    <3>1. losses' \in Nat /\ disabled' = disabled
      <4> HIDE DEF WorkspaceTypeOK
      <4> QED
        BY <2>3, Types DEF Lose
    <3>2. UNCHANGED <<clerk, workspaceRows>> /\ open' = open \ {v}
      BY <2>3 DEF Lose
    <3>3. step' \in [Visits -> VisitSteps] /\ saw' \in [Visits -> {"nothing", "row", "no row"}]
      BY <2>3 DEF Lose
    <3> QED
      BY <3>1, <3>2, <3>3
  <2> QED
    BY <1>1, <2>1, <2>2, <2>3
<1>2. ASSUME NEW v \in Visits, Look(v) PROVE WorkspaceTypeOK'
  BY <1>2 DEF Look
<1>3. ASSUME NEW v \in Visits, Write(v) PROVE WorkspaceTypeOK'
  <2>1. After(step[v]) \in VisitSteps
    BY <1>3 DEF Write, Upserting, After
  <2> QED
    BY <1>3, <2>1 DEF Write
<1>4. ASSUME NEW v \in Visits, Count(v) PROVE WorkspaceTypeOK'
  BY <1>4 DEF Count
<1>5. ASSUME NEW v \in Visits, Commit(v) PROVE WorkspaceTypeOK'
  <2>1. org(v) \in Orgs /\ user(v) \in Users
    OBVIOUS
  <2> HIDE DEF WorkspaceTypeOK, org, user
  <2>2. starters' \in [Orgs -> Nat]
    BY <1>5, <2>1, Types DEF Commit
  <2> USE DEF WorkspaceTypeOK
  <2>3. users' \subseteq Users /\ orgs' \subseteq Orgs
    BY <1>5, <2>1 DEF Commit, CommitMember
  <2>4. member[org(v)] \in [Users -> {"none", "active", "disabled"}]
    BY <2>1
  <2>5. member' \in [Orgs -> [Users -> {"none", "active", "disabled"}]]
    <3>1. member' = [member EXCEPT ![org(v)] = [member[org(v)] EXCEPT ![user(v)] = "active"]]
      BY <1>5 DEF Commit, CommitMember
    <3>2. [member[org(v)] EXCEPT ![user(v)] = "active"] \in
            [Users -> {"none", "active", "disabled"}]
      BY <2>4
    <3> QED
      BY <3>1, <3>2
  <2>6. /\ step' \in [Visits -> VisitSteps] /\ saw' \in [Visits -> {"nothing", "row", "no row"}]
        /\ open' \subseteq Visits /\ UNCHANGED clerk
        /\ losses' = losses /\ disabled' = disabled
    BY <1>5 DEF Commit
  <2> QED
    BY <2>2, <2>3, <2>5, <2>6
<1>6. ASSUME NEW o \in Orgs, NEW u \in Users, Disable(o, u) PROVE WorkspaceTypeOK'
  <2>1. member' = [member EXCEPT ![o] = [member[o] EXCEPT ![u] = "disabled"]]
    BY <1>6 DEF Disable
  <2>2. [member[o] EXCEPT ![u] = "disabled"] \in [Users -> {"none", "active", "disabled"}]
    OBVIOUS
  <2>3. member' \in [Orgs -> [Users -> {"none", "active", "disabled"}]]
    BY <2>1, <2>2
  <2>4. losses' = losses /\ disabled' \in Nat
    <3> HIDE DEF WorkspaceTypeOK
    <3> QED
      BY <1>6, Types DEF Disable
  <2>5. UNCHANGED <<clerk, users, orgs, starters, step, saw, open>>
    BY <1>6 DEF Disable
  <2> QED
    BY <2>3, <2>4, <2>5
<1>7. ASSUME UNCHANGED workspaceVars PROVE WorkspaceTypeOK'
  BY <1>7 DEF workspaceVars
<1> QED
  BY <1>1, <1>2, <1>3, <1>4, <1>5, <1>6, <1>7 DEF WorkspaceNext, Serve

\* Only Write brings a visit past the organization row, and it waits for whoever is past it.
LEMMA WriterStep ==
  WorkspaceTypeOK /\ OpenInv /\ OneWriter /\ [WorkspaceNext]_workspaceVars =>
    (OpenInv /\ OneWriter)'
<1> SUFFICES ASSUME WorkspaceTypeOK, OpenInv, OneWriter, [WorkspaceNext]_workspaceVars
             PROVE (OpenInv /\ OneWriter)'
  OBVIOUS
<1>t. /\ step \in [Visits -> VisitSteps] /\ open \subseteq Visits
      /\ \A v \in Visits : org(v)' = org(v)
  BY Types, SignInFixed
<1> USE <1>t DEF OpenInv, OneWriter, InTransaction, PastOrg, VisitSteps, GoTo, Rollback
<1>1. ASSUME NEW v \in Visits, Visit(v) \/ WorkspaceGuard(v) \/ Recover(v) \/ Lose(v)
      PROVE (OpenInv /\ OneWriter)'
  <2>1. CASE WorkspaceGuard(v)
    BY <2>1 DEF WorkspaceGuard
  <2>2. CASE Visit(v) \/ Recover(v)
    BY <2>2 DEF Visit, Recover
  <2>3. CASE Lose(v)
    BY <2>3 DEF Lose
  <2> QED
    BY <1>1, <2>1, <2>2, <2>3
<1>2. ASSUME NEW v \in Visits, Look(v) PROVE (OpenInv /\ OneWriter)'
  <2>1. step' = step /\ open' = open
    BY <1>2 DEF Look
  <2> QED
    BY <2>1
<1>3. ASSUME NEW v \in Visits, Write(v) PROVE (OpenInv /\ OneWriter)'
  <2>1. CASE Rollback(v, "lost")
    <3>1. step' = [step EXCEPT ![v] = "lost"] /\ open' = open \ {v}
      BY <2>1
    <3> QED
      BY <3>1
  <2>2. CASE GoTo(v, After(step[v])) /\ UNCHANGED open
    <3>1. CASE step[v] = "user"
      <4>1. step' = [step EXCEPT ![v] = "organization"] /\ open' = open
        BY <2>2, <3>1 DEF After
      <4> QED
        BY <3>1, <4>1
    <3>2. CASE step[v] = "organization"
      <4>1. \A w \in Visits \ {v} : step[w] \in PastOrg => org(w) # org(v)
        BY <1>3, <3>2 DEF Write, Waits, WroteOrg, WroteUser
      <4> QED
        <5>1. After(step[v]) = "membership"
          BY <3>2 DEF After
        <5>2. step' = [step EXCEPT ![v] = "membership"] /\ open' = open
          BY <1>3, <2>2, <5>1 DEF Write
        <5> QED
          BY <3>2, <4>1, <5>2
    <3>3. CASE step[v] = "membership"
      <4>1. step' = [step EXCEPT ![v] = "count"] /\ open' = open
        BY <2>2, <3>3 DEF After
      <4> QED
        BY <3>3, <4>1
    <3> QED
      BY <1>3, <3>1, <3>2, <3>3 DEF Write, Upserting
  <2> QED
    BY <1>3, <2>1, <2>2 DEF Write
<1>4. ASSUME NEW v \in Visits, Count(v) PROVE (OpenInv /\ OneWriter)'
  BY <1>4 DEF Count
<1>5. ASSUME NEW v \in Visits, Commit(v) PROVE (OpenInv /\ OneWriter)'
  BY <1>5 DEF Commit
<1>6. ASSUME NEW o \in Orgs, NEW u \in Users, Disable(o, u) PROVE (OpenInv /\ OneWriter)'
  BY <1>6 DEF Disable
<1>7. ASSUME UNCHANGED workspaceVars PROVE (OpenInv /\ OneWriter)'
  BY <1>7 DEF workspaceVars
<1> QED
  BY <1>1, <1>2, <1>3, <1>4, <1>5, <1>6, <1>7 DEF WorkspaceNext, Serve

\* A commit changes the starters of its own organization only, whose writer it is.
LEMMA StarterStep == WInv /\ [WorkspaceNext]_workspaceVars => (CountInv /\ OneStarter)'
<1> SUFFICES ASSUME WInv, [WorkspaceNext]_workspaceVars PROVE (CountInv /\ OneStarter)'
  OBVIOUS
<1>t. /\ step \in [Visits -> VisitSteps]
      /\ starters \in [Orgs -> Nat]
      /\ \A v \in Visits : org(v) \in Orgs /\ user(v) \in Users /\ org(v)' = org(v)
  BY Types, SignInFixed DEF WInv
<1> USE <1>t DEF WInv, CountInv, OneStarter, workspaceRows, GoTo, Rollback
<1>1. ASSUME NEW v \in Visits, Visit(v) \/ WorkspaceGuard(v) \/ Recover(v) \/ Lose(v)
      PROVE (CountInv /\ OneStarter)'
  BY <1>1 DEF Visit, WorkspaceGuard, Recover, Lose
<1>2. ASSUME NEW v \in Visits, Look(v) PROVE (CountInv /\ OneStarter)'
  BY <1>2 DEF Look
<1>3. ASSUME NEW v \in Visits, Write(v) PROVE (CountInv /\ OneStarter)'
  <2>1. After(step[v]) \in {"organization", "membership", "count"}
    BY <1>3 DEF Write, Upserting, After
  <2> QED
    BY <1>3, <2>1 DEF Write
<1>4. ASSUME NEW v \in Visits, Count(v) PROVE (CountInv /\ OneStarter)'
  <2>1. org(v) \in Orgs
    OBVIOUS
  <2>2. starters[org(v)] \in Nat /\ starters[org(v)] <= 1
    BY <2>1
  <2> QED
    BY <1>4, <2>1, <2>2 DEF Count
<1>5. ASSUME NEW v \in Visits, Commit(v) PROVE (CountInv /\ OneStarter)'
  <2>1. org(v) \in Orgs
    OBVIOUS
  <2>2. starters'[org(v)] = 1 /\ \A o \in Orgs \ {org(v)} : starters'[o] = starters[o]
    <3>1. CASE step[v] = "create"
      BY <1>5, <2>1, <3>1 DEF Commit
    <3>2. CASE step[v] = "commit"
      BY <1>5, <2>1, <3>2 DEF Commit
    <3> QED
      BY <1>5, <3>1, <3>2 DEF Commit
  <2>3. \A o \in Orgs \ {org(v)} : member'[o] = member[o]
    BY <1>5, <2>1 DEF Commit, CommitMember, WorkspaceTypeOK
  <2>4. \A w \in Visits \ {v} : step'[w] = step[w]
                                /\ (step[w] \in {"create", "commit"} => org(w) # org(v))
    BY <1>5 DEF Commit, OneWriter, PastOrg
  <2>5. step'[v] = "in"
    BY <1>5 DEF Commit
  <2>6. \A w \in Visits : step'[w] \in {"create", "commit"} =>
          w # v /\ step'[w] = step[w] /\ starters'[org(w)] = starters[org(w)]
    BY <2>2, <2>4, <2>5
  <2>7. CountInv'
    BY <2>5, <2>6
  <2>8. ASSUME NEW o \in Orgs
        PROVE  starters'[o] <= 1 /\ ((\E u \in Users : member'[o][u] # "none") => starters'[o] = 1)
    <3>1. CASE o = org(v)
      BY <2>2, <3>1
    <3>2. CASE o # org(v)
      BY <2>2, <2>3, <3>2
    <3> QED
      BY <3>1, <3>2
  <2>9. OneStarter'
    BY <2>8
  <2> QED
    BY <2>7, <2>9
<1>6. ASSUME NEW o \in Orgs, NEW u \in Users, Disable(o, u) PROVE (CountInv /\ OneStarter)'
  <2>1. UNCHANGED <<step, starters>>
    BY <1>6 DEF Disable
  <2>2. \A q \in Orgs, r \in Users : member'[q][r] # "none" => member[q][r] # "none"
    BY <1>6 DEF Disable, WorkspaceTypeOK
  <2> QED
    BY <2>1, <2>2
<1>7. ASSUME UNCHANGED workspaceVars PROVE (CountInv /\ OneStarter)'
  BY <1>7 DEF workspaceVars
<1> QED
  BY <1>1, <1>2, <1>3, <1>4, <1>5, <1>6, <1>7 DEF WorkspaceNext, Serve

LEMMA WorkspaceInvariance == WorkspaceSpec => []WInv
<1>1. WorkspaceInit => WInv
  BY WorkspaceInitInv
<1>2. WInv /\ [WorkspaceNext]_workspaceVars => WInv'
  BY WorkspaceTypeStep, WriterStep, StarterStep DEF WInv
<1> QED
  BY <1>1, <1>2, PTL DEF WorkspaceSpec

\* Every organization gets one starter deal type and has it from its first member on, however many
\* visits of however many users overlap and fail: the transaction that counts the deal types
\* holds the row of the organization.
THEOREM StarterIsUnique == WorkspaceSpec => []OneStarter
  BY WorkspaceInvariance, PTL DEF WInv

SameSignIn == \A v, w \in Visits : signIn[v] = signIn[w]

\* With one sign-in, whoever finds a row committed finds the whole workspace there.
WinnerInv ==
  losses = 0 /\ disabled = 0 /\ SameSignIn =>
    \A v \in Visits :
      /\ users # {} \/ orgs # {} \/ member[org(v)][user(v)] # "none"
           => HasWorkspace(v)
      /\ step[v] = "lost" => HasWorkspace(v)
      /\ step[v] # "error"

LEMMA WinnerInit == WorkspaceInit => WinnerInv
  BY DEF WorkspaceInit, WinnerInv, user, org

LEMMA WinnerStep ==
  WorkspaceTypeOK /\ WinnerInv /\ [WorkspaceNext]_workspaceVars => WinnerInv'
<1> DEFINE Ours(v) == users # {} \/ orgs # {} \/ member[org(v)][user(v)] # "none"
<1> SUFFICES ASSUME WorkspaceTypeOK, WinnerInv, [WorkspaceNext]_workspaceVars,
                    losses' = 0, disabled' = 0, SameSignIn'
             PROVE \A v \in Visits :
                     /\ Ours(v)' => HasWorkspace(v)'
                     /\ step'[v] = "lost" => HasWorkspace(v)'
                     /\ step'[v] # "error"
  BY DEF WinnerInv
<1>1. signIn' = signIn
  BY DEF WorkspaceNext, Serve, Visit, WorkspaceGuard, Look, Write, Count, Commit, Recover, Lose,
     Disable, workspaceVars, clerk
<1>2. losses = 0 /\ disabled = 0
  <2>1. losses \in Nat /\ disabled \in Nat
    BY DEF WorkspaceTypeOK
  <2>2. losses' \in {losses, losses + 1} /\ disabled' \in {disabled, disabled + 1}
    BY DEF WorkspaceNext, Serve, Visit, WorkspaceGuard, Look, Write, Count, Commit, Recover, Lose,
       Disable, workspaceVars, workspaceBounds
  <2> QED
    BY <2>1, <2>2
<1>3. /\ step \in [Visits -> VisitSteps]
      /\ \A v \in Visits : /\ org(v) \in Orgs /\ user(v) \in Users
                           /\ org(v)' = org(v) /\ user(v)' = user(v)
  BY <1>1, Types DEF org, user
<1>4. \A v, w \in Visits : org(v) = org(w) /\ user(v) = user(w)
  BY <1>1 DEF SameSignIn, org, user
<1>5. ASSUME NEW v \in Visits
      PROVE /\ Ours(v) => HasWorkspace(v)
            /\ step[v] = "lost" => HasWorkspace(v)
            /\ step[v] # "error"
  BY <1>1, <1>2 DEF WinnerInv, SameSignIn
<1>6. CASE \E w \in Visits : Commit(w)
  <2>1. PICK w \in Visits : Commit(w)
    BY <1>6
  <2>2. member'[org(w)][user(w)] = "active"
    BY <1>3, <2>1 DEF Commit, CommitMember, WorkspaceTypeOK
  <2>3. step' = [step EXCEPT ![w] = "in"]
    BY <2>1 DEF Commit, Rollback, GoTo
  <2>4. ASSUME NEW v \in Visits PROVE HasWorkspace(v)' /\ step'[v] # "error"
    <3>1. org(v)' = org(w) /\ user(v)' = user(w)
      BY <1>3, <1>4
    <3>2. HasWorkspace(v)'
      BY <2>2, <3>1 DEF HasWorkspace
    <3> QED
      BY <1>3, <1>5, <2>3, <3>2
  <2> QED
    BY <2>4
<1>7. CASE UNCHANGED workspaceRows
  <2>1. \A v \in Visits : (Ours(v)' <=> Ours(v)) /\ (HasWorkspace(v)' <=> HasWorkspace(v))
    BY <1>3, <1>7 DEF workspaceRows, HasWorkspace
  <2> HIDE DEF Ours
  <2>2. ASSUME NEW v \in Visits, step'[v] # step[v]
        PROVE step'[v] # "error" /\ (step'[v] = "lost" => HasWorkspace(v))
    <3>1. ASSUME NEW w \in Visits, Write(w) PROVE step'[v] # "error" /\ (step'[v] = "lost" => Exists(v) \/ Taken(v))
      <4>1. After(step[w]) \in {"organization", "membership", "count"}
        BY <3>1 DEF Write, Upserting, After
      <4> QED
        BY <1>3, <2>2, <3>1, <4>1 DEF Write, GoTo, Rollback
    <3>2. (Exists(v) /\ Upserting(v)) \/ Taken(v) => Ours(v)
      BY DEF Exists, Upserting, Taken, Ours
    <3>3. ASSUME NEW w \in Visits, Write(w), v # w PROVE FALSE
      BY <1>3, <2>2, <3>3 DEF Write, GoTo, Rollback
    <3>4. ASSUME NEW w \in Visits, Write(w) PROVE step'[v] # "error" /\ (step'[v] = "lost" => HasWorkspace(v))
      BY <1>5, <3>1, <3>2, <3>3, <3>4 DEF Write
    <3>5. ASSUME NEW w \in Visits, Recover(w) PROVE step'[v] = "in"
      BY <1>3, <1>5, <2>2, <3>5 DEF Recover, GoTo
    <3>6. ASSUME NEW w \in Visits, Visit(w) \/ WorkspaceGuard(w) \/ Look(w) \/ Count(w)
          PROVE step'[v] \in VisitSteps \ {"error", "lost"}
      BY <1>3, <2>2, <3>6 DEF Visit, WorkspaceGuard, Look, Count, GoTo, VisitSteps
    <3>7. ASSUME NEW w \in Visits, Lose(w) PROVE FALSE
      BY <1>2, <3>7 DEF Lose
    <3>8. ASSUME NEW o \in Orgs, NEW u \in Users, Disable(o, u) PROVE FALSE
      BY <1>2, <3>8 DEF Disable
    <3>9. ASSUME NEW w \in Visits, Commit(w) PROVE step'[v] = "in"
      BY <1>3, <2>2, <3>9 DEF Commit, Rollback, GoTo
    <3>10. step' # step
      BY <2>2
    <3> QED
      BY <3>4, <3>5, <3>6, <3>7, <3>8, <3>9, <3>10 DEF WorkspaceNext, Serve, workspaceVars
  <2> QED
    BY <1>5, <2>1, <2>2
<1>8. WorkspaceNext => UNCHANGED workspaceRows \/ \E w \in Visits : Commit(w)
  <2>1. ASSUME NEW o \in Orgs, NEW u \in Users, Disable(o, u) PROVE FALSE
    BY <1>2, <2>1 DEF Disable
  <2> QED
    BY <2>1 DEF WorkspaceNext, Serve, Visit, WorkspaceGuard, Look, Write, Count, Recover, Lose
<1> QED
  BY <1>6, <1>7, <1>8 DEF workspaceVars

\* Overlapping bootstraps of one sign-in all get in: when the unique index rejects a write, the
\* transaction that committed the row has committed the membership with it.
THEOREM WinnerLetsIn == WorkspaceSpec => []SameSignInGetsIn
<1>1. WinnerInv => SameSignInGetsIn
  BY DEF WinnerInv, SameSignInGetsIn, SameSignIn
<1>2. WInv /\ WinnerInv /\ [WorkspaceNext]_workspaceVars => WinnerInv'
  BY WinnerStep DEF WInv
<1> QED
  BY <1>1, <1>2, WinnerInit, WorkspaceInvariance, PTL DEF WorkspaceSpec

-----------------------------------------------------------------------------
(* The migration wrapper. *)

\* An approval names what a deploy opens, as long as the fingerprint tells targets apart: those
\* of a database URL do, being made of its host, port and database.
LEMMA FingerprintsDiffer ==
  ASSUME NEW t, NEW s, Fingerprint(t) = Fingerprint(s)
  PROVE  t.host = s.host /\ t.port = s.port /\ t.database = s.database
  BY DEF Fingerprint

\* Nothing but the approved databases and the reserved local one is ever opened, whatever the
\* environments hold.
THEOREM ApprovedTargets ==
  ASSUME NEW Host, NEW Port, NEW Database,
         Targets \subseteq [host : Host, port : Port, database : Database]
  PROVE  WrapperSpec => []OnlyApprovedTargets
<1> DEFINE Inv == approved \subseteq Targets /\ OnlyApprovedTargets
<1>1. WrapperInit => Inv
  BY DEF WrapperInit, Idle, OnlyApprovedTargets
<1>2. Inv /\ [WrapperNext]_wrapperVars => Inv'
  <2> SUFFICES ASSUME Inv, [WrapperNext]_wrapperVars PROVE Inv'
    OBVIOUS
  <2>1. ASSUME NEW env \in Environments, Approve(env) PROVE Inv'
    BY <2>1 DEF Approve, Verified, Environments, Optional, OnlyApprovedTargets
  <2>2. ASSUME NEW env \in Environments, NEW mode \in {"dev", "deploy"}, Migrate(mode, env)
        PROVE Inv'
    <3>1. env.migrationUrl \in Targets /\ migrated' = [mode |-> mode, opened |-> env.migrationUrl]
      BY <2>2 DEF Migrate, Verified, Environments, Optional, PrismaUrl, SanitizedEnvironment
    <3>2. CASE mode = "dev"
      <4>1. IsLocal(env.migrationUrl)
        BY <2>2, <3>2 DEF Migrate, ModeIsAllowed, Verified
      <4> QED
        BY <2>2, <3>1, <3>2, <4>1 DEF Migrate, OnlyApprovedTargets
    <3>3. CASE mode = "deploy"
      <4>1. PICK t \in approved : Fingerprint(env.migrationUrl) = Fingerprint(t)
        BY <2>2, <3>3 DEF Migrate, ModeIsAllowed, Fingerprint
      <4>2. env.migrationUrl = t
        BY <3>1, <4>1, FingerprintsDiffer
      <4> QED
        BY <2>2, <3>1, <3>3, <4>1, <4>2 DEF Migrate, OnlyApprovedTargets
    <3> QED
      BY <3>2, <3>3
  <2>3. ASSUME UNCHANGED wrapperVars PROVE Inv'
    BY <2>3 DEF wrapperVars, OnlyApprovedTargets
  <2> QED
    BY <2>1, <2>2, <2>3 DEF WrapperNext
<1> QED
  BY <1>1, <1>2, PTL DEF WrapperSpec

-----------------------------------------------------------------------------
(* Schema scripts: what the statements of the upgrade that have run leave     *)
(* behind stays, whatever else runs or dies between them.                     *)

\* The index that makes a duplicate impossible.
KeyOf(r) ==
  CASE r = "document_twice"  -> "documents_deal_id_storage_key_key"
    [] r = "company_twice"   -> "companies_organization_id_legal_name_identity_jurisdiction_key"
    [] r = "applicant_twice" -> "applicants_organization_id_email_key"

\* While an index is there, its duplicates are not.
KeysHold == \A r \in Duplicates : KeyOf(r) \in schema => r \notin bad

\* What a statement of the upgrade leaves behind: an object for good, and no leftover for as long
\* as the workers do not change, which they do not while it runs.
Made(st) == st.does = "ensure" => st.object \in schema
Mended(st) == st.does = "mend" /\ ~undrained => Leftover \notin bad

SessionInv ==
  /\ script # "none" => script \in DOMAIN Scripts /\ next \in 1 .. Len(Scripts[script])
  /\ script = "upgrade" =>
       \A k \in 1 .. next - 1 : Made(UpgradeScript[k]) /\ Mended(UpgradeScript[k])

FinishedInv ==
  /\ upgraded # "no" => \A k \in 1 .. Len(UpgradeScript) : Made(UpgradeScript[k])
  /\ upgraded = "drained" => ~undrained /\ Leftover \notin bad

\* Migrations are counted.
HistoryInv == history \in Nat

UInv == KeysHold /\ SessionInv /\ FinishedInv

\* What scripts are made of: an index that keeps duplicates out is made by a statement that
\* stops at them, and comes along with nothing else.
Statements ==
  {st \in [does : {"create", "ensure", "guard", "mend"}, object : Current \cup {"none"},
           along : SUBSET Current, needs : SUBSET Current, rows : SUBSET BadRows] :
     /\ st.does \in {"create", "ensure"} => st.object \in Current
     /\ \A r \in Duplicates :
          /\ KeyOf(r) = st.object => r \in st.rows
          /\ KeyOf(r) \notin st.along}

\* The objects that keep no duplicates out.
Plain == Current \ {KeyOf(r) : r \in Duplicates}

LEMMA KeysDiffer ==
  /\ KeyOf("document_twice") = "documents_deal_id_storage_key_key"
  /\ KeyOf("company_twice") = "companies_organization_id_legal_name_identity_jurisdiction_key"
  /\ KeyOf("applicant_twice") = "applicants_organization_id_email_key"
BY DEF KeyOf

LEMMA KeyTypes == \A r \in Duplicates : KeyOf(r) \in Current /\ KeyOf(r) # "none"
BY KeysDiffer DEF Duplicates, Current, FinalizationMigration, IdentityMigration

LEMMA PlainStatements ==
  ASSUME NEW object \in Plain, NEW along \in SUBSET Plain, NEW needs \in SUBSET Current,
         NEW rows \in SUBSET BadRows
  PROVE  /\ Create(object, along) \in Statements
         /\ Ensure(object, along, needs, rows) \in Statements
         /\ Add(object, needs) \in Statements
         /\ Guard(needs, rows) \in Statements
         /\ Mend(needs, rows) \in Statements
<1>1. object \in Current /\ along \in SUBSET Current /\ {} \in SUBSET Current
  BY DEF Plain
<1>2. \A r \in Duplicates : KeyOf(r) # object /\ KeyOf(r) \notin along /\ KeyOf(r) # "none"
  BY KeyTypes DEF Plain
<1> QED
  BY <1>1, <1>2 DEF Create, Ensure, Add, Guard, Mend, Statement, Statements

LEMMA UniqueStatements ==
  ASSUME NEW r \in Duplicates, NEW needs \in SUBSET Current
  PROVE  /\ CreateUnique(KeyOf(r), {r}) \in Statements
         /\ Ensure(KeyOf(r), {}, needs, {r}) \in Statements
<1>1. KeyOf(r) \in Current /\ {} \in SUBSET Current /\ {r} \in SUBSET BadRows
  BY KeyTypes DEF BadRows
<1>2. \A d \in Duplicates : KeyOf(d) = KeyOf(r) => d \in {r}
  BY KeysDiffer DEF Duplicates
<1> QED
  BY <1>1, <1>2 DEF CreateUnique, Ensure, Statement, Statements

LEMMA PlainObjects ==
  /\ Tables \cup NotificationIdentity \cup LeaseMigration \cup OutboxMigration \subseteq Plain
  /\ {"jobs.intake_submission_id", "jobs_intake_submission_id_key",
      "jobs_intake_submission_id_fkey", "companies.identity_jurisdiction"} \subseteq Plain
<1>1. \A r \in Duplicates : KeyOf(r) \in {"documents_deal_id_storage_key_key",
        "companies_organization_id_legal_name_identity_jurisdiction_key",
        "applicants_organization_id_email_key"}
  BY KeysDiffer DEF Duplicates
<1> QED
  BY <1>1 DEF Plain, Current, Baseline, Tables, NotificationIdentity, LeaseMigration,
     OutboxMigration, FinalizationMigration, IdentityMigration

LEMMA PlainIsCurrent == Plain \subseteq Current
BY DEF Plain

LEMMA LeaseTyped == LeaseStatements \in Seq(Statements)
<1>1. /\ Add("jobs.available_at", {"jobs"}) \in Statements
      /\ Add("jobs.lease_expires_at", {"jobs"}) \in Statements
      /\ Add("jobs.lease_token", {"jobs"}) \in Statements
      /\ Mend(JobColumns, {Leftover}) \in Statements
      /\ Add("jobs_status_available_at_idx", {"jobs.available_at"}) \in Statements
      /\ Add("jobs_status_lease_expires_at_idx", {"jobs.lease_expires_at"}) \in Statements
  BY PlainStatements, PlainObjects, PlainIsCurrent
  DEF Tables, LeaseMigration, JobColumns, BadRows
<1> QED
  BY <1>1 DEF LeaseStatements

LEMMA OutboxTyped == OutboxStatements \in Seq(Statements)
<1>1. /\ Add("NotificationOutboxStatus", {}) \in Statements
      /\ Add("notification_outbox", {"NotificationOutboxStatus"}) \in Statements
      /\ Add("notification_outbox_organization_id_dedupe_key_key", {"notification_outbox"})
           \in Statements
      /\ Add("notification_outbox_status_available_at_created_at_idx", {"notification_outbox"})
           \in Statements
      /\ Add("notification_outbox_organization_id_created_at_idx", {"notification_outbox"})
           \in Statements
      /\ Add("notification_outbox_status_locked_at_idx", {"notification_outbox"}) \in Statements
      /\ Add("notification_outbox_organization_id_fkey", {"notification_outbox", "organizations"})
           \in Statements
  BY PlainStatements, PlainObjects, PlainIsCurrent DEF Tables, OutboxMigration
<1> QED
  BY <1>1 DEF OutboxStatements

LEMMA FinalizationTyped == FinalizationStatements \in Seq(Statements)
<1>1. /\ Add("jobs.intake_submission_id", {"jobs"}) \in Statements
      /\ Guard({"documents"}, {"document_twice"}) \in Statements
      /\ Add("jobs_intake_submission_id_key", {"jobs.intake_submission_id"}) \in Statements
      /\ Add("jobs_intake_submission_id_fkey",
             {"jobs.intake_submission_id", "intake_submissions"}) \in Statements
  BY PlainStatements, PlainObjects, PlainIsCurrent DEF Tables, BadRows, Duplicates
<1>2. Ensure("documents_deal_id_storage_key_key", {}, {"documents"}, {"document_twice"})
        \in Statements
  BY UniqueStatements, KeysDiffer, PlainObjects, PlainIsCurrent DEF Tables, Duplicates
<1> QED
  BY <1>1, <1>2 DEF FinalizationStatements

LEMMA IdentityTyped == IdentityStatements \in Seq(Statements)
<1>1. /\ Add("companies.identity_jurisdiction", {"companies"}) \in Statements
      /\ Guard({"companies", "applicants"}, {"company_twice", "applicant_twice"}) \in Statements
  BY PlainStatements, PlainObjects, PlainIsCurrent DEF Tables, BadRows, Duplicates
<1>2. /\ Ensure("companies_organization_id_legal_name_identity_jurisdiction_key", {},
                {"companies.identity_jurisdiction"}, {"company_twice"}) \in Statements
      /\ Ensure("applicants_organization_id_email_key", {}, {"applicants"}, {"applicant_twice"})
           \in Statements
  BY UniqueStatements, KeysDiffer, PlainObjects, PlainIsCurrent DEF Tables, Duplicates
<1> QED
  BY <1>1, <1>2 DEF IdentityStatements

LEMMA PatchTyped == PatchScript \in Seq(Statements)
<1> DEFINE Id == "notification_without_event_id"
<1> DEFINE Key == "notification_without_dedupe_key"
<1>1. /\ Add("notifications.event_id", {"notifications"}) \in Statements
      /\ Add("notifications.dedupe_key", {"notifications"}) \in Statements
      /\ Mend({"notifications.event_id"}, {Id}) \in Statements
      /\ Mend({"notifications.dedupe_key"}, {Key}) \in Statements
      /\ Ensure("notifications.event_id.not_null", {}, {"notifications.event_id"}, {Id})
           \in Statements
      /\ Ensure("notifications.dedupe_key.not_null", {}, {"notifications.dedupe_key"}, {Key})
           \in Statements
      /\ Add("notifications_organization_id_dedupe_key_key", {"notifications.dedupe_key"})
           \in Statements
  BY PlainStatements, PlainObjects, PlainIsCurrent
  DEF Tables, NotificationIdentity, BadRows, Unnamed
<1> QED
  BY <1>1 DEF PatchScript

LEMMA JobsTyped == JobsScript \in Seq(Statements)
<1>1. /\ Ensure("jobs", JobColumns, {"organizations"}, {}) \in Statements
      /\ Add("jobs.available_at", {"jobs"}) \in Statements
      /\ Add("jobs.lease_expires_at", {"jobs"}) \in Statements
      /\ Add("jobs.lease_token", {"jobs"}) \in Statements
      /\ Add("jobs_status_available_at_idx", {"jobs.available_at"}) \in Statements
      /\ Add("jobs_status_lease_expires_at_idx", {"jobs.lease_expires_at"}) \in Statements
  BY PlainStatements, PlainObjects, PlainIsCurrent DEF Tables, LeaseMigration, JobColumns
<1> QED
  BY <1>1 DEF JobsScript

LEMMA BootstrapTyped == BootstrapScript \in Seq(Statements)
<1>1. /\ Create("NotificationOutboxStatus", {}) \in Statements
      /\ Create("notification_outbox", {}) \in Statements
      /\ Create("notification_outbox_organization_id_dedupe_key_key", {}) \in Statements
      /\ Create("notification_outbox_status_available_at_created_at_idx", {}) \in Statements
      /\ Create("notification_outbox_organization_id_created_at_idx", {}) \in Statements
      /\ Create("notification_outbox_status_locked_at_idx", {}) \in Statements
      /\ Create("notification_outbox_organization_id_fkey", {}) \in Statements
  BY PlainStatements, PlainObjects DEF OutboxMigration
<1>2. /\ Create("organizations", {}) \in Statements
      /\ Create("companies", {"companies.identity_jurisdiction"}) \in Statements
      /\ Create("applicants", {}) \in Statements
      /\ Create("intake_submissions", {}) \in Statements
      /\ Create("documents", {}) \in Statements
  BY PlainStatements, PlainObjects DEF Tables
<1>3. /\ Create("notifications",
                NotificationIdentity \ {"notifications_organization_id_dedupe_key_key"})
           \in Statements
      /\ Create("notifications_organization_id_dedupe_key_key", {}) \in Statements
  BY PlainStatements, PlainObjects DEF Tables, NotificationIdentity
<1>4. /\ Create("jobs", JobColumns \cup {"jobs.intake_submission_id"}) \in Statements
      /\ Create("jobs_status_available_at_idx", {}) \in Statements
      /\ Create("jobs_status_lease_expires_at_idx", {}) \in Statements
      /\ Create("jobs_intake_submission_id_key", {}) \in Statements
      /\ Create("jobs_intake_submission_id_fkey", {}) \in Statements
  BY PlainStatements, PlainObjects DEF Tables, LeaseMigration, JobColumns
<1>5. /\ CreateUnique("companies_organization_id_legal_name_identity_jurisdiction_key",
                      {"company_twice"}) \in Statements
      /\ CreateUnique("applicants_organization_id_email_key", {"applicant_twice"}) \in Statements
      /\ CreateUnique("documents_deal_id_storage_key_key", {"document_twice"}) \in Statements
  BY UniqueStatements, KeysDiffer DEF Duplicates
<1> QED
  BY <1>1, <1>2, <1>3, <1>4, <1>5 DEF BootstrapScript

LEMMA UpgradeTyped == UpgradeScript \in Seq(Statements)
BY LeaseTyped, OutboxTyped, FinalizationTyped, IdentityTyped, ConcatProperties DEF UpgradeScript

\* Every statement of every script.
LEMMA ScriptsTyped ==
  ASSUME NEW s \in DOMAIN Scripts
  PROVE  Scripts[s] \in Seq(Statements)
<1>1. /\ DOMAIN Scripts = {"upgrade", "patch", "jobs", "bootstrap"}
      /\ Scripts["upgrade"] = UpgradeScript /\ Scripts["patch"] = PatchScript
      /\ Scripts["jobs"] = JobsScript /\ Scripts["bootstrap"] = BootstrapScript
  BY DEF Scripts
<1> QED
  BY <1>1, UpgradeTyped, PatchTyped, JobsTyped, BootstrapTyped

\* What the upgrade is made of.
LEMMA PartsOfUpgrade ==
  Range(UpgradeScript) = Range(LeaseStatements) \cup Range(OutboxStatements)
                           \cup Range(FinalizationStatements) \cup Range(IdentityStatements)
<1> DEFINE three == LeaseStatements \o OutboxStatements \o FinalizationStatements
<1>1. /\ LeaseStatements \o OutboxStatements \in Seq(Statements)
      /\ three \in Seq(Statements)
  BY LeaseTyped, OutboxTyped, FinalizationTyped, ConcatProperties
<1>2. Range(LeaseStatements \o OutboxStatements)
        = Range(LeaseStatements) \cup Range(OutboxStatements)
  BY LeaseTyped, OutboxTyped, RangeConcatenation
<1>3. Range(three)
        = Range(LeaseStatements \o OutboxStatements) \cup Range(FinalizationStatements)
  BY <1>1, FinalizationTyped, RangeConcatenation
<1>4. Range(three \o IdentityStatements) = Range(three) \cup Range(IdentityStatements)
  BY <1>1, IdentityTyped, RangeConcatenation
<1> QED
  BY <1>2, <1>3, <1>4 DEF UpgradeScript

\* The upgrade makes every object of the four migrations, and mends the leftovers.
LEMMA UpgradeMakes ==
  /\ \A o \in LeaseMigration \cup OutboxMigration \cup FinalizationMigration
                \cup IdentityMigration :
       \E st \in Range(UpgradeScript) : st.does = "ensure" /\ st.object = o
  /\ \E st \in Range(UpgradeScript) : st.does = "mend"
<1> USE DEF Range, Add, Ensure, Guard, Mend, Statement
<1>1. /\ \A o \in LeaseMigration :
           \E st \in Range(LeaseStatements) : st.does = "ensure" /\ st.object = o
      /\ \E st \in Range(LeaseStatements) : st.does = "mend"
  BY DEF LeaseStatements, LeaseMigration
<1>2. \A o \in OutboxMigration :
        \E st \in Range(OutboxStatements) : st.does = "ensure" /\ st.object = o
  BY DEF OutboxStatements, OutboxMigration
<1>3. \A o \in FinalizationMigration :
        \E st \in Range(FinalizationStatements) : st.does = "ensure" /\ st.object = o
  BY DEF FinalizationStatements, FinalizationMigration
<1>4. \A o \in IdentityMigration :
        \E st \in Range(IdentityStatements) : st.does = "ensure" /\ st.object = o
  BY DEF IdentityStatements, IdentityMigration
<1> HIDE DEF Range
<1> QED
  BY <1>1, <1>2, <1>3, <1>4, PartsOfUpgrade

LEMMA UpgradeMends == \A st \in Range(UpgradeScript) : st.does = "mend" => Leftover \in st.rows
<1> USE DEF Range, Add, Ensure, Guard, Mend, Statement
<1>1. \A st \in Range(LeaseStatements) : st.does = "mend" => Leftover \in st.rows
  BY DEF LeaseStatements
<1>2. \A st \in Range(OutboxStatements) : st.does # "mend"
  BY DEF OutboxStatements
<1>3. \A st \in Range(FinalizationStatements) : st.does # "mend"
  BY DEF FinalizationStatements
<1>4. \A st \in Range(IdentityStatements) : st.does # "mend"
  BY DEF IdentityStatements
<1> HIDE DEF Range
<1> QED
  BY <1>1, <1>2, <1>3, <1>4, PartsOfUpgrade

LEMMA UpgradeStatement ==
  ASSUME NEW k \in 1 .. Len(UpgradeScript)
  PROVE  /\ UpgradeScript[k] \in Statements
         /\ UpgradeScript[k].does = "mend" => Leftover \in UpgradeScript[k].rows
         /\ UpgradeScript[k].does = "ensure" => UpgradeScript[k].object \in Current
<1>1. UpgradeScript[k] \in Statements
  BY UpgradeTyped, ElementOfSeq
<1>2. UpgradeScript[k] \in Range(UpgradeScript)
  BY UpgradeTyped DEF Range
<1> QED
  BY <1>1, <1>2, UpgradeMends DEF Statements

LEMMA UpgradeLength == Len(UpgradeScript) \in Nat /\ Len(UpgradeScript) >= 1
<1> DEFINE two == LeaseStatements \o OutboxStatements
<1> DEFINE three == two \o FinalizationStatements
<1>1. two \in Seq(Statements) /\ three \in Seq(Statements)
  BY LeaseTyped, OutboxTyped, FinalizationTyped, ConcatProperties
<1>2. /\ Len(two) = Len(LeaseStatements) + Len(OutboxStatements)
      /\ Len(three) = Len(two) + Len(FinalizationStatements)
      /\ Len(three \o IdentityStatements) = Len(three) + Len(IdentityStatements)
  BY <1>1, LeaseTyped, OutboxTyped, FinalizationTyped, IdentityTyped, ConcatProperties
<1>3. /\ Len(OutboxStatements) \in Nat /\ Len(FinalizationStatements) \in Nat
      /\ Len(IdentityStatements) \in Nat
  BY OutboxTyped, FinalizationTyped, IdentityTyped, LenProperties
<1>4. Len(LeaseStatements) = 6
  BY DEF LeaseStatements
<1> QED
  BY <1>2, <1>3, <1>4 DEF UpgradeScript

LEMMA ScriptLengths ==
  \A s \in DOMAIN Scripts : Len(Scripts[s]) \in Nat /\ Len(Scripts[s]) >= 1
<1>1. DOMAIN Scripts = {"upgrade", "patch", "jobs", "bootstrap"}
  BY DEF Scripts
<1>2. Len(Scripts["patch"]) \in Nat /\ Len(Scripts["patch"]) >= 1
  BY DEF Scripts, PatchScript
<1>3. Len(Scripts["jobs"]) \in Nat /\ Len(Scripts["jobs"]) >= 1
  BY DEF Scripts, JobsScript
<1>4. Len(Scripts["bootstrap"]) \in Nat /\ Len(Scripts["bootstrap"]) >= 1
  BY DEF Scripts, BootstrapScript
<1>5. Scripts["upgrade"] = UpgradeScript
  BY DEF Scripts
<1> QED
  BY <1>1, <1>2, <1>3, <1>4, <1>5, UpgradeLength

\* A migration that makes a unique index stops at the rows it forbids.
LEMMA MigrationStops ==
  ASSUME HistoryInv, history < Len(Migrations)
  PROVE  \A r \in Duplicates :
           KeyOf(r) \in Migrations[history + 1].adds => r \in Migrations[history + 1].stops
<1>1. Len(Migrations) = 5 /\ history \in Nat
  BY DEF Migrations, HistoryInv
<1>2. history + 1 \in {1, 2, 3, 4, 5}
  BY <1>1
<1>3. \A r \in Duplicates :
        KeyOf(r) \notin Baseline \cup LeaseMigration \cup OutboxMigration
  BY KeysDiffer
  DEF Duplicates, Baseline, Tables, NotificationIdentity, LeaseMigration, OutboxMigration
<1>4. CASE history + 1 \in {1, 2, 3}
  <2>1. Migrations[history + 1].adds \in {Baseline, LeaseMigration, OutboxMigration}
    BY <1>4 DEF Migrations, Migration
  <2> QED
    BY <1>3, <2>1
<1>5. CASE history + 1 = 4
  <2>1. Migrations[history + 1] = Migration(FinalizationMigration, {"document_twice"}, {})
    BY <1>5 DEF Migrations
  <2>2. \A r \in Duplicates : KeyOf(r) \in FinalizationMigration => r = "document_twice"
    BY KeysDiffer DEF Duplicates, FinalizationMigration
  <2> QED
    BY <2>1, <2>2 DEF Migration
<1>6. CASE history + 1 = 5
  <2>1. Migrations[history + 1] =
          Migration(IdentityMigration, {"company_twice", "applicant_twice"}, {})
    BY <1>6 DEF Migrations
  <2>2. \A r \in Duplicates :
          KeyOf(r) \in IdentityMigration => r \in {"company_twice", "applicant_twice"}
    BY KeysDiffer DEF Duplicates, IdentityMigration
  <2> QED
    BY <2>1, <2>2 DEF Migration
<1> QED
  BY <1>2, <1>4, <1>5, <1>6

LEMMA UpgradeInitInv == UpgradeInit => UInv
<1> SUFFICES ASSUME UpgradeInit PROVE UInv
  OBVIOUS
<1>1. schema \subseteq Baseline
  BY DEF UpgradeInit, Legacy, Baseline
<1>2. \A r \in Duplicates : KeyOf(r) \notin Baseline
  BY KeysDiffer DEF Duplicates, Baseline, Tables, NotificationIdentity
<1> QED
  BY <1>1, <1>2 DEF UpgradeInit, UInv, KeysHold, SessionInv, FinishedInv

\* A step that takes no object and adds no row, outside or inside a script.
LEMMA NothingLost ==
  ASSUME UInv, schema \subseteq schema', bad' \subseteq bad, undrained' = undrained
  PROVE  /\ \A k \in 1 .. Len(UpgradeScript) :
              /\ Made(UpgradeScript[k]) => Made(UpgradeScript[k])'
              /\ Mended(UpgradeScript[k]) => Mended(UpgradeScript[k])'
         /\ upgraded' = upgraded => FinishedInv'
BY DEF UInv, FinishedInv, Made, Mended

LEMMA RunInvariance == UInv /\ RunStatement => UInv'
<1> SUFFICES ASSUME UInv, RunStatement PROVE UInv'
  OBVIOUS
<1> DEFINE st == Scripts[script][next]
<1> DEFINE last == next = Len(Scripts[script])
<1>1. /\ script \in DOMAIN Scripts /\ next \in 1 .. Len(Scripts[script])
      /\ Len(Scripts[script]) \in Nat /\ Scripts["upgrade"] = UpgradeScript
  BY ScriptLengths DEF RunStatement, UInv, SessionInv, Scripts
<1>2. st \in Statements
  BY <1>1, ScriptsTyped, ElementOfSeq
<1>3. undrained' = undrained /\ history' = history
  BY DEF RunStatement
<1>4. CASE ~Succeeds(st)
  <2>1. /\ schema' = schema /\ bad' = bad /\ upgraded' = upgraded /\ script' = "none"
    BY <1>4 DEF RunStatement
  <2> QED
    BY <2>1, <1>3, NothingLost DEF UInv, KeysHold, SessionInv
<1>5. CASE Succeeds(st)
  <2>1. /\ Effect(st)
        /\ IF last THEN script' = "none" /\ next' = 0 ELSE script' = script /\ next' = next + 1
        /\ upgraded' = IF ~last \/ script # "upgrade" THEN upgraded
                       ELSE IF undrained THEN "undrained" ELSE "drained"
    BY <1>5 DEF RunStatement
  <2>2. schema \subseteq schema' /\ bad' \subseteq bad
    BY <2>1 DEF Effect
  <2>3. KeysHold'
    <3> SUFFICES ASSUME NEW r \in Duplicates, KeyOf(r) \in schema' PROVE r \notin bad'
      BY DEF KeysHold
    <3>1. CASE KeyOf(r) \in schema
      BY <3>1, <2>2 DEF UInv, KeysHold
    <3>2. CASE KeyOf(r) \notin schema
      <4>1. KeyOf(r) \notin st.along
        BY <1>2 DEF Statements
      <4>2. st.does \in {"create", "ensure"} /\ st.object \notin schema /\ KeyOf(r) = st.object
        BY <2>1, <3>2, <4>1 DEF Effect
      <4>3. r \in st.rows /\ st.rows \cap bad = {}
        BY <1>2, <1>5, <4>2 DEF Statements, Succeeds
      <4> QED
        BY <2>2, <4>3
    <3> QED
      BY <3>1, <3>2
  <2>4. ASSUME script = "upgrade", NEW k \in {next}
        PROVE  Made(UpgradeScript[k])' /\ Mended(UpgradeScript[k])'
    <3>1. st = UpgradeScript[k] /\ k \in 1 .. Len(UpgradeScript)
      BY <1>1, <2>4
    <3>2. st.does = "mend" => Leftover \in st.rows
      BY <3>1, UpgradeStatement
    <3>3. st.does = "ensure" => st.object \in schema'
      BY <2>1 DEF Effect
    <3>4. st.does = "mend" => Leftover \notin bad'
      BY <2>1, <3>2 DEF Effect
    <3> QED
      BY <3>1, <3>3, <3>4 DEF Made, Mended
  <2>5. script = "upgrade" =>
          \A k \in 1 .. next : Made(UpgradeScript[k])' /\ Mended(UpgradeScript[k])'
    <3> SUFFICES ASSUME script = "upgrade", NEW k \in 1 .. next
                 PROVE  Made(UpgradeScript[k])' /\ Mended(UpgradeScript[k])'
      OBVIOUS
    <3>1. k \in 1 .. Len(UpgradeScript)
      BY <1>1
    <3>2. CASE k = next
      BY <3>2, <2>4
    <3>3. CASE k # next
      <4>1. k \in 1 .. next - 1
        BY <1>1, <3>3
      <4>2. Made(UpgradeScript[k]) /\ Mended(UpgradeScript[k])
        BY <4>1 DEF UInv, SessionInv
      <4> QED
        BY <3>1, <4>2, <2>2, <1>3, NothingLost
    <3> QED
      BY <3>2, <3>3
  <2>6. SessionInv'
    <3>1. CASE last
      BY <2>1, <3>1 DEF SessionInv
    <3>2. CASE ~last
      <4>1. script' = script /\ next' = next + 1 /\ next + 1 \in 1 .. Len(Scripts[script])
            /\ (next + 1) - 1 = next
        BY <2>1, <3>2, <1>1
      <4> QED
        BY <4>1, <1>1, <2>5 DEF SessionInv
    <3> QED
      BY <3>1, <3>2
  <2>7. FinishedInv'
    <3>1. CASE ~last \/ script # "upgrade"
      BY <3>1, <2>1, <2>2, <1>3, NothingLost
    <3>2. CASE last /\ script = "upgrade"
      <4>1. \A k \in 1 .. Len(UpgradeScript) : Made(UpgradeScript[k])' /\ Mended(UpgradeScript[k])'
        BY <1>1, <3>2, <2>5
      <4>2. ~undrained => Leftover \notin bad'
        <5>1. PICK k \in 1 .. Len(UpgradeScript) : UpgradeScript[k].does = "mend"
          BY UpgradeMakes, UpgradeTyped DEF Range
        <5> QED
          BY <5>1, <4>1, <1>3 DEF Mended
      <4> QED
        BY <4>1, <4>2, <3>2, <2>1, <1>3 DEF FinishedInv
    <3> QED
      BY <3>1, <3>2
  <2> QED
    BY <2>3, <2>6, <2>7 DEF UInv
<1> QED
  BY <1>4, <1>5

LEMMA UpgradeInvariance == UpgradeSpec => []UInv
<1>1. UInv /\ HistoryInv /\ [UpgradeNext]_upgradeVars => UInv'
  <2> SUFFICES ASSUME UInv, HistoryInv, [UpgradeNext]_upgradeVars PROVE UInv'
    OBVIOUS
  <2>1. ASSUME NEW s \in DOMAIN Scripts, Start(s) PROVE UInv'
    <3>1. script' = s /\ next' = 1 /\ schema' = schema /\ bad' = bad /\ upgraded' = upgraded
          /\ undrained' = undrained
      BY <2>1 DEF Start, database
    <3>2. KeysHold'
      BY <3>1 DEF UInv, KeysHold
    <3>3. FinishedInv'
      BY <3>1, NothingLost
    <3>4. SessionInv'
      BY <3>1, ScriptLengths DEF SessionInv
    <3> QED
      BY <3>2, <3>3, <3>4 DEF UInv
  <2>2. CASE RunStatement
    BY <2>2, RunInvariance
  <2>3. CASE ScriptDies
    <3>1. script' = "none" /\ schema' = schema /\ bad' = bad /\ upgraded' = upgraded
          /\ undrained' = undrained
      BY <2>3 DEF ScriptDies, database
    <3> QED
      BY <3>1, NothingLost DEF UInv, KeysHold, SessionInv
  <2>4. CASE Repair
    <3>1. script = "none" /\ script' = "none" /\ schema' = schema /\ bad' \subseteq bad
          /\ upgraded' = upgraded /\ undrained' = undrained
      BY <2>4 DEF Repair, session
    <3> QED
      BY <3>1, NothingLost DEF UInv, KeysHold, SessionInv
  <2>5. CASE OldWrite \/ OldClaim
    <3>1. schema' = schema /\ undrained' = undrained
          /\ script' = script /\ next' = next /\ upgraded' = upgraded
      BY <2>5 DEF OldWrite, OldClaim, session
    <3>2. KeysHold'
      <4> SUFFICES ASSUME NEW r \in Duplicates, KeyOf(r) \in schema PROVE r \notin bad'
        BY <3>1 DEF KeysHold
      <4>1. r \notin Admissible
        BY KeysDiffer DEF Admissible, Duplicates, Unnamed, Leftover
      <4>2. r \notin Unnamed \cup {Leftover}
        BY DEF Duplicates, Unnamed, Leftover
      <4>3. r \notin bad
        BY DEF UInv, KeysHold
      <4> QED
        BY <2>5, <4>1, <4>2, <4>3 DEF OldWrite, OldClaim
    <3>3. ~undrained => (Leftover \in bad' => Leftover \in bad)
      BY <2>5 DEF OldWrite, OldClaim, Duplicates, Unnamed, Leftover
    <3>4. \A k \in 1 .. Len(UpgradeScript) :
            /\ Made(UpgradeScript[k]) => Made(UpgradeScript[k])'
            /\ Mended(UpgradeScript[k]) => Mended(UpgradeScript[k])'
      BY <3>1, <3>3 DEF Made, Mended
    <3>5. SessionInv'
      <4>1. script = "upgrade" => 1 .. next - 1 \subseteq 1 .. Len(UpgradeScript)
        BY ScriptLengths DEF UInv, SessionInv, Scripts
      <4> QED
        BY <3>1, <3>4, <4>1 DEF UInv, SessionInv
    <3>6. FinishedInv'
      BY <3>1, <3>3, <3>4 DEF UInv, FinishedInv
    <3> QED
      BY <3>2, <3>5, <3>6 DEF UInv
  <2>6. CASE Drain
    <3>1. script = "none" /\ script' = "none" /\ schema' = schema /\ bad' = bad
          /\ upgraded' = upgraded /\ ~undrained'
      BY <2>6 DEF Drain, database, session
    <3>2. \A k \in 1 .. Len(UpgradeScript) : Made(UpgradeScript[k]) => Made(UpgradeScript[k])'
      BY <3>1 DEF Made
    <3> QED
      BY <3>1, <3>2 DEF UInv, KeysHold, SessionInv, FinishedInv
  <2>7. CASE PrismaDeploy
    <3> DEFINE m == Migrations[history + 1]
    <3>1. /\ m.stops \cap bad = {} /\ bad' = bad \ m.mends /\ schema' = schema \cup m.adds
          /\ undrained' = undrained /\ script' = script /\ next' = next /\ upgraded' = upgraded
      BY <2>7 DEF PrismaDeploy, session
    <3>2. \A k \in 1 .. Len(UpgradeScript) :
            /\ Made(UpgradeScript[k]) => Made(UpgradeScript[k])'
            /\ Mended(UpgradeScript[k]) => Mended(UpgradeScript[k])'
      BY <3>1, NothingLost
    <3>3. KeysHold'
      <4>1. \A r \in Duplicates : KeyOf(r) \in m.adds => r \in m.stops
        BY <2>7, MigrationStops DEF PrismaDeploy
      <4> HIDE DEF m
      <4> QED
        BY <3>1, <4>1 DEF UInv, KeysHold
    <3>4. SessionInv'
      <4>1. script = "upgrade" => 1 .. next - 1 \subseteq 1 .. Len(UpgradeScript)
        BY ScriptLengths DEF UInv, SessionInv, Scripts
      <4> QED
        BY <3>1, <3>2, <4>1 DEF UInv, SessionInv
    <3>5. FinishedInv'
      BY <3>1, NothingLost
    <3> QED
      BY <3>3, <3>4, <3>5 DEF UInv
  <2>8. CASE UNCHANGED upgradeVars
    <3>1. schema' = schema /\ bad' = bad /\ undrained' = undrained
          /\ script' = script /\ next' = next /\ upgraded' = upgraded
      BY <2>8 DEF upgradeVars, database, session
    <3> QED
      BY <3>1 DEF UInv, KeysHold, SessionInv, FinishedInv, Made, Mended
  <2> QED
    BY <2>1, <2>2, <2>3, <2>4, <2>5, <2>6, <2>7, <2>8 DEF UpgradeNext
<1>2. HistoryInv /\ [UpgradeNext]_upgradeVars => HistoryInv'
  <2>1. [UpgradeNext]_upgradeVars => history' \in {history, history + 1}
    BY DEF UpgradeNext, Start, RunStatement, ScriptDies, Repair, OldWrite, OldClaim, Drain,
       PrismaDeploy, upgradeVars, database
  <2> QED
    BY <2>1 DEF HistoryInv
<1>3. UpgradeInit => HistoryInv
  BY DEF UpgradeInit, HistoryInv
<1> QED
  BY UpgradeInitInv, <1>1, <1>2, <1>3, PTL DEF UpgradeSpec

\* An upgrade that reports ok has made every object of the four migrations and left no row that
\* breaks an identity, nor, had the workers been drained, a running job without a lease, whatever
\* was interrupted, repaired or written before and between its statements
\* (upgrade-bootstrap-schema.ts).
THEOREM UpgradeIsEnough == UpgradeSpec => []UpgradeSuffices
<1>1. UInv => UpgradeSuffices
  <2> SUFFICES ASSUME UInv, upgraded # "no"
               PROVE  /\ LeaseMigration \cup OutboxMigration \cup FinalizationMigration
                           \cup IdentityMigration \subseteq schema
                      /\ bad \cap Duplicates = {}
                      /\ upgraded = "drained" => Leftover \notin bad
    BY DEF UpgradeSuffices
  <2>1. Range(UpgradeScript) = {UpgradeScript[k] : k \in 1 .. Len(UpgradeScript)}
    BY UpgradeTyped DEF Range
  <2>2. /\ LeaseMigration \cup OutboxMigration \cup FinalizationMigration
             \cup IdentityMigration \subseteq schema
        /\ upgraded = "drained" => Leftover \notin bad
    BY <2>1, UpgradeMakes DEF UInv, FinishedInv, Made
  <2>3. bad \cap Duplicates = {}
    <3>1. \A r \in Duplicates : KeyOf(r) \in FinalizationMigration \cup IdentityMigration
      BY KeysDiffer DEF Duplicates, FinalizationMigration, IdentityMigration
    <3> QED
      BY <3>1, <2>2 DEF UInv, KeysHold
  <2> QED
    BY <2>2, <2>3
<1> QED
  BY UpgradeInvariance, <1>1, PTL

=============================================================================
