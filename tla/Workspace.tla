------------------------------ MODULE Workspace ------------------------------
(***************************************************************************)
(* Workspace provisioning: what happens when signed-in users open the app  *)
(* (apps/api/src/modules/organizations/organizations.service.ts, the       *)
(* workspace guard, and the pages that call them).                         *)
(*                                                                         *)
(* bootstrapOrganization is one transaction at READ COMMITTED.  An upsert  *)
(* is a look and a write: a row that came in between makes the write fail  *)
(* with a unique violation (P2002) or turns it into an update, depending   *)
(* on how the client translates the upsert; both are allowed here.  A      *)
(* write waits for an open transaction that wrote the same row.            *)
(***************************************************************************)
EXTENDS Naturals, FiniteSets

CONSTANTS Visits,        \* page loads that can be in progress at once
          Users, Orgs,   \* Clerk's identities
          Emails, Slugs, \* what users and organizations go by; both are unique columns
          MaxLosses,     \* bound: requests that die, or whose connection does
          MaxDisabled    \* bound: members that someone disables

ASSUME WorkspaceAssumption == MaxLosses \in Nat /\ MaxDisabled \in Nat

VARIABLES
  signIn,     \* signIn[v]: the user and the active organization of visit v
  email, slug,   \* as Clerk reports them; they do not change
  users,      \* committed user rows
  orgs,       \* committed organization rows
  member,     \* member[o][u]: status of the committed membership, "none" without a row
  starters,   \* starters[o]: committed deal types of the organization that bootstraps made
  step,       \* step[v]: the next statement of visit v
  saw,        \* saw[v]: what the look of the current upsert found, "nothing" before the look
  open,       \* visits whose transaction is open
  losses, disabled   \* used up so far of the bounds

clerk == <<signIn, email, slug>>
workspaceRows == <<users, orgs, member, starters>>
workspaceBounds == <<losses, disabled>>
workspaceVars == <<clerk, workspaceRows, step, saw, open, workspaceBounds>>

user(v) == signIn[v].user
org(v) == signIn[v].org
VisitSteps == {"idle", "guard", "user", "organization", "membership", "count", "create", "commit",
          "lost", "in", "error"}

WorkspaceInit ==
  /\ signIn \in [Visits -> [user : Users, org : Orgs]]
  /\ email \in [Users -> Emails] /\ slug \in [Orgs -> Slugs]
  /\ users = {} /\ orgs = {}
  /\ member = [o \in Orgs |-> [u \in Users |-> "none"]]
  /\ starters = [o \in Orgs |-> 0]
  /\ step = [v \in Visits |-> "idle"]
  /\ saw = [v \in Visits |-> "nothing"]
  /\ open = {} /\ losses = 0 /\ disabled = 0

GoTo(v, s) == step' = [step EXCEPT ![v] = s] /\ saw' = [saw EXCEPT ![v] = "nothing"]
Rollback(v, s) == GoTo(v, s) /\ open' = open \ {v}

\* getCurrentWorkspace finds an active membership.
HasWorkspace(v) == member[org(v)][user(v)] = "active"

\* A page of the app: requireWorkspace asks the guarded route, and a 404 leads to the bootstrap.
Visit(v) ==
  /\ step[v] \in {"idle", "in", "error"}
  /\ GoTo(v, "guard")
  /\ UNCHANGED <<clerk, workspaceRows, open, workspaceBounds>>

WorkspaceGuard(v) ==
  /\ step[v] = "guard"
  /\ IF HasWorkspace(v) THEN GoTo(v, "in") /\ UNCHANGED open
                        ELSE GoTo(v, "user") /\ open' = open \cup {v}
  /\ UNCHANGED <<clerk, workspaceRows, workspaceBounds>>

-----------------------------------------------------------------------------
(* provisionWorkspace.  What an open transaction wrote follows from its step. *)

WroteUser == {v \in open : step[v] \notin {"user"}}
WroteOrg == WroteUser \ {v \in open : step[v] = "organization"}

Exists(v) == CASE step[v] = "user" -> user(v) \in users
               [] step[v] = "organization" -> org(v) \in orgs
               [] step[v] = "membership" -> member[org(v)][user(v)] # "none"

\* Another row has the email or the slug.
Taken(v) ==
  \/ step[v] = "user" /\ \E u \in users \ {user(v)} : email[u] = email[user(v)]
  \/ step[v] = "organization" /\ \E o \in orgs \ {org(v)} : slug[o] = slug[org(v)]

Waits(v) == CASE step[v] = "user" -> \E w \in WroteUser \ {v} : email[user(w)] = email[user(v)]
              [] step[v] = "organization" -> \E w \in WroteOrg \ {v} : slug[org(w)] = slug[org(v)]
              [] step[v] = "membership" -> FALSE   \* its user row is held

After(s) == CASE s = "user" -> "organization" [] s = "organization" -> "membership"
              [] s = "membership" -> "count"

Upserting(v) == step[v] \in {"user", "organization", "membership"}

Look(v) ==
  /\ Upserting(v) /\ saw[v] = "nothing"
  /\ saw' = [saw EXCEPT ![v] = IF Exists(v) THEN "row" ELSE "no row"]
  /\ UNCHANGED <<clerk, workspaceRows, step, open, workspaceBounds>>

\* A violation rolls the transaction back and is caught.
Write(v) ==
  /\ Upserting(v) /\ saw[v] # "nothing" /\ ~Waits(v)
  /\ \/ ~Taken(v) /\ GoTo(v, After(step[v])) /\ UNCHANGED open
     \/ (Taken(v) \/ (saw[v] = "no row" /\ Exists(v))) /\ Rollback(v, "lost")
  /\ UNCHANGED <<clerk, workspaceRows, workspaceBounds>>

CommitMember(v) ==
  /\ users' = users \cup {user(v)} /\ orgs' = orgs \cup {org(v)}
  /\ member' = [member EXCEPT ![org(v)][user(v)] = "active"]

\* Faulty variant: the starter deal type is added after the transaction.
CountOutside(v) ==
  /\ step[v] = "count"
  /\ CommitMember(v) /\ UNCHANGED starters
  /\ Rollback(v, IF starters[org(v)] = 0 THEN "create" ELSE "in")
  /\ UNCHANGED <<clerk, workspaceBounds>>

Count(v) ==
  /\ step[v] = "count"
  /\ GoTo(v, IF starters[org(v)] = 0 THEN "create" ELSE "commit")
  /\ UNCHANGED <<clerk, workspaceRows, open, workspaceBounds>>

\* The insert of the starter and the commit, or the commit alone.
Commit(v) ==
  /\ step[v] \in {"create", "commit"}
  /\ CommitMember(v)
  /\ starters' = IF step[v] = "create" THEN [starters EXCEPT ![org(v)] = @ + 1] ELSE starters
  /\ Rollback(v, "in")
  /\ UNCHANGED <<clerk, workspaceBounds>>

\* Faulty variant: the violation is passed on.
RecoverNothing(v) ==
  /\ step[v] = "lost"
  /\ GoTo(v, "error")
  /\ UNCHANGED <<clerk, workspaceRows, open, workspaceBounds>>

\* bootstrapOrganization's catch: the workspace may exist all the same.
Recover(v) ==
  /\ step[v] = "lost"
  /\ GoTo(v, IF HasWorkspace(v) THEN "in" ELSE "error")
  /\ UNCHANGED <<clerk, workspaceRows, open, workspaceBounds>>

\* A failure that is no unique violation: nothing is swallowed and nothing stays.
Lose(v) ==
  /\ step[v] \notin {"idle", "in", "error"} /\ losses < MaxLosses
  /\ losses' = losses + 1
  /\ Rollback(v, "error")
  /\ UNCHANGED <<clerk, workspaceRows, disabled>>

\* No code disables a member; getCurrentWorkspace expects that someone may.
Disable(o, u) ==
  /\ member[o][u] = "active" /\ disabled < MaxDisabled
  /\ disabled' = disabled + 1
  /\ member' = [member EXCEPT ![o][u] = "disabled"]
  /\ UNCHANGED <<clerk, users, orgs, starters, step, saw, open, losses>>

Serve(v) == WorkspaceGuard(v) \/ Look(v) \/ Write(v) \/ Count(v) \/ Commit(v) \/ Recover(v)

WorkspaceNext ==
  \/ \E v \in Visits : Visit(v) \/ Serve(v) \/ Lose(v)
  \/ \E o \in Orgs, u \in Users : Disable(o, u)

WorkspaceSpec == WorkspaceInit /\ [][WorkspaceNext]_workspaceVars

-----------------------------------------------------------------------------
(* Properties. *)

\* Rows and steps stay in their ranges, and only a provisioning visit has a transaction open.
WorkspaceTypeOK ==
  /\ signIn \in [Visits -> [user : Users, org : Orgs]]
  /\ email \in [Users -> Emails] /\ slug \in [Orgs -> Slugs]
  /\ users \subseteq Users /\ orgs \subseteq Orgs
  /\ member \in [Orgs -> [Users -> {"none", "active", "disabled"}]]
  /\ starters \in [Orgs -> Nat]
  /\ step \in [Visits -> VisitSteps] /\ saw \in [Visits -> {"nothing", "row", "no row"}]
  /\ open \subseteq Visits /\ losses \in Nat /\ disabled \in Nat

\* However many first visits of one organization overlap, whoever makes them and wherever they
\* fail, it gets one starter deal type, and has it as soon as it has a member.
OneStarter ==
  \A o \in Orgs :
    /\ starters[o] <= 1
    /\ (\E u \in Users : member[o][u] # "none") => starters[o] = 1

\* Overlapping bootstraps of one sign-in all get in: the loser of a race returns the workspace of
\* the winner.  (Two users, or two organizations, may lose to each other and must load again; one
\* that goes by the email or the slug of another never gets in.)
SameSignInGetsIn ==
  losses = 0 /\ disabled = 0 /\ (\A v, w \in Visits : signIn[v] = signIn[w]) =>
    \A v \in Visits : step[v] # "error"
=============================================================================
