--------------------------- MODULE MCProvisioning ---------------------------
(* How a database and a workspace in it come to be: the scripts, the        *)
(* migration wrapper and the first visits of users.  They share no state    *)
(* that is modelled, so a behaviour runs one of them and rests the others.  *)
EXTENDS SchemaUpgrade, MigrationWrapper, Workspace

VARIABLE running

mcTarget(h, p, d) == [host |-> h, port |-> p, database |-> d]
mcTargets == {mcTarget("db", 5432, "aideal"), mcTarget("db", 6543, "aideal"),
              mcTarget("loopback", 5432, "aideal_local")}
mcSameSignIn ==
  CHOOSE f \in [Visits -> [user : Users, org : Orgs]] : \A v, w \in Visits : f[v] = f[w]
mcEmail == CHOOSE f \in [Users -> Emails] : TRUE
mcSlug == CHOOSE f \in [Orgs -> Slugs] : TRUE

Init ==
  /\ UpgradeInit /\ WrapperInit /\ WorkspaceInit
  /\ running \in {"schema", "wrapper", "workspace"}
  /\ running # "schema" => schema = {} /\ undrained
  /\ running # "workspace" => signIn = mcSameSignIn /\ email = mcEmail /\ slug = mcSlug
Next ==
  \/ running = "schema" /\ UpgradeNext /\ UNCHANGED <<running, wrapperVars, workspaceVars>>
  \/ running = "wrapper" /\ WrapperNext /\ UNCHANGED <<running, upgradeVars, workspaceVars>>
  \/ running = "workspace" /\ WorkspaceNext /\ UNCHANGED <<running, upgradeVars, wrapperVars>>
Spec == Init /\ [][Next]_<<running, upgradeVars, wrapperVars, workspaceVars>>
=============================================================================
