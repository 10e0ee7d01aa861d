-------------------------- MODULE MCAdministration --------------------------
(***************************************************************************)
(* What administrators set up, for one run of the model checker: the       *)
(* integrations, the ACME account behind Let's Encrypt, the sign-in of a   *)
(* local account, and roles with the keys and tokens granted on them.      *)
(* The four have no variable in common, so each is explored by itself: the *)
(* states are added, not multiplied, and no behaviour of any is lost.      *)
(***************************************************************************)
EXTENDS Integrations, Accounts, SignIn, Grants, TLC

CONSTANTS unassigned, theirs, site  \* no team, a team, and a certificate of the team

VARIABLE part

MCOwningTeam == [c \in {site} |-> theirs]
\* One scope that a manager's role earns and a viewer's does not, and one of admins only.
MCKeyScopes == {{"export"}, {"admin"}}
\* The two requests of the largest part are interchangeable.
MCSymmetry == Permutations(Requests)

Parts == {"integrations", "accounts", "sign-in", "grants"}

MCInit ==
  /\ IntegrationsInit
  /\ AccountsInit
  /\ SignInInit
  /\ GrantsInit
  /\ part \in Parts
  \* The other parts stand where one of their behaviours begins.
  /\ part # "integrations" => \A p \in Providers : saved[p] = Off /\ (p \in Keyed => vault[p] = NoKey)
  /\ part # "accounts" => settings = CHOOSE place \in Places : TRUE

MCNext ==
  /\ \/ part = "integrations" /\ IntegrationsNext /\ UNCHANGED <<accountsVars, signInVars, grantsVars>>
     \/ part = "accounts" /\ AccountsNext /\ UNCHANGED <<integrationsVars, signInVars, grantsVars>>
     \/ part = "sign-in" /\ SignInNext /\ UNCHANGED <<integrationsVars, accountsVars, grantsVars>>
     \/ part = "grants" /\ GrantsNext /\ UNCHANGED <<integrationsVars, accountsVars, signInVars>>
  /\ UNCHANGED part

MCSpec == MCInit /\ [][MCNext]_<<integrationsVars, accountsVars, signInVars, grantsVars, part>>

AdministrationTypeOK == IntegrationsTypeOK /\ AccountsTypeOK /\ SignInTypeOK /\ GrantsTypeOK

=============================================================================
