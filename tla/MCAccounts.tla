----------------------------- MODULE MCAccounts -----------------------------
\* An instance of Accounts for TLC: which operations are run against which.
EXTENDS Accounts, TLC

Ops(ops) == [ops |-> ops, account |-> "System"]
Keys(name, ops) == [ops |-> ops, account |-> name]

MCWorkloads ==
    {Ops({"boot"}),
     Ops({"createOrg", "updateOrg", "deleteOrg", "completeOnboarding"}),
     Ops({"createUser", "updateUser", "resetPassword", "setAccountPassword", "disable", "login"}),
     Ops({"addMember", "updateMember", "removeMember", "createUser"}),
     Ops({"createTeam", "updateTeam", "deleteTeam", "addTeamMember", "removeTeamMember", "updateMember", "deleteOrg"}),
     Ops({"login", "logout", "sessionToken", "disable"}),
     Ops({"discover"}),
     Ops({"provision", "deleteOrg", "createUser", "removeMember", "updateAccount"}),
     Ops({"provision", "deleteAccount"}),
     Ops({"initiateLogin", "callback", "disable", "addMember"}),
     Ops({"callback", "createProvider", "deleteProvider"}),
     Ops({"callback", "updateProvider"}),
     Ops({"createProvider", "updateProvider", "deleteProvider", "samlMetadata"}),
     Ops({"createRule", "updateRule", "deleteRule", "deleteProvider", "callback"}),
     Ops({"createDomain", "updateDomain", "deleteDomain"}),
     Keys("other", {"createAccount", "updateAccount", "deleteAccount", "createToken", "revokeToken",
                    "createOrgByKey", "deleteOrg"}),
     Keys("GitHub Import", {"importToken", "deleteAccount", "revokeToken"}),
     Keys("other", {"importToken", "createAccount", "uninstall"}),
     Ops({"authorize", "installed", "uninstall"}),
     Ops({"install", "authorize", "createDomain", "deleteOrg"}),
     Ops({"initiateLogin", "callback", "deleteProvider", "deleteOrg"})}

Symmetric == Permutations(Requests) \cup Permutations(Emails \ {SeedEmail})
=============================================================================
