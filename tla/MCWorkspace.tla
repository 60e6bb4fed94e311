---------------------------- MODULE MCWorkspace ----------------------------
\* An instance of Workspace for TLC: which operations are run against which.
EXTENDS Workspace, TLC

MCWorkloads ==
    {DbOps, QueryOps \cup {"deleteDB"}, LinkOps, PackOps \cup CaseOps, RunOps}

Symmetric == Permutations(Requests) \cup Permutations(Schemas) \cup Permutations(DbNames)
============================================================================
