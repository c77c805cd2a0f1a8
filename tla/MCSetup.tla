------------------------------- MODULE MCSetup -------------------------------
EXTENDS SetupDeploy
CONSTANTS plain, config, u1, u2
TheOrder == <<plain, config>>
KeepAny == SUBSET {plain, config}
AllKinds == {"install", "sync", "reassign", "drift", "uninstall", "restore"}

\* Scenes: two operations and one write, by either user; two operations
\* with a second write; and a third operation, which is neither
\* cancelled nor stuck rolling back. A user who breaks the file writes over one
\* build only.
Scenes ==
    /\ ops <= 2 \/ writes <= 1
    /\ ops <= 2 \/ (~op.cancel /\ op.stuck = {})
    /\ (ops <= 2 /\ writes <= 1 /\ rendering[plain] = 1) \/ \A p \in Paths : u2 \notin Surviving(p)
=============================================================================
