---------------------------- MODULE MCDeployment ----------------------------
EXTENDS Deployment

\* Every command line, the ones that are refused among them.
MCCommands ==
    {[name |-> n, version |-> 0] : n \in {"down", "version", "unknown", "force"}}
      \cup {[name |-> "force", version |-> v] : v \in {-1, 1}}
=============================================================================
