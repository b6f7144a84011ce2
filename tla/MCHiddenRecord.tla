-------------------------- MODULE MCHiddenRecord --------------------------
EXTENDS HiddenRecordProps

\* Bound of the instance: after the last kill the recovery is followed to its end;
\* what a run does then is what it did after the kill before.
LastRecovery ==
    kills = MaxKills => \/ run \in {"down", "recovering", "panicking"}
                        \/ run = "startup" /\ managed = {}
=============================================================================
