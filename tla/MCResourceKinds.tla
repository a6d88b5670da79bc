--------------------------- MODULE MCResourceKinds ---------------------------
EXTENDS ResourceKinds, TLC, SequencesExt, KindsMonitoring, KindsStorage, KindsNetwork, KindsEdge,
        KindsCompute, KindsEvents

AllKinds ==
    MonitoringKinds @@ StorageKinds @@ NetworkKinds @@ EdgeKinds @@ ComputeKinds @@ EventKinds

Refusing(step) == \E i \in DOMAIN step.calls : step.calls[i].does = "refuse"

Putting(calls, f) == \E i \in DOMAIN calls : f \in calls[i].puts /\ ~ calls[i].loose

\* No row excuses its kind from more than the code does: a facet lasts when no update
\* that sees it differ puts it or refuses, and is overlooked when it is not sure to be
\* put by a creation, or no update that is due whenever it differs is sure to put it or
\* refuses; a part clings when every call that removes it may be ignored.
ASSUME ExceptionsAreEarned ==
    \A k \in DOMAIN AllKinds : LET row == AllKinds[k] IN
        /\ row.lasting = {f \in row.facets : \A s \in Range(row.update) : f \in s.on =>
                             ~ Refusing(s) /\ \A i \in DOMAIN s.calls : f \notin s.calls[i].puts}
        /\ row.overlooked = {f \in row.facets :
                                \/ ~ Putting(row.create, f)
                                \/ \A s \in Range(row.update) : f \in s.on /\ s.with = {} =>
                                       ~ Refusing(s) /\ ~ Putting(s.calls, f)}
        /\ row.clinging = {p \in row.parts \ row.kept : \A s \in Range(row.removal) :
                              \A i \in DOMAIN s.calls : p \in s.calls[i].clears => s.calls[i].loose}
=============================================================================
