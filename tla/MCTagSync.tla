----------------------------- MODULE MCTagSync -----------------------------
(* TagSync for TLC: the identity tag, Name and two more keys, of which the  *)
(* spec may set one, the global tags both, and someone in AWS all four.     *)
EXTENDS TagSync

CONSTANTS id, name, a, b, none, v1, v2

MCOwnTags ==
    {t \in TagMaps : t[id] # v2 /\ t[name] # v2 /\ t[b] = none}
MCGlobalTags ==
    {t \in TagMaps : t[id] = none /\ t[name] = none /\ v2 \notin {t[a], t[b]}}
=============================================================================
