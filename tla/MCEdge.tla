-------------------------------- MODULE MCEdge --------------------------------
(***************************************************************************)
(* Edge for TLC.  A behaviour follows the records of a name or a           *)
(* distribution, never both: the code of one calls nothing of the other.   *)
(***************************************************************************)
EXTENDS Edge, TLC

-----------------------------------------------------------------------------
(* One record of each type, an alias, a weighted one, two weighted ones, one of  *)
(* them an alias, and two pairs that do not belong together                      *)

CONSTANTS A, CNAME, NS, TXT, simple, w1, w2, v1, v2, lb, r1, r2

S(t, i, v) == [type |-> t, id |-> i, value |-> v]

Alone(s)  == [r \in {r1} |-> s]
Two(s, t) == [r \in {r1, r2} |-> IF r = r1 THEN s ELSE t]

MCDefinitions ==
    {Alone(S(A, simple, v1)), Alone(S(CNAME, simple, v1)), Alone(S(A, simple, lb)),
     Alone(S(TXT, simple, v1)), Alone(S(TXT, w1, v1)),
     Two(S(A, w1, v1), S(A, w2, lb)), Two(S(CNAME, w2, v2), S(CNAME, w1, v1)),
     Two(S(A, simple, v1), S(TXT, simple, v2)), Two(S(A, w1, v1), S(TXT, w1, v2))}

MCHandSets ==
    [type : {A, TXT}, id : {simple, w1, w2}, value : {v1, v2}]
    \cup {S(A, simple, lb), S(A, w1, lb), S(CNAME, simple, v2), S(CNAME, w2, v1)}

MCApexSets == {S(NS, simple, v1)}
MCTypes    == <<A, CNAME, NS, TXT>>
MCIds      == <<simple, w1, w2>>

-----------------------------------------------------------------------------
(* Two origins whose domains the definition knows by one name (a VPC origin and  *)
(* a load balancer, both called web), or one that becomes a custom origin        *)

CONSTANTS o1, o2, cell, web, other

O(t, d) == [type |-> t, domain |-> d]

MCShown == [d \in {cell, web, other} |-> IF d = cell THEN web ELSE d]

MCDeclarations ==
    {o1 :> O("vpc", cell) @@ o2 :> O("custom", web), o1 :> O("custom", other)}

H(t, d, e) == [type |-> t, domain |-> d, extra |-> e]

MCHandOrigins ==
    o1 :> {H("vpc", web, "shield"), H("custom", web, "typed")} @@ o2 :> {H("custom", cell, "typed")}

-----------------------------------------------------------------------------
VARIABLE subject

MCInit ==
    /\ subject \in {"records", "distribution"}
    /\ RecordsInit
    /\ DistributionInit
    /\ subject = "records" => declared = CHOOSE d \in Declarations : TRUE
    /\ subject = "distribution" => apex = {} /\ want = CHOOSE d \in Definitions : TRUE

Names(move) == subject = "records" /\ move /\ UNCHANGED <<subject, distributionVars>>
OneDistribution(move) == subject = "distribution" /\ move /\ UNCHANGED <<subject, recordsVars>>

MCNext == Names(RecordsNext) \/ OneDistribution(DistributionNext)

\* The fairness of RecordsFairSpec and of DistributionSpec.
MCFairSpec ==
    /\ MCInit /\ [][MCNext]_<<subject, recordsVars, distributionVars>>
    /\ WF_<<recordsVars, distributionVars>>(Names(RecordsProgress) \/ OneDistribution(DistributionProgress))
    /\ WF_distributionVars(OneDistribution(Deployed))
===============================================================================
