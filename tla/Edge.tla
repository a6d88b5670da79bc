--------------------------------- MODULE Edge ---------------------------------
(***************************************************************************)
(* What serves a name to the world: the records of a DNS name, and a       *)
(* CloudFront distribution.  Neither calls the other; what they promise is *)
(* the same.                                                               *)
(***************************************************************************)
EXTENDS DnsRecords, Distribution

\* What is not a resource's own stays as it is: SiblingsKept for the records of a name
\* (route53.go), UnmanagedKept for a distribution (cloudfront_distribution.go).
OthersKept == SiblingsKept /\ UnmanagedKept

\* What the graph walks of config/dag.go rely on, for a record and for a distribution.
EdgeContract == RecordContract /\ DistributionContract

\* RecordsConverge for the records of a name and DistributionConverges for a distribution:
\* repeated applies and destroys reach their goal from wherever earlier ones stopped.
EdgeConverges == RecordsConverge /\ DistributionConverges
===============================================================================
