--------------------------- MODULE MCCertificate ---------------------------
(***************************************************************************)
(* Certificate for TLC: api and web share the domain d1 at first, web also *)
(* has the name d2.  The user may move web to d2 and back.                 *)
(***************************************************************************)
EXTENDS Certificate

CONSTANTS api, web, d1, d2

MCFirstDomain == [r \in Resources |-> d1]
MCSan         == [r \in Resources |-> IF r = web THEN {d2} ELSE {}]
MCNameDomain  == [r \in Resources |-> IF r = web THEN d1 ELSE NoDomain]
MCZoneSets    == {{d1, d2}, {d2}}
=============================================================================
