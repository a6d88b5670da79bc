--------------------------- MODULE MCSecurityGroup ---------------------------
(* SecurityGroup for TLC: an inbound port p and a reference to the group     *)
(* itself, the outbound rule AWS adds, two descriptions, and definitions     *)
(* with and without duplicates.                                              *)
EXTENDS SecurityGroup

CONSTANTS p, self, all, d, e, x, y

R(perm, desc)   == [perm |-> perm, desc |-> desc]
Def(in, out)    == [inbound |-> in, outbound |-> out]

Reference == Def(<<R(p, d), R(self, d)>>, <<R(all, e)>>)
Twice     == Def(<<R(p, d), R(p, d)>>, <<R(all, d)>>)
Disputed  == Def(<<R(p, d), R(p, e)>>, << >>)

MCSpecs == {Reference, Twice, Disputed}
=============================================================================
