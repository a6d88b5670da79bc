-------------------------- MODULE MCResourceGraph --------------------------
(***************************************************************************)
(* Small instances of ResourceGraph and CycleFinder for TLC: every spec of *)
(* up to MaxRead declarations over Few keys with up to MaxDeps             *)
(* dependencies each, and graphs over all Keys, one declaration each, in   *)
(* which every resource depends on some other or itself and at most        *)
(* MaxForks of them on two.                                                *)
(***************************************************************************)
EXTENDS CycleFinder, SequencesExt

CONSTANTS Few, MaxRead, MaxDeps, MaxForks

UpTo(S, n) == UNION {[1 .. m -> S] : m \in 0 .. n}

\* An invalid resource never reaches the graph: its dependencies are moot.  Only
\* one declaration has more than one dependency.
FewSpecs ==
    LET small == [key : Few, deps : UpTo(Few, MaxDeps), valid : {TRUE}]
                     \cup [key : Few, deps : {<< >>}, valid : {FALSE}]
    IN  {s \in UpTo(small, MaxRead) :
            \A i, j \in DOMAIN s : Len(s[i].deps) > 1 /\ Len(s[j].deps) > 1 => i = j}

\* None of these can be sorted.
CyclicSpecs ==
    LET keys  == SetToSeq(Keys)
        lists == {SetToSeq(D) : D \in {S \in SUBSET Keys : Cardinality(S) \in {1, 2}}}
    IN  {[i \in DOMAIN keys |-> [key |-> keys[i], deps |-> f[i], valid |-> TRUE]] :
            f \in {g \in [DOMAIN keys -> lists] :
                      Cardinality({i \in DOMAIN keys : Len(g[i]) = 2}) <= MaxForks}}

MCSpecs == FewSpecs \cup CyclicSpecs
============================================================================
