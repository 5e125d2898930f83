----------------------------- MODULE MCKvCache -----------------------------
EXTENDS KvCache, TLC

CONSTANTS s0, s1

\* two tokens of one sequence, in one or in two ubatches, and then one of the other
SmallBatches ==
    UNION {{<< <<{p[1]}, {p[1]}>>, <<{p[2]}>> >>, << <<{p[1]}>>, <<{p[1]}>>, <<{p[2]}>> >>} :
           p \in {q \in Seqs \X Seqs : q[1] # q[2]}}
AnySeq == Permutations(Seqs)
FewRanges == {<<0, Infinity>>, <<1, Infinity>>, <<0, 1>>}
OneBack == {-1}
Coupled == {<< <<{s0, s1}>> >>}
=============================================================================
