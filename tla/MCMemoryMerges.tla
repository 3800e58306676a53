--------------------------- MODULE MCMemoryMerges ---------------------------
EXTENDS MemoryMerges, TLC

CONSTANTS x, y, z, v

\* Bounds: what happens to the memories.
Few == [folds |-> 2, others |-> 1]
Two == {[new |-> "none", reword |-> TRUE, embedded |-> FALSE],
        [new |-> "external", reword |-> TRUE, embedded |-> TRUE]}
Patched == {x, y} \X {<<"text", v>>, <<"starred", TRUE>>}
Symmetry == Permutations(Threads) \cup Permutations({x, y})
===============================================================================
