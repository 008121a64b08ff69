---------------------------- MODULE MCTaskQueue ----------------------------
EXTENDS TaskQueue, TLC

\* Dispatchers are interchangeable, and so are jobs of one kind.
JobPermutations == {f \in Permutations(Jobs) : \A j \in FastJobs : f[j] \in FastJobs}
Symmetry == {f @@ g : f \in JobPermutations, g \in Permutations(Dispatchers)}
=============================================================================
