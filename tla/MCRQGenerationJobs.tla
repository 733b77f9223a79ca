------------------------ MODULE MCRQGenerationJobs ------------------------
\* Small instances of RQGenerationJobs for TLC.
EXTENDS RQGenerationJobs, TLC

\* Job ids, submitters and workers are interchangeable.
Symmetry == Permutations(Jobs) \cup Permutations(Submitters) \cup Permutations(Workers)
=============================================================================
