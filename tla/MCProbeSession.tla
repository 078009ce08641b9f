--------------------------- MODULE MCProbeSession ---------------------------
(* Small instances of ProbeSession for TLC, and what comments of the code  *)
(* say of it that the code does not do.                                    *)
EXTENDS ProbeSession, TLC

\* calls and sessions are interchangeable (safety runs only)
Interchangeable == Permutations(Calls) \union Permutations(Sessions)

\* pyocd.py:132: "Runs ``fn`` in the thread executor while holding ``_lock``
\* (pyOCD is not re-entrant)": never two threads inside pyOCD.
OneThreadInPyOCD == Cardinality(ActiveJobs) <= 1
=============================================================================
