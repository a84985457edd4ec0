-------------------------- MODULE ReleaseRefinement --------------------------
(* The memory graph under release, restore and sweep keeps the promise. *)
EXTENDS Release

\* What has become of a diary is what all its memories agree on.
Fate(d) ==
    IF \A m \in MemoriesOf(d) : mem[m] = "unborn" THEN "unwritten"
    ELSE IF \A m \in MemoriesOf(d) : mem[m] = "live" THEN "kept"
    ELSE IF \A m \in MemoriesOf(d) : mem[m] = "released" THEN "released"
    ELSE IF \A m \in MemoriesOf(d) : mem[m] = "swept" THEN "lost"
    ELSE "torn"

Since(d) == IF Released(d) THEN group[d].at ELSE NoRelease

Promise == INSTANCE DiaryPromise
    WITH Never <- NoRelease,
         fate <- [d \in Diary |-> Fate(d)],
         since <- [d \in Diary |-> Since(d)]

\* Releases, restores and sweeps racing for the lock never tear a diary apart,
\* bring back half of it, or lose a memory before its window is over.
KeepsPromise == Promise!Spec
=============================================================================
