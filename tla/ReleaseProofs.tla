---------------------------- MODULE ReleaseProofs ----------------------------
(***************************************************************************)
(* The graph under release and restore, for every set of diaries, memories, *)
(* neurons, requests and workers and without any bound on time.             *)
(***************************************************************************)
EXTENDS ReleaseJobs, ReleaseRefinement, Sums, TLAPS

----------------------------------------------------------------------------
(* The inductive invariant.  The properties of Release rest on who owns a    *)
(* seal: one a release recorded is still the release's own and covers a      *)
(* neuron that only the memories of that release activate.                   *)

\* A memory's rows: it activates neurons while it is retained, and those exist.
FootInv ==
    /\ RetainedKeepNeurons
    /\ \A m \in Memory : foot[m] # {} => Retained(m)
    /\ NoNeuronLeaks

\* The memories of a diary share its fate.
FateInv ==
    /\ ReleasedTogether
    /\ \A m \in Memory : mem[m] = "unborn" <=> diary[DiaryOf[m]] = "unwritten"
    /\ \A m, k \in Memory : DiaryOf[m] = DiaryOf[k] => mem[m] = mem[k]
    /\ \A d \in Diary : Released(d) =>
          group[d].memories = MemoriesOf(d) /\ MemoriesOf(d) # {}

\* Every seal is a release's own or let go, never both.
SealInv ==
    /\ \A d \in Diary : Released(d) =>
          \A n \in group[d].sealed :
              /\ neuron[n] = "kept"
              /\ sealedAt[n] = group[d].at
              /\ n \notin letGo
              /\ Owners(n) \subseteq MemoriesOf(d)
    /\ \A n \in Neuron : neuron[n] = "kept" /\ sealedAt[n] # Open =>
          n \in letGo \/ \E d \in Diary : Released(d) /\ n \in group[d].sealed
    /\ LetGoIsPermanent
    /\ \A n \in Neuron : neuron[n] = "unborn" => sealedAt[n] = Open

Inv == TypeOK /\ FootInv /\ FateInv /\ SealInv

\* A request or a worker that is busy is about some diary, and the time it
\* read is past.
CallInv ==
    \A c \in Actors : /\ call[c].op # "idle" => call[c].diary \in Diary
                      /\ call[c].at <= now

USE DEF Retained, MemoriesOf

----------------------------------------------------------------------------
(* What the operators of the model return. *)

\* What is taken from a synapse is what it really loses.
LEMMA TakenType ==
    ASSUME TypeOK, NEW N, NEW shared
    PROVE  /\ Taken(N, shared) \in [Edge -> Nat]
           /\ Weakened(Taken(N, shared)) \in Strengths
BY ReleaseAssumption DEF TypeOK, Strengths, Taken, Weakened, Contribution, Exists

\* Deltas given back leave strengths within the cap.
LEMMA GivenBackType ==
    ASSUME TypeOK, NEW taken \in [Edge -> Nat]
    PROVE  GivenBack(taken) \in Strengths
BY ReleaseAssumption DEF TypeOK, Strengths, GivenBack, Exists

\* The fields of a stored release are of their types.
LEMMA GroupFields ==
    ASSUME TypeOK, NEW d \in Diary, Released(d)
    PROVE  /\ group[d] \in Group
           /\ group[d].id \in Nat /\ group[d].at \in Nat
           /\ group[d].memories \subseteq Memory
           /\ group[d].sealed \subseteq Neuron
           /\ group[d].taken \in [Edge -> Nat]
BY DEF TypeOK, Group, Released

\* An actor at rest is well formed.
LEMMA IdleType ==
    ASSUME TypeOK, NEW c \in Actors, call' = [call EXCEPT ![c] = Idle]
    PROVE  call' \in [Actors -> Call]
<1>1. Idle \in Call
    BY DEF Idle, Call
<1> QED
    BY <1>1 DEF TypeOK

\* Retiring effects leaves well-formed releases.
LEMMA RetireType ==
    ASSUME TypeOK, NEW N
    PROVE  /\ Retire(N) \in [Diary -> Group \cup {NoRelease}]
           /\ \A d \in Diary :
                 /\ Retire(N)[d] # NoRelease <=> Released(d)
                 /\ Released(d) => /\ Retire(N)[d].id = group[d].id
                                   /\ Retire(N)[d].at = group[d].at
                                   /\ Retire(N)[d].memories = group[d].memories
                                   /\ Retire(N)[d].taken = group[d].taken
                                   /\ Retire(N)[d].sealed = group[d].sealed \ N
<1> SUFFICES ASSUME NEW d \in Diary
             PROVE  /\ Retire(N)[d] \in Group \cup {NoRelease}
                    /\ Retire(N)[d] # NoRelease <=> Released(d)
                    /\ Released(d) => /\ Retire(N)[d].id = group[d].id
                                      /\ Retire(N)[d].at = group[d].at
                                      /\ Retire(N)[d].memories = group[d].memories
                                      /\ Retire(N)[d].taken = group[d].taken
                                      /\ Retire(N)[d].sealed = group[d].sealed \ N
    BY DEF Retire
<1>1. CASE Released(d)
    <2>1. Retire(N)[d] = [group[d] EXCEPT !.sealed = @ \ N]
        BY <1>1 DEF Retire
    <2>2. group[d] \in Group
        BY <1>1, GroupFields
    <2>3. Retire(N)[d] \in Group
        BY <2>1, <2>2 DEF Group
    <2>4. NoRelease \notin Group
        BY ReleaseAssumption DEF Group
    <2> QED
        BY <1>1, <2>1, <2>2, <2>3, <2>4 DEF Group
<1>2. CASE ~Released(d)
    BY <1>2 DEF Retire
<1> QED
    BY <1>1, <1>2

\* Undoing seals leaves well-formed timestamps.
LEMMA UnsealType ==
    ASSUME TypeOK, NEW N
    PROVE  Unseal(N) \in [Neuron -> Nat \cup {Open}]
BY DEF TypeOK, Unseal

\* Undoing seals around N touches no neuron the user let go, and leaves no other
\* neuron of N sealed.
LEMMA UnsealOwned ==
    ASSUME Inv, NEW N \in SUBSET Neuron, NEW n \in Neuron
    PROVE  /\ n \in letGo => Unseal(N)[n] = sealedAt[n]
           /\ n \notin N => Unseal(N)[n] = sealedAt[n]
           /\ Unseal(N)[n] # Open => Unseal(N)[n] = sealedAt[n]
           /\ n \in N /\ neuron[n] = "kept" /\ Unseal(N)[n] # Open => n \in letGo
<1>1. n \in letGo => ~ReleaseOwns(n)
    BY DEF Inv, SealInv, ReleaseOwns
<1>2. neuron[n] = "kept" /\ sealedAt[n] # Open /\ ~ReleaseOwns(n) => n \in letGo
    BY DEF Inv, SealInv, ReleaseOwns
<1> QED
    BY <1>1, <1>2 DEF Unseal

\* A release's seal lies within the footprint of its memories.
LEMMA SealedWithin ==
    ASSUME Inv, NEW d \in Diary, Released(d), NEW n \in group[d].sealed
    PROVE  n \in Footprint(MemoriesOf(d))
<1>1. n \in Neuron /\ neuron[n] = "kept" /\ Owners(n) \subseteq MemoriesOf(d)
    BY GroupFields DEF Inv, SealInv
<1>2. PICK m \in Owners(n) : TRUE
    BY <1>1 DEF Inv, FootInv, NoNeuronLeaks
<1> QED
    BY <1>1, <1>2 DEF Owners, Footprint

\* The neurons of memories are neurons.
LEMMA FootprintType ==
    ASSUME TypeOK, NEW M \in SUBSET Memory
    PROVE  Footprint(M) \subseteq Neuron
BY DEF TypeOK, Footprint

----------------------------------------------------------------------------
(* The sweep. *)

\* Sweeping releases deletes whole diaries and nothing any other memory needs.
LEMMA SweepKeepsInv ==
    ASSUME Inv, NEW D \in SUBSET Diary, \A d \in D : Released(d),
           SweepGroups(D), now' \in Nat, made' \in Nat, call' \in [Actors -> Call]
    PROVE  Inv'
<1> DEFINE memories == UNION {group[d].memories : d \in D}
           gone == Exclusive(memories)
           touched == Footprint(memories)
<1>1. \A m \in Memory : m \in memories <=> DiaryOf[m] \in D
    BY ReleaseAssumption DEF Inv, FateInv
<1>2. memories \subseteq Memory /\ \A m \in memories : mem[m] = "released"
    BY <1>1, ReleaseAssumption DEF Inv, FateInv, ReleasedTogether
<1>3. gone \subseteq touched /\ touched \subseteq Neuron
    BY <1>2, FootprintType DEF Inv, Exclusive
<1>4. TypeOK'
    <2>1. sealedAt' \in [Neuron -> Nat \cup {Open}]
        BY UnsealType DEF SweepGroups, Inv
    <2>2. group' \in [Diary -> Group \cup {NoRelease}]
        BY RetireType DEF SweepGroups, Inv
    <2>3. strength' \in Strengths
        BY DEF SweepGroups, Inv, TypeOK, Strengths
    <2>4. mem' \in [Memory -> {"unborn", "live", "released", "swept"}]
        BY DEF SweepGroups, Inv, TypeOK
    <2>5. foot' \in [Memory -> SUBSET Neuron]
        BY DEF SweepGroups, Inv, TypeOK
    <2>6. neuron' \in [Neuron -> {"unborn", "kept", "deleted"}]
        BY DEF SweepGroups, Inv, TypeOK
    <2>7. diary' \in [Diary -> {"unwritten", "kept", "deleted"}]
        BY DEF SweepGroups, Inv, TypeOK
    <2> QED
        BY <2>1, <2>2, <2>3, <2>4, <2>5, <2>6, <2>7 DEF SweepGroups, Inv, TypeOK
<1>5. \A m \in Memory : /\ m \in memories => mem'[m] = "swept" /\ foot'[m] = {}
                        /\ m \notin memories => mem'[m] = mem[m] /\ foot'[m] = foot[m]
    BY <1>2 DEF SweepGroups, Inv, TypeOK
<1>6. \A n \in Neuron : Owners(n)' = Owners(n) \ memories
    BY <1>5 DEF Owners
<1>7. \A n \in Neuron : /\ n \in gone => neuron'[n] = "deleted"
                        /\ n \notin gone => neuron'[n] = neuron[n]
    BY DEF SweepGroups, Inv, TypeOK
<1>8. \A n \in Neuron : n \in gone <=> Owners(n) # {} /\ Owners(n) \subseteq memories
    BY <1>2 DEF Exclusive, Owners, Footprint
<1>9. FootInv'
    <2>1. RetainedKeepNeurons'
        <3> SUFFICES ASSUME NEW m \in Memory, Retained(m)'
                     PROVE  foot'[m] # {} /\ \A n \in foot'[m] : neuron'[n] = "kept"
            BY DEF RetainedKeepNeurons
        <3>1. m \notin memories /\ Retained(m) /\ foot'[m] = foot[m]
            BY <1>5
        <3>2. \A n \in foot[m] : n \in Neuron /\ m \in Owners(n)
            BY <3>1 DEF Owners, Inv, TypeOK
        <3> QED
            BY <1>7, <1>8, <3>1, <3>2 DEF Inv, FootInv, RetainedKeepNeurons
    <2>2. \A m \in Memory : foot'[m] # {} => Retained(m)'
        BY <1>5 DEF Inv, FootInv
    <2>3. NoNeuronLeaks'
        <3> SUFFICES ASSUME NEW n \in Neuron, neuron'[n] = "kept"
                     PROVE  Owners(n) \ memories # {}
            BY <1>6 DEF NoNeuronLeaks
        <3>1. n \notin gone /\ neuron[n] = "kept"
            BY <1>7
        <3>2. Owners(n) # {}
            BY <3>1 DEF NoNeuronLeaks, Inv, FootInv
        <3> QED
            BY <1>8, <3>1, <3>2
    <2> QED
        BY <2>1, <2>2, <2>3 DEF FootInv
<1>10. \A d \in Diary : /\ Released(d)' <=> Released(d) /\ d \notin D
                        /\ Released(d)' => /\ group'[d].memories = group[d].memories
                                           /\ group'[d].at = group[d].at
                                           /\ group'[d].sealed = group[d].sealed \ touched
    BY RetireType DEF SweepGroups, Inv, Released
<1>11. FateInv'
    <2>1. ReleasedTogether'
        BY <1>1, <1>5, <1>10, ReleaseAssumption DEF ReleasedTogether, Inv, FateInv
    <2>2. \A m \in Memory : mem'[m] = "unborn" <=> diary'[DiaryOf[m]] = "unwritten"
        <3> SUFFICES ASSUME NEW m \in Memory
                     PROVE  mem'[m] = "unborn" <=> diary'[DiaryOf[m]] = "unwritten"
            OBVIOUS
        <3>1. CASE m \in memories
            BY <1>1, <1>2, <1>5, <3>1, ReleaseAssumption
                DEF SweepGroups, Inv, FateInv, TypeOK
        <3>2. CASE m \notin memories
            BY <1>1, <1>5, <3>2, ReleaseAssumption DEF SweepGroups, Inv, FateInv, TypeOK
        <3> QED
            BY <3>1, <3>2
    <2>3. \A m, k \in Memory : DiaryOf[m] = DiaryOf[k] => mem'[m] = mem'[k]
        BY <1>1, <1>5 DEF Inv, FateInv
    <2>4. \A d \in Diary : Released(d)' =>
              group'[d].memories = MemoriesOf(d) /\ MemoriesOf(d) # {}
        BY <1>10 DEF Inv, FateInv
    <2> QED
        BY <2>1, <2>2, <2>3, <2>4 DEF FateInv
<1>12. SealInv'
    <2>0. \A n \in Neuron : sealedAt'[n] = Unseal(touched)[n]
        BY DEF SweepGroups
    <2>1. ASSUME NEW d \in Diary, Released(d)', NEW n \in group'[d].sealed
          PROVE  /\ neuron'[n] = "kept"
                 /\ sealedAt'[n] = group'[d].at
                 /\ n \notin letGo'
                 /\ Owners(n)' \subseteq MemoriesOf(d)
        <3>1. Released(d) /\ n \in group[d].sealed /\ n \notin touched /\ n \in Neuron
            BY <1>10, <2>1, GroupFields DEF Inv
        <3>2. /\ neuron[n] = "kept" /\ sealedAt[n] = group[d].at /\ n \notin letGo
              /\ Owners(n) \subseteq MemoriesOf(d)
            BY <3>1 DEF Inv, SealInv
        <3>3. neuron'[n] = "kept"
            BY <1>3, <1>7, <3>1, <3>2
        <3>4. sealedAt'[n] = group'[d].at
            BY <1>3, <1>10, <2>0, <2>1, <3>1, <3>2, UnsealOwned
        <3> QED
            BY <1>6, <3>1, <3>2, <3>3, <3>4 DEF SweepGroups
    <2>2. ASSUME NEW n \in Neuron, neuron'[n] = "kept", sealedAt'[n] # Open
          PROVE  n \in letGo' \/ \E d \in Diary : Released(d)' /\ n \in group'[d].sealed
        <3>1. neuron[n] = "kept" /\ sealedAt[n] # Open
            BY <1>3, <1>7, <2>0, <2>2, UnsealOwned
        <3>2. CASE n \in touched
            BY <1>3, <2>0, <2>2, <3>1, <3>2, UnsealOwned DEF SweepGroups
        <3>3. CASE n \notin touched /\ n \notin letGo
            <4>1. PICK d \in Diary : Released(d) /\ n \in group[d].sealed
                BY <3>1, <3>3 DEF Inv, SealInv
            <4>2. n \in Footprint(MemoriesOf(d))
                BY <4>1, SealedWithin
            <4>3. d \notin D
                BY <1>1, <3>3, <4>2 DEF Footprint
            <4> QED
                BY <1>10, <3>3, <4>1, <4>3
        <3> QED
            BY <3>2, <3>3 DEF SweepGroups
    <2>3. LetGoIsPermanent'
        BY <1>3, <1>7, <2>0, UnsealOwned DEF LetGoIsPermanent, SweepGroups, Inv, TypeOK, SealInv
    <2>4. ASSUME NEW n \in Neuron, neuron'[n] = "unborn"
          PROVE  sealedAt'[n] = Open
        <3>1. sealedAt[n] = Open
            BY <1>7, <2>4 DEF Inv, SealInv
        <3> QED
            BY <1>3, <2>0, <3>1, UnsealOwned
    <2> QED
        BY <2>1, <2>2, <2>3, <2>4 DEF SealInv
<1> QED
    BY <1>4, <1>9, <1>11, <1>12 DEF Inv

----------------------------------------------------------------------------
(* Restoring. *)

\* A restore keeps the invariant.
LEMMA RestoreKeepsInv ==
    ASSUME Inv, NEW c \in Caller, RestoreDiary(c), call[c].diary \in Diary
    PROVE  Inv'
<1> DEFINE d == call[c].diary
           memories == group[d].memories
           touched == Footprint(memories)
<1>1. d \in Diary /\ Released(d)
    BY DEF RestoreDiary
<1>2. memories = MemoriesOf(d)
    BY <1>1 DEF Inv, FateInv
<1>3. touched \subseteq Neuron
    BY <1>2, FootprintType DEF Inv
<1>4. TypeOK'
    <2>1. sealedAt' \in [Neuron -> Nat \cup {Open}]
        BY UnsealType DEF RestoreDiary, Inv
    <2>2. group' \in [Diary -> Group \cup {NoRelease}]
        BY RetireType DEF RestoreDiary, Inv
    <2>3. strength' \in Strengths
        BY <1>1, GroupFields, GivenBackType DEF RestoreDiary, Inv
    <2>4. mem' \in [Memory -> {"unborn", "live", "released", "swept"}]
        BY DEF RestoreDiary, Inv, TypeOK
    <2>5. call' \in [Actors -> Call]
        BY IdleType DEF RestoreDiary, Inv, Actors
    <2> QED
        BY <2>1, <2>2, <2>3, <2>4, <2>5 DEF RestoreDiary, Inv, TypeOK
<1>5. \A m \in Memory : /\ foot'[m] = foot[m]
                        /\ DiaryOf[m] = d => mem[m] = "released" /\ mem'[m] = "live"
                        /\ DiaryOf[m] # d => mem'[m] = mem[m]
    BY <1>1, <1>2 DEF RestoreDiary, Inv, TypeOK, FateInv, ReleasedTogether
<1>6. \A m \in Memory : Retained(m)' <=> Retained(m)
    BY <1>5
<1>7. \A n \in Neuron : Owners(n)' = Owners(n)
    BY <1>5, <1>6 DEF Owners
<1>8. neuron' = neuron /\ diary' = diary /\ letGo' = letGo
    BY DEF RestoreDiary
<1>9. FootInv'
    <2>1. RetainedKeepNeurons'
        BY <1>5, <1>6, <1>8 DEF RetainedKeepNeurons, Inv, FootInv
    <2>2. \A m \in Memory : foot'[m] # {} => Retained(m)'
        BY <1>5, <1>6 DEF Inv, FootInv
    <2>3. NoNeuronLeaks'
        BY <1>7, <1>8 DEF NoNeuronLeaks, Inv, FootInv
    <2> QED
        BY <2>1, <2>2, <2>3 DEF FootInv
<1>10. \A x \in Diary : /\ Released(x)' <=> Released(x) /\ x # d
                        /\ Released(x)' => /\ group'[x].memories = group[x].memories
                                           /\ group'[x].at = group[x].at
                                           /\ group'[x].sealed = group[x].sealed \ touched
    <2>1. group' = [Retire(touched) EXCEPT ![d] = NoRelease]
        BY DEF RestoreDiary
    <2>2. /\ Retire(touched) \in [Diary -> Group \cup {NoRelease}]
          /\ \A x \in Diary : Retire(touched)[x] # NoRelease <=> Released(x)
          /\ \A x \in Diary : Released(x) =>
                /\ Retire(touched)[x].memories = group[x].memories
                /\ Retire(touched)[x].at = group[x].at
                /\ Retire(touched)[x].sealed = group[x].sealed \ touched
        <3> HIDE DEF d, memories, touched
        <3> QED
            BY RetireType DEF Inv
    <2>3. group'[d] = NoRelease /\ \A x \in Diary \ {d} : group'[x] = Retire(touched)[x]
        <3> HIDE DEF d, memories, touched
        <3> QED
            BY <1>1, <2>1, <2>2
    <2> HIDE DEF d, memories, touched
    <2> QED
        BY <1>1, <2>2, <2>3 DEF Released
<1>11. FateInv'
    <2>1. ReleasedTogether'
        BY <1>1, <1>5, <1>10, ReleaseAssumption DEF ReleasedTogether, Inv, FateInv
    <2>2. \A m \in Memory : mem'[m] = "unborn" <=> diary'[DiaryOf[m]] = "unwritten"
        BY <1>5, <1>8 DEF Inv, FateInv
    <2>3. \A m, k \in Memory : DiaryOf[m] = DiaryOf[k] => mem'[m] = mem'[k]
        BY <1>5 DEF Inv, FateInv
    <2>4. \A x \in Diary : Released(x)' =>
              group'[x].memories = MemoriesOf(x) /\ MemoriesOf(x) # {}
        BY <1>10 DEF Inv, FateInv
    <2> QED
        BY <2>1, <2>2, <2>3, <2>4 DEF FateInv
<1>12. SealInv'
    <2>0. \A n \in Neuron : sealedAt'[n] = Unseal(touched)[n]
        BY DEF RestoreDiary
    <2>1. ASSUME NEW x \in Diary, Released(x)', NEW n \in group'[x].sealed
          PROVE  /\ neuron'[n] = "kept"
                 /\ sealedAt'[n] = group'[x].at
                 /\ n \notin letGo'
                 /\ Owners(n)' \subseteq MemoriesOf(x)
        <3>1. Released(x) /\ n \in group[x].sealed /\ n \notin touched /\ n \in Neuron
            BY <1>10, <2>1, GroupFields DEF Inv
        <3>2. /\ neuron[n] = "kept" /\ sealedAt[n] = group[x].at /\ n \notin letGo
              /\ Owners(n) \subseteq MemoriesOf(x)
            BY <3>1 DEF Inv, SealInv
        <3>3. sealedAt'[n] = group'[x].at
            BY <1>3, <1>10, <2>0, <2>1, <3>1, <3>2, UnsealOwned
        <3> QED
            BY <1>7, <1>8, <3>1, <3>2, <3>3
    <2>2. ASSUME NEW n \in Neuron, neuron'[n] = "kept", sealedAt'[n] # Open
          PROVE  n \in letGo' \/ \E x \in Diary : Released(x)' /\ n \in group'[x].sealed
        <3>1. neuron[n] = "kept" /\ sealedAt[n] # Open
            BY <1>3, <1>8, <2>0, <2>2, UnsealOwned
        <3>2. CASE n \in touched
            BY <1>3, <1>8, <2>0, <2>2, <3>1, <3>2, UnsealOwned
        <3>3. CASE n \notin touched /\ n \notin letGo
            <4>1. PICK x \in Diary : Released(x) /\ n \in group[x].sealed
                BY <3>1, <3>3 DEF Inv, SealInv
            <4>2. x # d
                BY <1>2, <3>3, <4>1, SealedWithin
            <4> QED
                BY <1>10, <3>3, <4>1, <4>2
        <3> QED
            BY <1>8, <3>2, <3>3
    <2>3. LetGoIsPermanent'
        BY <1>3, <1>8, <2>0, UnsealOwned DEF LetGoIsPermanent, Inv, TypeOK, SealInv
    <2>4. ASSUME NEW n \in Neuron, neuron'[n] = "unborn"
          PROVE  sealedAt'[n] = Open
        <3>1. sealedAt[n] = Open
            BY <1>8, <2>4 DEF Inv, SealInv
        <3> QED
            BY <1>3, <2>0, <3>1, UnsealOwned
    <2> QED
        BY <2>1, <2>2, <2>3, <2>4 DEF SealInv
<1> QED
    BY <1>4, <1>9, <1>11, <1>12 DEF Inv

----------------------------------------------------------------------------
(* Releasing. *)

\* A release keeps the invariant.
LEMMA ReleaseKeepsInv ==
    ASSUME Inv, NEW c \in Caller, ReleaseDiary(c), call[c].diary \in Diary
    PROVE  Inv'
<1> DEFINE d == call[c].diary
           memories == LiveOf(d)
           neurons == Unsealed(Footprint(memories))
           shared == Shared(memories, neurons)
           taken == Taken(neurons, shared)
<1>1. d \in Diary /\ ~Released(d) /\ memories # {}
    BY DEF ReleaseDiary
<1>2. memories = MemoriesOf(d) /\ memories \subseteq Memory
    BY <1>1 DEF LiveOf, Inv, FateInv
<1>3. neurons \subseteq Neuron /\ \A n \in neurons : sealedAt[n] = Open
    BY <1>2, FootprintType DEF Inv, Unsealed
<1>4. taken \in [Edge -> Nat] /\ Weakened(taken) \in Strengths
    BY TakenType DEF Inv
<1>5. PICK row \in Group :
          /\ row # NoRelease /\ row.at = now
          /\ row.memories = memories /\ row.sealed = neurons \ shared
          /\ group' = [group EXCEPT ![d] = row]
    <2>1. now \in Nat /\ made + 1 \in Nat
        BY DEF Inv, TypeOK
    <2>2. memories \in SUBSET Memory /\ neurons \ shared \in SUBSET Neuron
        BY <1>2, <1>3
    <2> DEFINE r == [id |-> made + 1, at |-> now, memories |-> memories,
                     sealed |-> neurons \ shared, taken |-> taken]
    <2>3. group' = [group EXCEPT ![d] = r]
        BY DEF ReleaseDiary
    <2>4. /\ r \in Group /\ r # NoRelease
          /\ r.at = now /\ r.memories = memories /\ r.sealed = neurons \ shared
        <3> HIDE DEF memories, neurons, shared, taken
        <3>1. r \in Group
            BY <1>4, <2>1, <2>2 DEF Group
        <3>2. NoRelease \notin Group
            BY ReleaseAssumption DEF Group
        <3> QED
            BY <3>1, <3>2
    <2> HIDE DEF r
    <2> QED
        BY <2>3, <2>4
<1>6. /\ mem' = [m \in Memory |-> IF m \in memories THEN "released" ELSE mem[m]]
      /\ sealedAt' = [n \in Neuron |-> IF n \in neurons \ shared THEN now ELSE sealedAt[n]]
      /\ strength' = Weakened(taken)
      /\ UNCHANGED <<now, diary, foot, neuron, letGo>>
    BY DEF ReleaseDiary
<1>7. TypeOK'
    <2>1. group' \in [Diary -> Group \cup {NoRelease}]
        BY <1>1, <1>5 DEF Inv, TypeOK
    <2>2. sealedAt' \in [Neuron -> Nat \cup {Open}]
        BY <1>6 DEF Inv, TypeOK
    <2>3. mem' \in [Memory -> {"unborn", "live", "released", "swept"}]
        BY <1>6 DEF Inv, TypeOK
    <2>4. made' = made + 1 /\ call' = [call EXCEPT ![c] = Idle]
        BY DEF ReleaseDiary
    <2>5. made' \in Nat
        BY <2>4 DEF Inv, TypeOK
    <2>6. call' \in [Actors -> Call]
        BY <2>4, IdleType DEF Inv, Actors
    <2> QED
        BY <1>4, <1>6, <2>1, <2>2, <2>3, <2>5, <2>6 DEF Inv, TypeOK
<1>8. \A m \in Memory : /\ foot'[m] = foot[m]
                        /\ DiaryOf[m] = d => mem[m] = "live" /\ mem'[m] = "released"
                        /\ DiaryOf[m] # d => mem'[m] = mem[m]
                        /\ Retained(m)' <=> Retained(m)
    BY <1>2, <1>6 DEF LiveOf
<1>9. \A n \in Neuron : Owners(n)' = Owners(n)
    BY <1>8 DEF Owners
<1>10. \A x \in Diary : /\ Released(x)' <=> Released(x) \/ x = d
                        /\ x # d => group'[x] = group[x]
                        /\ x = d => group'[x] = row
    BY <1>1, <1>5, <1>6 DEF Released, Inv, TypeOK
<1>11. FootInv'
    <2>1. RetainedKeepNeurons'
        BY <1>6, <1>8 DEF RetainedKeepNeurons, Inv, FootInv
    <2>2. \A m \in Memory : foot'[m] # {} => Retained(m)'
        BY <1>8 DEF Inv, FootInv
    <2>3. NoNeuronLeaks'
        BY <1>6, <1>9 DEF NoNeuronLeaks, Inv, FootInv
    <2> QED
        BY <2>1, <2>2, <2>3 DEF FootInv
<1>12. FateInv'
    <2>1. ReleasedTogether'
        BY <1>8, <1>10, ReleaseAssumption DEF ReleasedTogether, Inv, FateInv
    <2>2. \A m \in Memory : mem'[m] = "unborn" <=> diary'[DiaryOf[m]] = "unwritten"
        BY <1>6, <1>8 DEF Inv, FateInv
    <2>3. \A m, k \in Memory : DiaryOf[m] = DiaryOf[k] => mem'[m] = mem'[k]
        BY <1>8 DEF Inv, FateInv
    <2>4. ASSUME NEW x \in Diary, Released(x)'
          PROVE  group'[x].memories = MemoriesOf(x) /\ MemoriesOf(x) # {}
        BY <1>1, <1>2, <1>5, <1>10, <2>4 DEF Inv, FateInv
    <2> QED
        BY <2>1, <2>2, <2>3, <2>4 DEF FateInv
<1>13. SealInv'
    <2>1. ASSUME NEW x \in Diary, Released(x)', NEW n \in group'[x].sealed
          PROVE  /\ neuron'[n] = "kept"
                 /\ sealedAt'[n] = group'[x].at
                 /\ n \notin letGo'
                 /\ Owners(n)' \subseteq MemoriesOf(x)
        <3>1. CASE x = d
            <4>1. n \in neurons \ shared
                BY <1>5, <1>10, <3>1, <2>1
            <4>2. neuron[n] = "kept"
                <5>1. PICK m \in memories : n \in foot[m]
                    BY <4>1 DEF Unsealed, Footprint
                <5> QED
                    BY <1>2, <1>8, <5>1 DEF Inv, FootInv, RetainedKeepNeurons
            <4>3. n \notin letGo
                BY <1>3, <4>1, <4>2 DEF Inv, SealInv, LetGoIsPermanent
            <4>4. Owners(n) \subseteq MemoriesOf(d)
                BY <1>2, <4>1 DEF Shared
            <4>5. sealedAt'[n] = group'[x].at
                BY <1>3, <1>5, <1>6, <1>10, <3>1, <4>1
            <4> QED
                BY <1>3, <1>6, <1>9, <3>1, <4>1, <4>2, <4>3, <4>4, <4>5
        <3>2. CASE x # d
            <4>1. Released(x) /\ n \in group[x].sealed /\ n \in Neuron /\ group'[x] = group[x]
                BY <1>10, <2>1, <3>2, GroupFields DEF Inv
            <4>2. /\ neuron[n] = "kept" /\ sealedAt[n] = group[x].at /\ n \notin letGo
                  /\ Owners(n) \subseteq MemoriesOf(x)
                BY <4>1 DEF Inv, SealInv
            <4>3. n \notin neurons
                BY <1>3, <4>1, <4>2, GroupFields, ReleaseAssumption DEF Inv
            <4> QED
                BY <1>6, <1>9, <4>1, <4>2, <4>3
        <3> QED
            BY <3>1, <3>2
    <2>2. ASSUME NEW n \in Neuron, neuron'[n] = "kept", sealedAt'[n] # Open
          PROVE  n \in letGo' \/ \E x \in Diary : Released(x)' /\ n \in group'[x].sealed
        <3>1. CASE n \in neurons \ shared
            BY <1>1, <1>5, <1>10, <3>1
        <3>2. CASE n \notin neurons \ shared /\ n \notin letGo
            <4>1. PICK x \in Diary : Released(x) /\ n \in group[x].sealed
                BY <1>6, <2>2, <3>2 DEF Inv, SealInv
            <4> QED
                BY <1>1, <1>10, <4>1
        <3> QED
            BY <1>6, <3>1, <3>2
    <2>3. LetGoIsPermanent'
        <3>1. now # Open
            BY ReleaseAssumption DEF Inv, TypeOK
        <3> QED
            BY <1>6, <3>1 DEF LetGoIsPermanent, Inv, TypeOK, SealInv
    <2>4. ASSUME NEW n \in Neuron, neuron'[n] = "unborn"
          PROVE  sealedAt'[n] = Open
        <3>1. n \notin neurons
            BY <1>2, <1>6, <1>8, <2>4 DEF Unsealed, Footprint, Inv, FootInv, RetainedKeepNeurons
        <3> QED
            BY <1>6, <2>4, <3>1 DEF Inv, SealInv
    <2> QED
        BY <2>1, <2>2, <2>3, <2>4 DEF SealInv
<1> QED
    BY <1>7, <1>11, <1>12, <1>13 DEF Inv

----------------------------------------------------------------------------
(* Letting go and launching. *)

\* Letting go keeps the invariant.
LEMMA LetGoKeepsInv ==
    ASSUME Inv, NEW m \in Memory, NEW approved \in SUBSET Semantic, LetGo(m, approved)
    PROVE  Inv'
<1> DEFINE shared == Shared({m}, approved)
<1>1. /\ mem[m] = "live"
      /\ approved \subseteq foot[m] /\ approved \subseteq Neuron
      /\ \A n \in approved : Owners(n) \subseteq {m}
    BY ReleaseAssumption DEF LetGo, ThisMemoryOnly
<1>2. shared = {}
    BY <1>1 DEF Shared
<1>3. /\ \A n \in Neuron : sealedAt'[n] = IF n \in approved /\ sealedAt[n] = Open
                                           THEN now ELSE sealedAt[n]
      /\ letGo' = letGo \cup approved
      /\ UNCHANGED <<now, diary, mem, foot, neuron, group, made, call>>
    BY <1>2 DEF LetGo, Unsealed
<1>4. now \in Nat /\ now # Open
    BY ReleaseAssumption DEF Inv, TypeOK
<1>5. \A n \in approved : neuron[n] = "kept" /\ m \in Owners(n)
    BY <1>1 DEF Inv, FootInv, RetainedKeepNeurons, Owners
<1>6. TypeOK'
    <2>1. strength' \in Strengths
        BY TakenType DEF LetGo, Inv
    <2>2. sealedAt' \in [Neuron -> Nat \cup {Open}]
        BY <1>4 DEF LetGo, Inv, TypeOK
    <2> QED
        BY <1>1, <1>3, <2>1, <2>2 DEF Inv, TypeOK
<1>7. \A n \in Neuron : Owners(n)' = Owners(n)
    BY <1>3 DEF Owners
<1>8. FootInv'
    BY <1>3, <1>7 DEF Inv, FootInv, RetainedKeepNeurons, NoNeuronLeaks
<1>9. FateInv'
    BY <1>3 DEF Inv, FateInv, ReleasedTogether, Released
<1>10. \A d \in Diary : Released(d) => group[d].sealed \cap approved = {}
    <2> SUFFICES ASSUME NEW d \in Diary, Released(d), NEW n \in group[d].sealed, n \in approved
                 PROVE  FALSE
        OBVIOUS
    <2>1. m \in MemoriesOf(d)
        BY <1>5 DEF Inv, SealInv
    <2> QED
        BY <1>1, <2>1 DEF Inv, FateInv, ReleasedTogether
<1>11. SealInv'
    <2>1. ASSUME NEW d \in Diary, Released(d)', NEW n \in group'[d].sealed
          PROVE  /\ neuron'[n] = "kept"
                 /\ sealedAt'[n] = group'[d].at
                 /\ n \notin letGo'
                 /\ Owners(n)' \subseteq MemoriesOf(d)
        <3>1. Released(d) /\ n \in group[d].sealed /\ n \in Neuron /\ n \notin approved
            BY <1>3, <1>10, <2>1, GroupFields DEF Inv, Released
        <3> QED
            BY <1>3, <1>7, <3>1 DEF Inv, SealInv
    <2>2. ASSUME NEW n \in Neuron, neuron'[n] = "kept", sealedAt'[n] # Open
          PROVE  n \in letGo' \/ \E d \in Diary : Released(d)' /\ n \in group'[d].sealed
        BY <1>3, <2>2 DEF Inv, SealInv, Released
    <2>3. LetGoIsPermanent'
        BY <1>1, <1>3, <1>4 DEF Inv, SealInv, LetGoIsPermanent, TypeOK
    <2>4. \A n \in Neuron : neuron'[n] = "unborn" => sealedAt'[n] = Open
        BY <1>3, <1>5 DEF Inv, SealInv
    <2> QED
        BY <2>1, <2>2, <2>3, <2>4 DEF SealInv
<1> QED
    BY <1>6, <1>8, <1>9, <1>11 DEF Inv

\* Launching a diary keeps the invariant: it mints or finds unsealed neurons only.
LEMMA LaunchKeepsInv ==
    ASSUME Inv, NEW d \in Diary, NEW f \in [MemoriesOf(d) -> SUBSET Neuron],
           NEW s \in Strengths, Launch(d, f, s)
    PROVE  Inv'
<1> DEFINE new == MemoriesOf(d)
<1>1. /\ diary[d] = "unwritten"
      /\ \A m \in new : /\ m \in Memory /\ DiaryOf[m] = d
                        /\ mem[m] = "unborn" /\ ~Retained(m) /\ foot[m] = {}
                        /\ f[m] # {} /\ f[m] \subseteq Neuron
                        /\ \A n \in f[m] : Resolvable(n)
    BY DEF Launch, Inv, FateInv, FootInv
<1>2. ~Released(d) \/ new = {}
    BY <1>1 DEF Inv, FateInv, ReleasedTogether
<1>3. /\ \A m \in Memory : IF m \in new THEN mem'[m] = "live" /\ foot'[m] = f[m]
                                       ELSE mem'[m] = mem[m] /\ foot'[m] = foot[m]
      /\ \A n \in Neuron : neuron'[n] = IF \E m \in new : n \in f[m] THEN "kept" ELSE neuron[n]
      /\ UNCHANGED <<now, sealedAt, group, made, call, letGo>>
    BY DEF Launch
<1>4. \A n \in Neuron : /\ Owners(n)' = Owners(n) \cup {m \in new : n \in f[m]}
                        /\ sealedAt[n] # Open => Owners(n)' = Owners(n)
                        /\ (\E m \in new : n \in f[m]) => sealedAt[n] = Open
    <2> SUFFICES ASSUME NEW n \in Neuron
                 PROVE  /\ Owners(n)' = Owners(n) \cup {m \in new : n \in f[m]}
                        /\ sealedAt[n] # Open => Owners(n)' = Owners(n)
                        /\ (\E m \in new : n \in f[m]) => sealedAt[n] = Open
        OBVIOUS
    <2>1. (\E m \in new : n \in f[m]) => sealedAt[n] = Open
        BY <1>1 DEF Resolvable, Inv, SealInv
    <2>2. Owners(n)' = Owners(n) \cup {m \in new : n \in f[m]}
        BY <1>1, <1>3 DEF Owners
    <2> QED
        BY <2>1, <2>2
<1>5. TypeOK'
    <2>1. diary' \in [Diary -> {"unwritten", "kept", "deleted"}]
        BY DEF Launch, Inv, TypeOK
    <2>2. mem' \in [Memory -> {"unborn", "live", "released", "swept"}]
        BY DEF Launch, Inv, TypeOK
    <2>3. foot' \in [Memory -> SUBSET Neuron]
        BY <1>1 DEF Launch, Inv, TypeOK
    <2>4. neuron' \in [Neuron -> {"unborn", "kept", "deleted"}]
        BY DEF Launch, Inv, TypeOK
    <2>5. strength' \in Strengths
        BY DEF Launch
    <2> QED
        BY <1>3, <2>1, <2>2, <2>3, <2>4, <2>5 DEF Inv, TypeOK
<1>6. FootInv'
    <2>1. ASSUME NEW m \in Memory, Retained(m)'
          PROVE  foot'[m] # {} /\ \A n \in foot'[m] : neuron'[n] = "kept"
        <3>1. CASE m \in new
            BY <1>1, <1>3, <3>1
        <3>2. CASE m \notin new
            <4>1. foot[m] # {} /\ foot[m] \subseteq Neuron /\ \A n \in foot[m] : neuron[n] = "kept"
                BY <1>3, <2>1, <3>2 DEF Inv, FootInv, RetainedKeepNeurons, TypeOK
            <4> QED
                BY <1>3, <3>2, <4>1
        <3> QED
            BY <3>1, <3>2
    <2>2. \A m \in Memory : foot'[m] # {} => Retained(m)'
        BY <1>3 DEF Inv, FootInv
    <2>3. ASSUME NEW n \in Neuron, neuron'[n] = "kept"
          PROVE  Owners(n)' # {}
        <3>1. CASE \E m \in new : n \in f[m]
            BY <1>4, <3>1
        <3>2. CASE ~\E m \in new : n \in f[m]
            BY <1>3, <1>4, <2>3, <3>2 DEF Inv, FootInv, NoNeuronLeaks
        <3> QED
            BY <3>1, <3>2
    <2> QED
        BY <2>1, <2>2, <2>3 DEF FootInv, RetainedKeepNeurons, NoNeuronLeaks
<1>7. FateInv'
    <2>1. ReleasedTogether'
        BY <1>1, <1>2, <1>3 DEF ReleasedTogether, Inv, FateInv, Released
    <2>2. \A m \in Memory : mem'[m] = "unborn" <=> diary'[DiaryOf[m]] = "unwritten"
        <3>1. \A x \in Diary : diary'[x] = IF x = d THEN "kept" ELSE diary[x]
            BY DEF Launch, Inv, TypeOK
        <3> QED
            BY <1>3, <3>1, ReleaseAssumption DEF Inv, FateInv
    <2>3. \A m, k \in Memory : DiaryOf[m] = DiaryOf[k] => mem'[m] = mem'[k]
        BY <1>3 DEF Inv, FateInv
    <2>4. \A x \in Diary : Released(x)' =>
              group'[x].memories = MemoriesOf(x) /\ MemoriesOf(x) # {}
        BY <1>3 DEF Inv, FateInv, Released
    <2> QED
        BY <2>1, <2>2, <2>3, <2>4 DEF FateInv
<1>8. SealInv'
    <2>1. ASSUME NEW x \in Diary, Released(x)', NEW n \in group'[x].sealed
          PROVE  /\ neuron'[n] = "kept"
                 /\ sealedAt'[n] = group'[x].at
                 /\ n \notin letGo'
                 /\ Owners(n)' \subseteq MemoriesOf(x)
        <3>1. Released(x) /\ n \in group[x].sealed /\ n \in Neuron /\ group[x].at \in Nat
            BY <1>3, <2>1, GroupFields DEF Inv, Released
        <3>2. /\ neuron[n] = "kept" /\ sealedAt[n] = group[x].at /\ n \notin letGo
              /\ Owners(n) \subseteq MemoriesOf(x)
            BY <3>1 DEF Inv, SealInv
        <3>3. sealedAt[n] # Open
            BY <3>1, <3>2, ReleaseAssumption
        <3> QED
            BY <1>3, <1>4, <3>1, <3>2, <3>3
    <2>2. ASSUME NEW n \in Neuron, neuron'[n] = "kept", sealedAt'[n] # Open
          PROVE  n \in letGo' \/ \E x \in Diary : Released(x)' /\ n \in group'[x].sealed
        BY <1>3, <1>4, <2>2 DEF Inv, SealInv, Released
    <2>3. LetGoIsPermanent'
        <3> SUFFICES ASSUME NEW n \in letGo
                     PROVE  neuron'[n] = "deleted" \/ sealedAt[n] # Open
            BY <1>3 DEF LetGoIsPermanent
        <3>1. n \in Neuron /\ (neuron[n] = "deleted" \/ sealedAt[n] # Open)
            BY DEF Inv, TypeOK, SealInv, LetGoIsPermanent
        <3>2. neuron[n] = "deleted" => ~\E m \in new : n \in f[m]
            BY <1>1 DEF Resolvable
        <3> QED
            BY <1>3, <3>1, <3>2
    <2>4. \A n \in Neuron : neuron'[n] = "unborn" => sealedAt'[n] = Open
        BY <1>3 DEF Inv, SealInv
    <2> QED
        BY <2>1, <2>2, <2>3, <2>4 DEF SealInv
<1> QED
    BY <1>5, <1>6, <1>7, <1>8 DEF Inv

----------------------------------------------------------------------------
(* Every step. *)

\* A step that leaves the graph and the releases alone keeps the invariant.
LEMMA StutterKeepsInv ==
    ASSUME Inv, UNCHANGED graph, now' \in Nat, made' \in Nat, call' \in [Actors -> Call]
    PROVE  Inv'
<1>1. UNCHANGED <<diary, mem, foot, neuron, sealedAt, strength, group, letGo>>
    BY DEF graph
<1>2. TypeOK'
    BY <1>1 DEF Inv, TypeOK
<1>3. \A n : Owners(n)' = Owners(n)
    BY <1>1 DEF Owners
<1>4. FootInv'
    BY <1>1, <1>3 DEF Inv, FootInv, RetainedKeepNeurons, NoNeuronLeaks
<1>5. FateInv'
    BY <1>1 DEF Inv, FateInv, ReleasedTogether, Released
<1>6. SealInv'
    BY <1>1, <1>3 DEF Inv, SealInv, LetGoIsPermanent, Released
<1> QED
    BY <1>2, <1>4, <1>5, <1>6 DEF Inv

\* A change of one synapse within the cap keeps the invariant.
LEMMA DriftKeepsInv ==
    ASSUME Inv, NEW e \in Edge, NEW s \in 0..Cap, Drift(e, s)
    PROVE  Inv'
<1>1. UNCHANGED <<now, diary, mem, foot, neuron, sealedAt, group, made, call, letGo>>
    BY DEF Drift
<1>2. strength' \in Strengths
    BY DEF Drift, Inv, TypeOK, Strengths
<1>3. TypeOK'
    BY <1>1, <1>2 DEF Inv, TypeOK
<1>4. \A n : Owners(n)' = Owners(n)
    BY <1>1 DEF Owners
<1>5. FootInv'
    BY <1>1, <1>4 DEF Inv, FootInv, RetainedKeepNeurons, NoNeuronLeaks
<1>6. FateInv'
    BY <1>1 DEF Inv, FateInv, ReleasedTogether, Released
<1>7. SealInv'
    BY <1>1, <1>4 DEF Inv, SealInv, LetGoIsPermanent, Released
<1> QED
    BY <1>3, <1>5, <1>6, <1>7 DEF Inv

\* What a request or a worker remembers between its reads and its transaction.
LEMMA CallSet ==
    ASSUME TypeOK, CallInv, NEW c \in Actors, NEW x \in Call,
           x.op # "idle" => x.diary \in Diary, x.at <= now,
           call' = [call EXCEPT ![c] = x], now' = now
    PROVE  call' \in [Actors -> Call] /\ CallInv'
BY DEF TypeOK, CallInv

\* An actor that comes to rest keeps what others have read well formed.
LEMMA CallDone ==
    ASSUME TypeOK, CallInv, NEW c \in Actors, call' = [call EXCEPT ![c] = Idle], now' = now
    PROVE  call' \in [Actors -> Call] /\ CallInv'
<1>1. Idle \in Call /\ Idle.op = "idle" /\ Idle.at = 0
    BY DEF Idle, Call
<1>2. Idle.at <= now
    BY <1>1 DEF TypeOK
<1> QED
    BY <1>1, <1>2, CallSet

\* An actor that reads the clock keeps what others have read well formed.
LEMMA CallBegun ==
    ASSUME TypeOK, CallInv, NEW c \in Actors, NEW d \in Diary, NEW id \in Nat,
           NEW op \in {"sweep", "restore", "due"},
           call' = [call EXCEPT ![c] = [op |-> op, diary |-> d, id |-> id, at |-> now]],
           now' = now
    PROVE  call' \in [Actors -> Call] /\ CallInv'
<1> DEFINE x == [op |-> op, diary |-> d, id |-> id, at |-> now]
<1>1. x \in Call /\ x.op # "idle" /\ x.diary = d /\ x.at = now
    BY DEF Call, TypeOK
<1>2. x.at <= now
    BY <1>1 DEF TypeOK
<1>3. call' = [call EXCEPT ![c] = x]
    OBVIOUS
<1> HIDE DEF x
<1> QED
    BY <1>1, <1>2, <1>3, CallSet

\* The empty universe satisfies the invariant.
LEMMA InitInv == Init => Inv /\ CallInv
<1> SUFFICES ASSUME Init
             PROVE  Inv /\ CallInv
    OBVIOUS
<1>1. Idle \in Call /\ Idle.op = "idle" /\ Idle.at = 0
    BY DEF Idle, Call
<1>2. call \in [Actors -> Call] /\ CallInv
    BY <1>1 DEF Init, CallInv
<1>3. strength \in Strengths
    BY DEF Init, Strengths
<1>4. TypeOK
    BY <1>2, <1>3 DEF Init, TypeOK
<1>5. FootInv
    BY DEF Init, FootInv, RetainedKeepNeurons, NoNeuronLeaks
<1>6. FateInv
    BY ReleaseAssumption DEF Init, FateInv, ReleasedTogether, Released
<1>7. SealInv
    BY DEF Init, SealInv, LetGoIsPermanent, Released
<1> QED
    BY <1>2, <1>4, <1>5, <1>6, <1>7 DEF Inv

\* Launches and drift keep the invariant.
LEMMA GrowStep ==
    ASSUME Inv, CallInv, Grow
    PROVE  Inv' /\ CallInv'
<1>1. now' = now /\ call' = call
    BY DEF Grow, Launch, Drift
<1>2. CallInv'
    BY <1>1 DEF CallInv
<1>3. CASE \E d \in Diary : \E f \in [MemoriesOf(d) -> SUBSET Neuron] : \E s \in Strengths :
               Launch(d, f, s)
    BY <1>2, <1>3, LaunchKeepsInv
<1>4. CASE \E e \in Edge, s \in 0..Cap : Drift(e, s)
    BY <1>2, <1>4, DriftKeepsInv
<1> QED
    BY <1>3, <1>4 DEF Grow

\* Every step of a request keeps the invariant.
LEMMA AskStep ==
    ASSUME Inv, CallInv, NEW c \in Caller, Ask(c)
    PROVE  Inv' /\ CallInv'
<1>1. c \in Actors /\ TypeOK /\ now \in Nat /\ made \in Nat
    BY DEF Actors, Inv, TypeOK
<1>2. call[c].op # "idle" => call[c].diary \in Diary
    BY <1>1 DEF CallInv
<1>3. ASSUME NEW d \in Diary, BeginRelease(c, d)
      PROVE  Inv' /\ CallInv'
    <2>1. /\ call' = [call EXCEPT ![c] = [op |-> "sweep", diary |-> d, id |-> 0, at |-> now]]
          /\ UNCHANGED <<now, graph, made>>
        BY <1>3 DEF BeginRelease
    <2>2. call' \in [Actors -> Call] /\ CallInv'
        BY <1>1, <2>1, CallBegun
    <2> QED
        BY <1>1, <2>1, <2>2, StutterKeepsInv
<1>4. ASSUME NEW d \in Diary, BeginRestore(c, d)
      PROVE  Inv' /\ CallInv'
    <2>1. /\ call' = [call EXCEPT ![c] = [op |-> "restore", diary |-> d, id |-> 0, at |-> now]]
          /\ UNCHANGED <<now, graph, made>>
        BY <1>4 DEF BeginRestore
    <2>2. call' \in [Actors -> Call] /\ CallInv'
        BY <1>1, <2>1, CallBegun
    <2> QED
        BY <1>1, <2>1, <2>2, StutterKeepsInv
<1>5. CASE SweepExpired(c)
    <2>1. /\ SweepGroups(Expired(call[c].at))
          /\ call' = [call EXCEPT ![c].op = "release", ![c].at = 0]
          /\ UNCHANGED <<now, made>>
          /\ call[c].diary \in Diary
        BY <1>2, <1>5 DEF SweepExpired
    <2>2. PICK x \in Call : x = [call[c] EXCEPT !.op = "release", !.at = 0]
        <3>1. call[c] \in Call
            BY <1>1 DEF TypeOK
        <3> QED
            BY <3>1 DEF Call
    <2>3. /\ call[c] \in Call
          /\ call' = [call EXCEPT ![c] = [call[c] EXCEPT !.op = "release", !.at = 0]]
        BY <1>1, <2>1 DEF TypeOK
    <2>4. x.diary \in Diary /\ x.at <= now
        BY <1>1, <2>1, <2>2, <2>3 DEF Call
    <2>5. call' \in [Actors -> Call] /\ CallInv'
        BY <1>1, <2>1, <2>2, <2>3, <2>4, CallSet
    <2>6. PICK D \in SUBSET Diary : D = Expired(call[c].at)
        BY DEF Expired
    <2>7. SweepGroups(D)
        BY <2>1, <2>6 DEF SweepGroups
    <2>8. \A d \in D : Released(d)
        BY <2>6 DEF Expired
    <2>9. now' \in Nat /\ made' \in Nat
        BY <1>1, <2>1
    <2>10. Inv'
        BY <2>5, <2>7, <2>8, <2>9, SweepKeepsInv
    <2> QED
        BY <2>5, <2>10
<1>6. CASE ReleaseDiary(c)
    <2>1. call' = [call EXCEPT ![c] = Idle] /\ now' = now /\ call[c].diary \in Diary
        BY <1>2, <1>6 DEF ReleaseDiary
    <2> QED
        BY <1>1, <1>6, <2>1, CallDone, ReleaseKeepsInv
<1>7. CASE RestoreDiary(c)
    <2>1. call' = [call EXCEPT ![c] = Idle] /\ now' = now /\ call[c].diary \in Diary
        BY <1>2, <1>7 DEF RestoreDiary
    <2> QED
        BY <1>1, <1>7, <2>1, CallDone, RestoreKeepsInv
<1>8. CASE RefuseRelease(c) \/ RefuseRestore(c)
    <2>1. call' = [call EXCEPT ![c] = Idle] /\ UNCHANGED <<now, graph, made>>
        BY <1>8 DEF RefuseRelease, RefuseRestore
    <2> QED
        BY <1>1, <2>1, CallDone, StutterKeepsInv
<1> QED
    BY <1>3, <1>4, <1>5, <1>6, <1>7, <1>8 DEF Ask

\* Every step of a worker keeps the invariant.
LEMMA SweepStep ==
    ASSUME Inv, CallInv, NEW w \in Worker, Sweep(w)
    PROVE  Inv' /\ CallInv'
<1>1. w \in Actors /\ TypeOK /\ now \in Nat /\ made \in Nat
    BY DEF Actors, Inv, TypeOK
<1>2. call[w].op # "idle" => call[w].diary \in Diary
    BY <1>1 DEF CallInv
<1>3. ASSUME NEW d \in Diary, ClaimDue(w, d)
      PROVE  Inv' /\ CallInv'
    <2>1. /\ call' = [call EXCEPT ![w] = [op |-> "due", diary |-> d, id |-> group[d].id,
                                          at |-> now]]
          /\ UNCHANGED <<now, graph, made>> /\ Released(d)
        BY <1>3 DEF ClaimDue
    <2>2. group[d].id \in Nat
        BY <1>1, <2>1, GroupFields
    <2>3. call' \in [Actors -> Call] /\ CallInv'
        BY <1>1, <2>1, <2>2, CallBegun
    <2> QED
        BY <1>1, <2>1, <2>3, StutterKeepsInv
<1>4. CASE SweepDue(w)
    <2>1. /\ SweepGroups({call[w].diary}) /\ Released(call[w].diary)
          /\ call' = [call EXCEPT ![w] = Idle] /\ UNCHANGED <<now, made>>
          /\ call[w].diary \in Diary
        BY <1>2, <1>4 DEF SweepDue, Found
    <2>2. call' \in [Actors -> Call] /\ CallInv'
        BY <1>1, <2>1, CallDone
    <2>3. PICK D \in SUBSET Diary : D = {call[w].diary}
        BY <2>1
    <2>4. SweepGroups(D)
        BY <2>1, <2>3 DEF SweepGroups
    <2>5. \A d \in D : Released(d)
        BY <2>1, <2>3
    <2>6. now' \in Nat /\ made' \in Nat
        BY <1>1, <2>1
    <2>7. Inv'
        BY <2>2, <2>4, <2>5, <2>6, SweepKeepsInv
    <2> QED
        BY <2>2, <2>7
<1>5. CASE NotDueYet(w) \/ NothingDue(w)
    <2>1. call' = [call EXCEPT ![w] = Idle] /\ UNCHANGED <<now, graph, made>>
        BY <1>5 DEF NotDueYet, NothingDue
    <2> QED
        BY <1>1, <2>1, CallDone, StutterKeepsInv
<1> QED
    BY <1>3, <1>4, <1>5 DEF Sweep

\* Every step keeps the invariant.
LEMMA InvStep ==
    ASSUME Inv, CallInv, [Next]_vars
    PROVE  Inv' /\ CallInv'
<1>1. TypeOK
    BY DEF Inv
<1>2. CASE Grow
    BY <1>2, GrowStep
<1>3. CASE \E c \in Caller : Ask(c)
    BY <1>3, AskStep
<1>4. CASE \E w \in Worker : Sweep(w)
    BY <1>4, SweepStep
<1>5. CASE \E m \in Memory, approved \in SUBSET Semantic : LetGo(m, approved)
    <2>1. now' = now /\ call' = call
        BY <1>5 DEF LetGo
    <2> QED
        BY <1>5, <2>1, LetGoKeepsInv DEF CallInv
<1>6. CASE Tick
    <2>1. now' = now + 1 /\ UNCHANGED <<graph, made, call>>
        BY <1>6 DEF Tick
    <2>2. now' \in Nat /\ made' \in Nat /\ call' \in [Actors -> Call]
        BY <1>1, <2>1 DEF TypeOK
    <2>3. \A c \in Actors : call[c].at \in Nat
        BY <1>1 DEF TypeOK, Call
    <2>4. CallInv'
        BY <1>1, <2>1, <2>3 DEF CallInv, TypeOK
    <2> QED
        BY <2>1, <2>2, <2>4, StutterKeepsInv
<1>7. CASE UNCHANGED vars
    <2>1. UNCHANGED <<now, graph, made, call>>
        BY <1>7 DEF vars, graph
    <2>2. now' \in Nat /\ made' \in Nat /\ call' \in [Actors -> Call]
        BY <1>1, <2>1 DEF TypeOK
    <2> QED
        BY <2>1, <2>2, StutterKeepsInv DEF CallInv
<1> QED
    BY <1>2, <1>3, <1>4, <1>5, <1>6, <1>7 DEF Next

----------------------------------------------------------------------------
\* The inductive invariant the theorems below rest on: overlapping releases,
\* seals, footprints and the diaries' fates fit together in every state.
THEOREM Invariant == Spec => [](Inv /\ CallInv)
    BY InitInv, InvStep, PTL DEF Spec

\* The rows of the graph stay well formed; no strength turns negative and none
\* leaves the cap, whatever releases take and restores give back.
THEOREM TypeCorrect == Spec => []TypeOK
<1>1. Inv => TypeOK
    BY DEF Inv
<1> QED
    BY <1>1, Invariant, PTL

\* No sweep takes a neuron from a memory that is still live or can come back,
\* for any number of diaries overlapping in any way.
THEOREM KeepsNeurons == Spec => []RetainedKeepNeurons
<1>1. Inv => RetainedKeepNeurons
    BY DEF Inv, FootInv
<1> QED
    BY <1>1, Invariant, PTL

\* Releases leave no seal behind on what is live, however they overlap and in
\* whatever order they are restored and swept.
THEOREM LiveStaysUnsealed == Spec => []LiveIsUnsealed
<1>1. Inv => LiveIsUnsealed
    <2> SUFFICES ASSUME Inv, NEW m \in Memory, mem[m] = "live", NEW n \in foot[m],
                        sealedAt[n] # Open, n \notin letGo
                 PROVE  FALSE
        BY DEF LiveIsUnsealed
    <2>1. n \in Neuron /\ neuron[n] = "kept" /\ m \in Owners(n)
        BY DEF Inv, FootInv, RetainedKeepNeurons, TypeOK, Owners
    <2>2. PICK d \in Diary : Released(d) /\ n \in group[d].sealed
        BY <2>1 DEF Inv, SealInv
    <2>3. DiaryOf[m] = d
        BY <2>1, <2>2 DEF Inv, SealInv
    <2> QED
        BY <2>2, <2>3 DEF Inv, FateInv, ReleasedTogether
<1> QED
    BY <1>1, Invariant, PTL

\* No release, restore or sweep undoes a seal the user asked for.
THEOREM LettingGoPermanent == Spec => []LetGoIsPermanent
<1>1. Inv => LetGoIsPermanent
    BY DEF Inv, SealInv
<1> QED
    BY <1>1, Invariant, PTL

\* Every neuron that is kept is activated by some memory that is retained.
THEOREM NothingLeaks == Spec => []NoNeuronLeaks
<1>1. Inv => NoNeuronLeaks
    BY DEF Inv, FootInv
<1> QED
    BY <1>1, Invariant, PTL

\* A diary is released with all of its memories or with none.
THEOREM WholeDiaries == Spec => []ReleasedTogether
<1>1. Inv => ReleasedTogether
    BY DEF Inv, FateInv
<1> QED
    BY <1>1, Invariant, PTL

----------------------------------------------------------------------------
(* The graph implements the promise.  The fate of a diary is read off its    *)
(* memories, which FateInv keeps in step.                                    *)

\* The fate of a diary whose memories agree.
LEMMA FateOf ==
    ASSUME NEW d \in Diary, NEW fate,
           MemoriesOf(d) # {} \/ fate = "unwritten",
           \/ fate = "unwritten" /\ \A m \in MemoriesOf(d) : mem[m] = "unborn"
           \/ fate = "kept" /\ \A m \in MemoriesOf(d) : mem[m] = "live"
           \/ fate = "released" /\ \A m \in MemoriesOf(d) : mem[m] = "released"
           \/ fate = "lost" /\ \A m \in MemoriesOf(d) : mem[m] = "swept"
    PROVE  Fate(d) = fate
BY DEF Fate

\* The same, after a step.
LEMMA FateOfNext ==
    ASSUME NEW d \in Diary, NEW fate,
           MemoriesOf(d) # {} \/ fate = "unwritten",
           \/ fate = "unwritten" /\ \A m \in MemoriesOf(d) : mem'[m] = "unborn"
           \/ fate = "kept" /\ \A m \in MemoriesOf(d) : mem'[m] = "live"
           \/ fate = "released" /\ \A m \in MemoriesOf(d) : mem'[m] = "released"
           \/ fate = "lost" /\ \A m \in MemoriesOf(d) : mem'[m] = "swept"
    PROVE  Fate(d)' = fate
BY DEF Fate

\* A step that moves none of a diary's memories leaves its fate alone.
LEMMA FateKept ==
    ASSUME NEW d \in Diary, \A m \in MemoriesOf(d) : mem'[m] = mem[m]
    PROVE  Fate(d)' = Fate(d)
BY DEF Fate

\* A step that leaves a diary's release alone leaves its date alone.
LEMMA SinceKept ==
    ASSUME NEW d \in Diary, Released(d)' <=> Released(d),
           Released(d) => group'[d].at = group[d].at
    PROVE  Since(d)' = Since(d)
BY DEF Since

\* No diary is written at first.
LEMMA PromiseInit == Init => Promise!Init
<1> SUFFICES ASSUME Init
             PROVE  Promise!Init
    OBVIOUS
<1>1. \A d \in Diary : Fate(d) = "unwritten" /\ Since(d) = NoRelease
    BY DEF Init, Fate, Since, Released
<1> QED
    BY <1>1 DEF Promise!Init, Init

\* A launch writes one diary, whole.
LEMMA LaunchPromise ==
    ASSUME Inv, NEW d \in Diary, NEW f \in [MemoriesOf(d) -> SUBSET Neuron],
           NEW s \in Strengths, Launch(d, f, s)
    PROVE  [Promise!Next]_(Promise!promise)
<1>1. /\ diary[d] = "unwritten" /\ now' = now /\ group' = group
      /\ mem' = [m \in Memory |-> IF DiaryOf[m] = d THEN "live" ELSE mem[m]]
    BY DEF Launch
<1>2. \A x \in Diary : Since(x)' = Since(x)
    BY <1>1, SinceKept DEF Released
<1>3. \A x \in Diary : x # d => Fate(x)' = Fate(x)
    BY <1>1, FateKept
<1>4. CASE MemoriesOf(d) = {}
    <2>1. Fate(d)' = Fate(d)
        BY <1>4, FateKept
    <2> QED
        BY <1>1, <1>2, <1>3, <2>1 DEF Promise!promise
<1>5. CASE MemoriesOf(d) # {}
    <2>1. \A m \in MemoriesOf(d) : mem[m] = "unborn" /\ mem'[m] = "live"
        BY <1>1 DEF Inv, FateInv
    <2>2. Fate(d) = "unwritten" /\ Fate(d)' = "kept"
        BY <1>5, <2>1, FateOf, FateOfNext
    <2>3. Promise!Write(d)
        BY <1>1, <1>2, <1>3, <2>2 DEF Promise!Write
    <2> QED
        BY <2>3 DEF Promise!Next
<1> QED
    BY <1>4, <1>5

\* A release deletes one diary, whole.
LEMMA ReleasePromise ==
    ASSUME Inv, NEW c \in Caller, NEW d \in Diary, d = call[c].diary, ReleaseDiary(c)
    PROVE  Promise!Delete(d)
<1>1. /\ LiveOf(d) # {} /\ ~Released(d) /\ now' = now
      /\ mem' = [m \in Memory |-> IF m \in LiveOf(d) THEN "released" ELSE mem[m]]
      /\ \A x \in Diary : x # d => group'[x] = group[x]
    BY DEF ReleaseDiary
<1>2. LiveOf(d) = MemoriesOf(d)
    BY <1>1 DEF LiveOf, Inv, FateInv
<1>3. Released(d)' /\ group'[d].at = now
    <2>1. PICK row :
              /\ row = [id |-> made + 1, at |-> now, memories |-> LiveOf(d),
                        sealed |-> Unsealed(Footprint(LiveOf(d)))
                                    \ Shared(LiveOf(d), Unsealed(Footprint(LiveOf(d)))),
                        taken |-> Taken(Unsealed(Footprint(LiveOf(d))),
                                     Shared(LiveOf(d), Unsealed(Footprint(LiveOf(d)))))]
              /\ group'[d] = row
        BY DEF ReleaseDiary, Inv, TypeOK
    <2>2. Inv'
        BY ReleaseKeepsInv
    <2>3. \A m \in MemoriesOf(d) : mem'[m] = "released"
        BY <1>1, <1>2
    <2>4. Released(d)'
        BY <1>1, <1>2, <2>2, <2>3 DEF Inv, FateInv, ReleasedTogether, Released, LiveOf
    <2> QED
        BY <2>1, <2>4
<1>4. \A m \in MemoriesOf(d) : mem[m] = "live" /\ mem'[m] = "released"
    BY <1>1, <1>2 DEF LiveOf
<1>5. Fate(d) = "kept" /\ Fate(d)' = "released" /\ Since(d)' = now
    BY <1>1, <1>2, <1>3, <1>4, FateOf, FateOfNext DEF Since
<1>6. \A x \in Diary : x # d => Fate(x)' = Fate(x) /\ Since(x)' = Since(x)
    BY <1>1, FateKept, SinceKept DEF LiveOf, Released
<1> QED
    BY <1>1, <1>5, <1>6 DEF Promise!Delete

\* A restore undoes one deletion, whole.
LEMMA RestorePromise ==
    ASSUME Inv, NEW c \in Caller, NEW d \in Diary, d = call[c].diary, RestoreDiary(c)
    PROVE  Promise!Undo(d)
<1>1. /\ Released(d) /\ now' = now
      /\ group[d].memories = MemoriesOf(d) /\ MemoriesOf(d) # {}
      /\ mem' = [m \in Memory |-> IF m \in group[d].memories /\ mem[m] = "released"
                                     THEN "live" ELSE mem[m]]
    BY DEF RestoreDiary, Inv, FateInv
<1>2. group' = [Retire(Footprint(MemoriesOf(d))) EXCEPT ![d] = NoRelease]
    BY <1>1 DEF RestoreDiary
<1>3. \A m \in MemoriesOf(d) : mem[m] = "released" /\ mem'[m] = "live"
    BY <1>1 DEF Inv, FateInv, ReleasedTogether
<1> DEFINE rest == Retire(Footprint(MemoriesOf(d)))
<1>a. /\ rest \in [Diary -> Group \cup {NoRelease}]
      /\ \A x \in Diary : rest[x] # NoRelease <=> Released(x)
      /\ \A x \in Diary : Released(x) => rest[x].at = group[x].at
    BY RetireType DEF Inv
<1>b. group' = [rest EXCEPT ![d] = NoRelease]
    BY <1>2
<1> HIDE DEF rest
<1>4. ~Released(d)'
    BY <1>a, <1>b DEF Released
<1>5. \A x \in Diary : x # d => /\ Released(x)' <=> Released(x)
                                /\ Released(x) => group'[x].at = group[x].at
    BY <1>a, <1>b DEF Released
<1>6. Fate(d) = "released" /\ Fate(d)' = "kept" /\ Since(d)' = NoRelease
    <2>1. Fate(d) = "released"
        BY <1>1, <1>3, FateOf
    <2>2. Fate(d)' = "kept"
        BY <1>1, <1>3, <1>4, FateOfNext
    <2> QED
        BY <1>4, <2>1, <2>2 DEF Since
<1>7. \A x \in Diary : x # d => Fate(x)' = Fate(x) /\ Since(x)' = Since(x)
    BY <1>1, <1>5, FateKept, SinceKept
<1> QED
    BY <1>1, <1>6, <1>7 DEF Promise!Undo

\* A sweep loses diaries whole, each past its window.
LEMMA SweepPromise ==
    ASSUME Inv, NEW D \in SUBSET Diary, SweepGroups(D), now' = now,
           \A d \in D : Released(d) /\ Deadline(d) <= now
    PROVE  Promise!Lose(D)
<1> DEFINE memories == UNION {group[d].memories : d \in D}
<1>1. \A m \in Memory : m \in memories <=> DiaryOf[m] \in D
    BY ReleaseAssumption DEF Inv, FateInv
<1>2. /\ mem' = [m \in Memory |-> IF m \in memories /\ mem[m] = "released"
                                     THEN "swept" ELSE mem[m]]
      /\ group' = [d \in Diary |-> IF d \in D THEN NoRelease
                                    ELSE Retire(Footprint(memories))[d]]
    BY DEF SweepGroups
<1>3. ASSUME NEW d \in D
      PROVE  /\ Fate(d) = "released" /\ Fate(d)' = "lost"
             /\ Since(d) = group[d].at /\ Since(d)' = NoRelease
    <2>1. MemoriesOf(d) # {} /\ Released(d)
        BY DEF Inv, FateInv
    <2>2. \A m \in MemoriesOf(d) : mem[m] = "released" /\ mem'[m] = "swept"
        BY <1>1, <1>2, <2>1 DEF Inv, FateInv, ReleasedTogether
    <2>3. ~Released(d)'
        BY <1>2 DEF Released
    <2> QED
        BY <2>1, <2>2, <2>3, FateOf, FateOfNext DEF Since
<1>4. ASSUME NEW d \in Diary, d \notin D
      PROVE  Fate(d)' = Fate(d) /\ Since(d)' = Since(d)
    <2>1. /\ Released(d)' <=> Released(d)
          /\ Released(d) => group'[d].at = group[d].at
        BY <1>2, <1>4, RetireType DEF Inv, Released
    <2>2. \A m \in MemoriesOf(d) : mem'[m] = mem[m]
        BY <1>1, <1>2, <1>4
    <2> QED
        BY <2>1, <2>2, FateKept, SinceKept
<1> QED
    BY <1>3, <1>4 DEF Promise!Lose, Deadline

\* Outside these transactions the promise sees only the clock.
LEMMA QuietPromise ==
    ASSUME UNCHANGED <<mem, group>>, now' = now \/ now' = now + 1
    PROVE  [Promise!Next]_(Promise!promise)
<1>1. \A d \in Diary : Fate(d)' = Fate(d) /\ Since(d)' = Since(d)
    BY FateKept, SinceKept DEF Released
<1>2. CASE now' = now
    BY <1>1, <1>2 DEF Promise!promise
<1>3. CASE now' = now + 1
    <2>1. Promise!Pass
        BY <1>1, <1>3 DEF Promise!Pass
    <2> QED
        BY <2>1 DEF Promise!Next
<1> QED
    BY <1>2, <1>3

\* Every step is one of the promise's or none.
LEMMA PromiseStep ==
    ASSUME Inv, CallInv, [Next]_vars
    PROVE  [Promise!Next]_(Promise!promise)
<1>1. TypeOK
    BY DEF Inv
<1>2. \A c \in Actors : /\ call[c].op # "idle" => call[c].diary \in Diary
                        /\ call[c].at \in Nat /\ call[c].at <= now
    BY <1>1 DEF CallInv, TypeOK, Call
<1>3. ASSUME NEW d \in Diary, NEW f \in [MemoriesOf(d) -> SUBSET Neuron],
             NEW s \in Strengths, Launch(d, f, s)
      PROVE  [Promise!Next]_(Promise!promise)
    BY <1>3, LaunchPromise
<1>4. ASSUME NEW c \in Caller, ReleaseDiary(c)
      PROVE  [Promise!Next]_(Promise!promise)
    <2>1. PICK d \in Diary : d = call[c].diary
        BY <1>2, <1>4 DEF ReleaseDiary, Actors
    <2>2. Promise!Delete(d)
        BY <1>4, <2>1, ReleasePromise
    <2> QED
        BY <2>2 DEF Promise!Next
<1>5. ASSUME NEW c \in Caller, RestoreDiary(c)
      PROVE  [Promise!Next]_(Promise!promise)
    <2>1. PICK d \in Diary : d = call[c].diary
        BY <1>2, <1>5 DEF RestoreDiary, Actors
    <2>2. Promise!Undo(d)
        BY <1>5, <2>1, RestorePromise
    <2> QED
        BY <2>2 DEF Promise!Next
<1>6. ASSUME NEW c \in Caller, SweepExpired(c)
      PROVE  [Promise!Next]_(Promise!promise)
    <2>1. PICK D \in SUBSET Diary : D = Expired(call[c].at)
        BY DEF Expired
    <2>2. SweepGroups(D) /\ now' = now
        BY <1>6, <2>1 DEF SweepExpired, SweepGroups
    <2>3. ASSUME NEW d \in D
          PROVE  Released(d) /\ Deadline(d) <= now
        <3>1. Released(d) /\ Deadline(d) <= call[c].at /\ d \in Diary
            BY <2>1 DEF Expired
        <3>2. Deadline(d) \in Nat /\ now \in Nat
            BY <1>1, <3>1, GroupFields, ReleaseAssumption DEF Deadline, TypeOK
        <3>3. call[c].at \in Nat /\ call[c].at <= now
            BY <1>2 DEF Actors
        <3> QED
            BY <3>1, <3>2, <3>3
    <2>4. Promise!Lose(D)
        BY <2>2, <2>3, SweepPromise
    <2> QED
        BY <2>4 DEF Promise!Next
<1>7. ASSUME NEW w \in Worker, SweepDue(w)
      PROVE  [Promise!Next]_(Promise!promise)
    <2>1. /\ call[w].diary \in Diary /\ Released(call[w].diary) /\ now' = now
          /\ Deadline(call[w].diary) <= call[w].at
        <3>1. Released(call[w].diary) /\ now' = now /\ call[w].op = "due"
              /\ call[w].at >= Deadline(call[w].diary)
            BY <1>7 DEF SweepDue, Found, Due
        <3>2. call[w].diary \in Diary /\ call[w].at \in Nat
            BY <1>2, <3>1 DEF Actors
        <3>3. Deadline(call[w].diary) \in Nat
            BY <1>1, <3>1, <3>2, GroupFields, ReleaseAssumption DEF Deadline
        <3> QED
            BY <3>1, <3>2, <3>3
    <2>2. PICK D \in SUBSET Diary : D = {call[w].diary}
        BY <2>1
    <2>3. SweepGroups(D)
        BY <1>7, <2>2 DEF SweepDue, SweepGroups
    <2>4. ASSUME NEW d \in D
          PROVE  Released(d) /\ Deadline(d) <= now
        <3>1. Deadline(d) \in Nat /\ now \in Nat
            BY <1>1, <2>1, <2>2, GroupFields, ReleaseAssumption DEF Deadline, TypeOK
        <3>2. call[w].at \in Nat /\ call[w].at <= now
            BY <1>2 DEF Actors
        <3> QED
            BY <2>1, <2>2, <3>1, <3>2
    <2>5. Promise!Lose(D)
        BY <2>1, <2>3, <2>4, SweepPromise
    <2> QED
        BY <2>5 DEF Promise!Next
<1>8. ASSUME NEW e \in Edge, NEW s \in 0..Cap, Drift(e, s)
      PROVE  [Promise!Next]_(Promise!promise)
    BY <1>8, QuietPromise DEF Drift
<1>9. ASSUME NEW c \in Caller, NEW d \in Diary, BeginRelease(c, d) \/ BeginRestore(c, d)
      PROVE  [Promise!Next]_(Promise!promise)
    BY <1>9, QuietPromise DEF BeginRelease, BeginRestore, graph
<1>10. ASSUME NEW c \in Caller, RefuseRelease(c) \/ RefuseRestore(c)
       PROVE  [Promise!Next]_(Promise!promise)
    BY <1>10, QuietPromise DEF RefuseRelease, RefuseRestore, graph
<1>11. ASSUME NEW w \in Worker, NEW d \in Diary, ClaimDue(w, d)
       PROVE  [Promise!Next]_(Promise!promise)
    BY <1>11, QuietPromise DEF ClaimDue, graph
<1>12. ASSUME NEW w \in Worker, NotDueYet(w) \/ NothingDue(w)
       PROVE  [Promise!Next]_(Promise!promise)
    BY <1>12, QuietPromise DEF NotDueYet, NothingDue, graph
<1>13. ASSUME NEW m \in Memory, NEW approved \in SUBSET Semantic, LetGo(m, approved)
       PROVE  [Promise!Next]_(Promise!promise)
    BY <1>13, QuietPromise DEF LetGo
<1>14. CASE Tick
    BY <1>14, QuietPromise DEF Tick, graph
<1>15. CASE UNCHANGED vars
    BY <1>15, QuietPromise DEF vars
<1>16. CASE Grow
    BY <1>3, <1>8, <1>16 DEF Grow
<1>17. CASE \E c \in Caller : Ask(c)
    BY <1>4, <1>5, <1>6, <1>9, <1>10, <1>17 DEF Ask
<1>18. CASE \E w \in Worker : Sweep(w)
    BY <1>7, <1>11, <1>12, <1>18 DEF Sweep
<1> QED
    BY <1>13, <1>14, <1>15, <1>16, <1>17, <1>18 DEF Next

\* The transactions of release.go, racing and overlapping in any way, keep the
\* promise: a diary is deleted and comes back as a whole, and is lost as a
\* whole only after its window.
THEOREM PromiseKept == Spec => KeepsPromise
    BY PromiseInit, InitInv, InvStep, PromiseStep, PTL DEF Spec, KeepsPromise, Promise!Spec

----------------------------------------------------------------------------
(* What releases take from a synapse, and give back. *)

\* A deleted diary has no memory left that could be released.
GoneInv ==
    \A d \in Diary : diary[d] = "deleted" => \A m \in MemoriesOf(d) : mem[m] = "swept"

\* What is added up,
LEMMA LentType ==
    ASSUME TypeOK, NEW e \in Edge
    PROVE  /\ Whole(e) = strength[e] + Sum(Lent(e), Diary)
           /\ \A d \in Diary :
                 /\ Lent(e)[d] \in Nat
                 /\ Lent(e)[d] = IF Released(d) THEN group[d].taken[e] ELSE 0
           /\ Exists(e) => strength[e] \in Nat
<1>1. DOMAIN Lent(e) = Diary
    BY DEF Lent
<1>2. Whole(e) = strength[e] + Sum(Lent(e), Diary)
    BY <1>1 DEF Whole, SumFunction, Sum
<1>3. ASSUME NEW d \in Diary
      PROVE  Lent(e)[d] \in Nat /\ Lent(e)[d] = IF Released(d) THEN group[d].taken[e] ELSE 0
    <2>1. Released(d) => group[d].taken[e] \in Nat
        BY GroupFields
    <2> QED
        BY <2>1 DEF Lent
<1>4. Exists(e) => strength[e] \in Nat
    BY ReleaseAssumption DEF TypeOK, Strengths, Exists
<1> QED
    BY <1>2, <1>3, <1>4

\* and after a step.
LEMMA LentTypeNext ==
    ASSUME TypeOK', NEW e \in Edge
    PROVE  /\ Whole(e)' = strength'[e] + Sum(Lent(e)', Diary)
           /\ \A d \in Diary :
                 /\ Lent(e)'[d] \in Nat
                 /\ Lent(e)'[d] = IF Released(d)' THEN group'[d].taken[e] ELSE 0
           /\ Exists(e)' => strength'[e] \in Nat
<1>1. DOMAIN Lent(e)' = Diary
    BY DEF Lent
<1>2. Whole(e)' = strength'[e] + Sum(Lent(e)', Diary)
    BY <1>1 DEF Whole, SumFunction, Sum
<1>3. ASSUME NEW d \in Diary
      PROVE  Lent(e)'[d] \in Nat /\ Lent(e)'[d] = IF Released(d)' THEN group'[d].taken[e] ELSE 0
    <2>1. Released(d)' => group'[d].taken[e] \in Nat
        BY DEF TypeOK, Group, Released
    <2> QED
        BY <2>1 DEF Lent
<1>4. Exists(e)' => strength'[e] \in Nat
    BY ReleaseAssumption DEF TypeOK, Strengths, Exists
<1> QED
    BY <1>2, <1>3, <1>4

\* A release keeps what it takes on record.
LEMMA ReleaseLends ==
    ASSUME Inv, Inv', NEW c \in Caller, ReleaseDiary(c),
           NEW d \in Diary, d = call[c].diary, NEW e \in Edge, Exists(e), Exists(e)'
    PROVE  Whole(e)' = Whole(e)
<1> DEFINE neurons == Unsealed(Footprint(LiveOf(d)))
           taken == Taken(neurons, Shared(LiveOf(d), neurons))
           f == Lent(e)
           h == Lent(e)'
<1>1. TypeOK /\ TypeOK'
    BY DEF Inv
<1>2. /\ Whole(e) = strength[e] + Sum(f, Diary)
      /\ Whole(e)' = strength'[e] + Sum(h, Diary)
      /\ strength[e] \in Nat /\ strength'[e] \in Nat
      /\ \A x \in Diary : /\ f[x] \in Nat /\ h[x] \in Nat
                          /\ f[x] = IF Released(x) THEN group[x].taken[e] ELSE 0
                          /\ h[x] = IF Released(x)' THEN group'[x].taken[e] ELSE 0
    BY <1>1, LentType, LentTypeNext
<1>3. ~Released(d) /\ strength' = Weakened(taken) /\ d \in Diary
    BY DEF ReleaseDiary
<1>4. /\ Released(d)' /\ group'[d].taken[e] = taken[e]
      /\ \A x \in Diary \ {d} : group'[x] = group[x]
    <2>1. PICK q : /\ group' = [group EXCEPT ![d] = q]
                   /\ q = [id |-> made + 1, at |-> now, memories |-> LiveOf(d),
                           sealed |-> neurons \ Shared(LiveOf(d), neurons), taken |-> taken]
        BY DEF ReleaseDiary
    <2>2. group'[d] = q /\ \A x \in Diary \ {d} : group'[x] = group[x]
        BY <1>1, <1>3, <2>1 DEF TypeOK
    <2>3. q # NoRelease
        <3>1. made + 1 \in Nat /\ now \in Nat /\ LiveOf(d) \subseteq Memory /\ taken \in [Edge -> Nat]
            BY <1>1, TakenType DEF TypeOK, LiveOf
        <3>2. neurons \ Shared(LiveOf(d), neurons) \subseteq Neuron
            BY <1>1, <3>1, FootprintType DEF Unsealed
        <3> QED
            BY <2>1, <3>1, <3>2, ReleaseAssumption
    <2> QED
        BY <2>1, <2>2, <2>3 DEF Released
<1>5. strength'[e] = strength[e] - taken[e] /\ taken[e] \in Nat /\ taken[e] <= strength[e]
    BY <1>2, <1>3, ReleaseAssumption DEF Weakened, Taken
<1>6. h[d] = taken[e] /\ f[d] = 0 /\ \A x \in Diary \ {d} : f[x] = h[x]
    BY <1>2, <1>3, <1>4 DEF Released
<1> HIDE DEF f, h, taken
<1>7. Sum(h, Diary) = Sum(f, Diary) + h[d] - f[d] /\ Sum(f, Diary) \in Int
    <2>1. \A x \in Diary : f[x] \in Int /\ h[x] \in Int
        BY <1>2
    <2> QED
        BY <1>3, <1>6, <2>1, DiaryAssumption, SumChanges
<1> QED
    BY <1>2, <1>5, <1>6, <1>7

\* A restore gives back what its release has on record, up to the cap.
LEMMA RestoreReturns ==
    ASSUME Inv, Inv', NEW c \in Caller, RestoreDiary(c),
           NEW d \in Diary, d = call[c].diary, NEW e \in Edge, Exists(e), Exists(e)'
    PROVE  \/ Whole(e)' = Whole(e)
           \/ Whole(e)' < Whole(e) /\ strength'[e] = Cap
<1> DEFINE f == Lent(e)
           h == Lent(e)'
           back == group[d].taken[e]
<1>1. TypeOK /\ TypeOK'
    BY DEF Inv
<1>2. /\ Whole(e) = strength[e] + Sum(f, Diary)
      /\ Whole(e)' = strength'[e] + Sum(h, Diary)
      /\ strength[e] \in Nat /\ strength'[e] \in Nat /\ Cap \in Nat
      /\ \A x \in Diary : /\ f[x] \in Nat /\ h[x] \in Nat
                          /\ f[x] = IF Released(x) THEN group[x].taken[e] ELSE 0
                          /\ h[x] = IF Released(x)' THEN group'[x].taken[e] ELSE 0
    BY <1>1, LentType, LentTypeNext, ReleaseAssumption
<1>3. Released(d) /\ strength' = GivenBack(group[d].taken) /\ d \in Diary
    BY DEF RestoreDiary
<1>4. /\ ~Released(d)'
      /\ \A x \in Diary \ {d} : /\ Released(x)' <=> Released(x)
                                /\ Released(x) => group'[x].taken = group[x].taken
    <2>1. PICK N : group' = [Retire(N) EXCEPT ![d] = NoRelease]
        BY DEF RestoreDiary
    <2>2. Retire(N) \in [Diary -> Group \cup {NoRelease}]
        BY <1>1, RetireType
    <2>3. group'[d] = NoRelease /\ \A x \in Diary \ {d} : group'[x] = Retire(N)[x]
        BY <1>3, <2>1, <2>2
    <2> QED
        BY <1>1, <2>3, RetireType DEF Released
<1>5. /\ back \in Nat
      /\ strength'[e] = IF strength[e] + back < Cap THEN strength[e] + back ELSE Cap
    BY <1>1, <1>3, GroupFields DEF GivenBack
<1>6. h[d] = 0 /\ f[d] = back /\ \A x \in Diary \ {d} : f[x] = h[x]
    BY <1>2, <1>3, <1>4
<1> HIDE DEF f, h, back
<1>7. Sum(h, Diary) = Sum(f, Diary) + h[d] - f[d] /\ Sum(f, Diary) \in Int
    <2>1. \A x \in Diary : f[x] \in Int /\ h[x] \in Int
        BY <1>2
    <2> QED
        BY <1>3, <1>6, <2>1, DiaryAssumption, SumChanges
<1> QED
    BY <1>2, <1>5, <1>6, <1>7

\* A sweep keeps what its releases took, and deletes their diaries.
LEMMA SweepKeeps ==
    ASSUME Inv, Inv', GoneInv, NEW D \in SUBSET Diary, \A d \in D : Released(d), SweepGroups(D),
           NEW e \in Edge, Exists(e), Exists(e)'
    PROVE  \/ Whole(e)' = Whole(e)
           \/ Whole(e)' < Whole(e) /\ Sweeps
<1> DEFINE memories == UNION {group[d].memories : d \in D}
           f == Lent(e)
           h == Lent(e)'
<1>1. TypeOK /\ TypeOK'
    BY DEF Inv
<1>2. /\ Whole(e) = strength[e] + Sum(f, Diary)
      /\ Whole(e)' = strength'[e] + Sum(h, Diary)
      /\ strength[e] \in Nat
      /\ \A x \in Diary : /\ f[x] \in Nat /\ h[x] \in Nat
                          /\ f[x] = IF Released(x) THEN group[x].taken[e] ELSE 0
                          /\ h[x] = IF Released(x)' THEN group'[x].taken[e] ELSE 0
    BY <1>1, LentType, LentTypeNext
<1>3. strength'[e] = strength[e]
    BY DEF SweepGroups, Exists
<1>4. /\ \A x \in D : ~Released(x)'
      /\ \A x \in Diary \ D : /\ Released(x)' <=> Released(x)
                              /\ Released(x) => group'[x].taken = group[x].taken
    <2>1. group' = [x \in Diary |-> IF x \in D THEN NoRelease
                                     ELSE Retire(Footprint(memories))[x]]
        BY DEF SweepGroups
    <2> QED
        BY <1>1, <2>1, RetireType DEF Released
<1>5. ASSUME NEW d \in D
      PROVE  diary[d] = "kept" /\ diary'[d] = "deleted"
    <2>1. MemoriesOf(d) # {} /\ group[d].memories = MemoriesOf(d)
          /\ \A m \in MemoriesOf(d) : mem[m] = "released"
        BY DEF Inv, FateInv, ReleasedTogether
    <2>2. diary[d] = "kept"
        BY <1>1, <2>1 DEF GoneInv, Inv, FateInv, TypeOK
    <2>3. \A m \in MemoriesOf(d) : mem'[m] = "swept"
        BY <2>1 DEF SweepGroups
    <2> QED
        BY <2>2, <2>3 DEF SweepGroups
<1> HIDE DEF f, h, memories
<1>6. Sum(f, Diary) \in Int /\ Sum(h, Diary) \in Int /\ Sum(h, Diary) <= Sum(f, Diary)
    <2>1. \A x \in Diary : f[x] \in Int /\ h[x] \in Int /\ h[x] <= f[x]
        BY <1>2, <1>4
    <2> QED
        BY <2>1, DiaryAssumption, SumTakes, SumLower
<1>7. CASE D = {}
    <2>1. \A x \in Diary : h[x] = f[x]
        BY <1>2, <1>4, <1>7
    <2>2. Sum(h, Diary) = Sum(f, Diary)
        BY <2>1, DiaryAssumption, SumCongruent
    <2> QED
        BY <1>2, <1>3, <2>2
<1>8. CASE D # {}
    <2>1. Sweeps
        BY <1>5, <1>8 DEF Sweeps
    <2> QED
        BY <1>2, <1>3, <1>6, <2>1
<1> QED
    BY <1>7, <1>8

\* A deleted diary stays so, with what it held.
LEMMA GoneStep ==
    ASSUME Inv, Inv', CallInv, GoneInv, [Next]_vars
    PROVE  GoneInv'
<1>1. ASSUME NEW D \in SUBSET Diary, SweepGroups(D)
      PROVE  GoneInv'
    <2> SUFFICES ASSUME NEW d \in Diary, diary'[d] = "deleted", NEW m \in MemoriesOf(d)
                 PROVE  mem'[m] = "swept"
        BY DEF GoneInv
    <2>1. CASE diary[d] = "deleted"
        BY <1>1, <2>1 DEF GoneInv, SweepGroups
    <2>2. CASE diary[d] # "deleted"
        <3>1. d \in D /\ \A k \in MemoriesOf(d) : mem'[k] \notin {"live", "released"}
            BY <1>1, <2>2 DEF SweepGroups
        <3>2. mem'[m] # "unborn" /\ mem' \in [Memory -> {"unborn", "live", "released", "swept"}]
            BY DEF Inv, FateInv, TypeOK
        <3> QED
            BY <3>1, <3>2
    <2> QED
        BY <2>1, <2>2
<1>2. ASSUME diary' = diary, \A m \in Memory : mem[m] = "swept" => mem'[m] = "swept"
      PROVE  GoneInv'
    BY <1>2 DEF GoneInv
<1>3. ASSUME NEW d \in Diary, NEW f \in [MemoriesOf(d) -> SUBSET Neuron], NEW s \in Strengths,
             Launch(d, f, s)
      PROVE  GoneInv'
    BY <1>3 DEF Launch, GoneInv, Inv, TypeOK
<1>4. ASSUME NEW c \in Caller, Ask(c)
      PROVE  GoneInv'
    <2>1. CASE SweepExpired(c)
        <3>1. PICK D \in SUBSET Diary : D = Expired(call[c].at)
            BY DEF Expired
        <3>2. SweepGroups(D)
            BY <2>1, <3>1 DEF SweepExpired, SweepGroups
        <3> QED
            BY <1>1, <3>2
    <2>2. CASE ReleaseDiary(c)
        BY <1>2, <2>2 DEF ReleaseDiary, LiveOf
    <2>3. CASE RestoreDiary(c)
        BY <1>2, <2>3 DEF RestoreDiary
    <2> QED
        BY <1>2, <1>4, <2>1, <2>2, <2>3
           DEF Ask, BeginRelease, BeginRestore, RefuseRelease, RefuseRestore, graph
<1>5. ASSUME NEW w \in Worker, Sweep(w)
      PROVE  GoneInv'
    <2>1. CASE SweepDue(w)
        <3>1. call[w].op = "due" /\ SweepGroups({call[w].diary})
            BY <2>1 DEF SweepDue
        <3>2. call[w].diary \in Diary
            BY <3>1 DEF CallInv, Actors
        <3>3. PICK D \in SUBSET Diary : D = {call[w].diary}
            BY <3>2
        <3>4. SweepGroups(D)
            BY <3>1, <3>3 DEF SweepGroups
        <3> QED
            BY <1>1, <3>4
    <2> QED
        BY <1>2, <1>5, <2>1 DEF Sweep, ClaimDue, NotDueYet, NothingDue, graph
<1> QED
    BY <1>2, <1>3, <1>4, <1>5 DEF Next, Grow, Drift, LetGo, Tick, graph, vars

\* At first no diary is deleted.
LEMMA GoneInit == Init => GoneInv
    BY DEF Init, GoneInv

\* A step that touches a release lends, returns or keeps.
LEMMA LendStep ==
    ASSUME Inv, Inv', CallInv, GoneInv, [Next]_vars, group' # group,
           NEW e \in Edge, Exists(e), Exists(e)'
    PROVE  \/ Whole(e)' = Whole(e)
           \/ Whole(e)' < Whole(e) /\ (Sweeps \/ strength'[e] = Cap)
<1> DEFINE Lends == \/ Whole(e)' = Whole(e)
                    \/ Whole(e)' < Whole(e) /\ (Sweeps \/ strength'[e] = Cap)
<1>1. \A c \in Actors : call[c].op # "idle" => call[c].diary \in Diary
    BY DEF CallInv
<1>2. ASSUME NEW c \in Caller, ReleaseDiary(c)
      PROVE  Lends
    <2>1. PICK d \in Diary : d = call[c].diary
        BY <1>1, <1>2 DEF ReleaseDiary, Actors
    <2> QED
        BY <1>2, <2>1, ReleaseLends
<1>3. ASSUME NEW c \in Caller, RestoreDiary(c)
      PROVE  Lends
    <2>1. PICK d \in Diary : d = call[c].diary
        BY <1>1, <1>3 DEF RestoreDiary, Actors
    <2>2. \/ Whole(e)' = Whole(e)
          \/ Whole(e)' < Whole(e) /\ strength'[e] = Cap
        BY <1>3, <2>1, RestoreReturns
    <2> QED
        BY <2>2
<1>4. ASSUME NEW D \in SUBSET Diary, \A d \in D : Released(d), SweepGroups(D)
      PROVE  Lends
    <2>1. \/ Whole(e)' = Whole(e)
          \/ Whole(e)' < Whole(e) /\ Sweeps
        BY <1>4, SweepKeeps
    <2> QED
        BY <2>1
<1>5. ASSUME NEW c \in Caller, SweepExpired(c)
      PROVE  Lends
    <2>1. PICK D \in SUBSET Diary : D = Expired(call[c].at)
        BY DEF Expired
    <2>2. SweepGroups(D)
        BY <1>5, <2>1 DEF SweepExpired, SweepGroups
    <2>3. \A d \in D : Released(d)
        BY <2>1 DEF Expired
    <2> QED
        BY <1>4, <2>2, <2>3
<1>6. ASSUME NEW w \in Worker, SweepDue(w)
      PROVE  Lends
    <2>1. call[w].diary \in Diary /\ Released(call[w].diary)
        BY <1>1, <1>6 DEF SweepDue, Found, Actors
    <2>2. PICK D \in SUBSET Diary : D = {call[w].diary}
        BY <2>1
    <2>3. SweepGroups(D)
        BY <1>6, <2>2 DEF SweepDue, SweepGroups
    <2>4. \A d \in D : Released(d)
        BY <2>1, <2>2
    <2> QED
        BY <1>4, <2>3, <2>4
<1>7. \/ \E c \in Caller : ReleaseDiary(c) \/ RestoreDiary(c) \/ SweepExpired(c)
      \/ \E w \in Worker : SweepDue(w)
    BY DEF Next, Grow, Ask, Sweep, Launch, Drift, LetGo, Tick, BeginRelease, BeginRestore,
           RefuseRelease, RefuseRestore, ClaimDue, NotDueYet, NothingDue, graph, vars
<1> QED
    BY <1>2, <1>3, <1>5, <1>6, <1>7

\* However releases, restores and sweeps overlap, a synapse loses for good only
\* what a sweep keeps or the cap refuses.
THEOREM OnlyLent == Spec => WeakeningIsLent
<1>1. Inv /\ Inv' /\ CallInv /\ GoneInv /\ [Next]_vars =>
          [\A e \in Edge :
              Exists(e) /\ Exists(e)' /\ group' # group =>
                  \/ Whole(e)' = Whole(e)
                  \/ Whole(e)' < Whole(e) /\ (Sweeps \/ strength'[e] = Cap)]_vars
    BY LendStep
<1>2. Inv /\ Inv' /\ CallInv /\ GoneInv /\ [Next]_vars => GoneInv'
    BY GoneStep
<1> QED
    BY <1>1, <1>2, InitInv, InvStep, GoneInit, PTL DEF Spec, WeakeningIsLent

----------------------------------------------------------------------------
(* The jobs the transactions write (ReleaseJobs).  A step of ReleaseJobs is  *)
(* one of Release, so the invariant above stands under the one of the jobs.   *)

\* The job rows by neuron, memory and release.
JobType ==
    /\ embed \in [Neuron -> SUBSET {"waiting", "calling", "failed"}]
    /\ vector \subseteq Neuron
    /\ ladder \in [Memory -> {"none", "active", "cancelled", "over"}]
    /\ trigger \subseteq Nat

\* No release is forgotten: while it stands, the job that will sweep it is in
\* the queue.
NoneForgotten == \A d \in Diary : Released(d) => group[d].id \in trigger

\* A release's id is its own, also to the workers that still hold its job.
OwnIds ==
    /\ \A d \in Diary : Released(d) => group[d].id <= made
    /\ \A d, e \in Diary : Released(d) /\ Released(e) /\ group[d].id = group[e].id => d = e
    /\ \A c \in Actors : call[c].op = "due" =>
          /\ call[c].id <= made
          /\ \A d \in Diary : Released(d) /\ group[d].id = call[c].id => d = call[c].diary

\* A step with its jobs is a step of the graph.
LEMMA JobStepIsStep ==
    ASSUME [JNext]_allVars
    PROVE  [Next]_vars
<1>1. CASE UNCHANGED allVars
    BY <1>1 DEF allVars
<1>2. CASE \E d \in Diary : \E f \in [MemoriesOf(d) -> SUBSET Neuron] : \E s \in Strengths :
               JLaunch(d, f, s)
    BY <1>2 DEF Next, Grow, JLaunch
<1>3. CASE \E e \in Edge, s \in 0..Cap : Drift(e, s) /\ UNCHANGED jobVars
    BY <1>3 DEF Next, Grow
<1>4. ASSUME NEW c \in Caller, JAsk(c)
      PROVE  Next
    BY <1>4 DEF Next, Ask, JAsk, JSweepExpired, JReleaseDiary, JRestoreDiary
<1>5. ASSUME NEW w \in Worker, JSweep(w)
      PROVE  Next
    BY <1>5 DEF Next, Sweep, JSweep, JClaimDue, JSweepDue, JNotDueYet, JNothingDue
<1>6. CASE Handlers
    BY <1>6 DEF Handlers, ReadSource, SaveVector, FailEmbed, SaveLadder
<1>7. CASE JTick
    BY <1>7 DEF JTick, Next
<1>8. CASE \E m \in Memory, approved \in SUBSET Semantic : LetGo(m, approved) /\ UNCHANGED jobVars
    BY <1>8 DEF Next
<1> QED
    BY <1>1, <1>2, <1>3, <1>4, <1>5, <1>6, <1>7, <1>8 DEF JNext

\* Every seal a sweep undoes is on a neuron it deletes: a retained memory that
\* activates a neuron sealed by a release is of that release itself.
LEMMA SweepUnsealsNothingKept ==
    ASSUME Inv, NEW D \in SUBSET Diary, \A d \in D : Released(d), SweepGroups(D),
           NEW n \in Neuron, neuron'[n] = "kept", sealedAt'[n] = Open
    PROVE  neuron[n] = "kept" /\ sealedAt[n] = Open
<1> DEFINE memories == UNION {group[d].memories : d \in D}
<1>1. \A m \in Memory : m \in memories <=> DiaryOf[m] \in D
    BY ReleaseAssumption DEF Inv, FateInv
<1>2. neuron[n] = "kept" /\ n \notin Exclusive(memories)
    BY DEF SweepGroups, Inv, TypeOK
<1>3. SUFFICES ASSUME sealedAt[n] # Open
               PROVE  FALSE
    BY <1>2
<1>4. n \in Footprint(memories) /\ ReleaseOwns(n)
    BY <1>3 DEF SweepGroups, Unseal
<1>5. PICK d \in Diary : Released(d) /\ n \in group[d].sealed
    BY <1>4 DEF ReleaseOwns
<1>6. Owners(n) \subseteq MemoriesOf(d)
    BY <1>5 DEF Inv, SealInv
<1>7. PICK m \in memories : n \in foot[m]
    BY <1>4 DEF Footprint
<1>8. m \in Memory
    BY <1>7, GroupFields DEF Inv
<1>9. m \in Owners(n)
    BY <1>7, <1>8 DEF Inv, FootInv, Owners
<1>10. d \in D
    BY <1>1, <1>6, <1>7, <1>8, <1>9
<1>11. Owners(n) \subseteq memories
    BY <1>1, <1>6, <1>10 DEF Owners
<1> QED
    BY <1>2, <1>4, <1>11 DEF Exclusive

\* Purging the jobs of swept diaries leaves every kept neuron its own.
LEMMA SweepEmbedded ==
    ASSUME Inv, JobType, OpenIsEmbedded,
           NEW D \in SUBSET Diary, \A d \in D : Released(d), SweepGroups(D), PurgeJobs(D)
    PROVE  OpenIsEmbedded'
<1> SUFFICES ASSUME NEW n \in Neuron, neuron'[n] = "kept", sealedAt'[n] = Open
             PROVE  n \in vector' \/ embed'[n] # {}
    BY DEF OpenIsEmbedded
<1>1. n \in vector \/ embed[n] # {}
    BY SweepUnsealsNothingKept DEF OpenIsEmbedded
<1>2. n \notin Deleted
    BY DEF Deleted
<1> QED
    BY <1>1, <1>2 DEF PurgeJobs

\* The jobs of a step stay well formed.
LEMMA JobTypeStep ==
    ASSUME TypeOK, JobType, [JNext]_allVars, TypeOK'
    PROVE  JobType'
<1> USE DEF JobType
<1>1. \A N : Queued(N) \in [Neuron -> SUBSET {"waiting", "calling", "failed"}]
    BY DEF Queued
<1>2. \A M : /\ Cancelled(M) \in [Memory -> {"none", "active", "cancelled", "over"}]
             /\ Revived(M) \in [Memory -> {"none", "active", "cancelled", "over"}]
    BY DEF Cancelled, Revived
<1>3. ASSUME NEW D, PurgeJobs(D)
      PROVE  JobType'
    BY <1>3 DEF PurgeJobs
<1>4. CASE UNCHANGED jobVars
    BY <1>4 DEF jobVars
<1>5. ASSUME NEW d \in Diary, NEW f, NEW s, JLaunch(d, f, s)
      PROVE  JobType'
    <2>1. embed' = Queued(Born) /\ UNCHANGED <<vector, trigger>>
          /\ ladder' = [m \in Memory |-> IF DiaryOf[m] = d THEN "active" ELSE ladder[m]]
        BY <1>5 DEF JLaunch
    <2> QED
        BY <1>1, <2>1
<1>6. ASSUME NEW c \in Caller, JReleaseDiary(c)
      PROVE  JobType'
    <2>1. made' \in Nat
        BY DEF TypeOK
    <2> QED
        BY <1>2, <1>6, <2>1 DEF JReleaseDiary
<1>7. ASSUME NEW c \in Caller, JRestoreDiary(c)
      PROVE  JobType'
    <2>1. PICK N, M, i : /\ embed' = Queued(N) /\ ladder' = Revived(M)
                         /\ trigger' = trigger \ {i} /\ UNCHANGED vector
        BY <1>7 DEF JRestoreDiary
    <2> QED
        BY <1>1, <1>2, <2>1
<1>8. ASSUME NEW w \in Worker, JSweep(w)
      PROVE  JobType'
    <2>1. CASE JSweepDue(w)
        BY <1>3, <2>1 DEF JSweepDue
    <2>2. CASE \E d \in Diary : JClaimDue(w, d)
        BY <1>4, <2>2 DEF JClaimDue
    <2>3. CASE JNotDueYet(w)
        BY <1>4, <2>3 DEF JNotDueYet
    <2>4. CASE JNothingDue(w)
        BY <2>4 DEF JNothingDue
    <2> QED
        BY <1>8, <2>1, <2>2, <2>3, <2>4 DEF JSweep
<1>9. CASE Handlers
    <2>1. ASSUME NEW n \in Neuron, ReadSource(n) \/ SaveVector(n) \/ FailEmbed(n)
          PROVE  JobType'
        <3>1. PICK J \in SUBSET {"waiting", "calling", "failed"} : embed' = [embed EXCEPT ![n] = J]
            <4>1. embed[n] \in SUBSET {"waiting", "calling", "failed"}
                OBVIOUS
            <4> QED
                BY <2>1, <4>1 DEF ReadSource, SaveVector, FailEmbed
        <3>2. vector' \subseteq Neuron /\ UNCHANGED <<ladder, trigger>>
            BY <2>1 DEF ReadSource, SaveVector, FailEmbed
        <3> QED
            BY <3>1, <3>2
    <2>2. ASSUME NEW m \in Memory, SaveLadder(m)
          PROVE  JobType'
        BY <2>2 DEF SaveLadder
    <2> QED
        BY <1>9, <2>1, <2>2 DEF Handlers
<1>10. ASSUME NEW c \in Caller, JAsk(c)
       PROVE  JobType'
    BY <1>3, <1>4, <1>6, <1>7, <1>10 DEF JAsk, JSweepExpired
<1>11. CASE UNCHANGED allVars
    BY <1>4, <1>11 DEF allVars
<1> QED
    BY <1>4, <1>5, <1>8, <1>9, <1>10, <1>11 DEF JNext, JTick

\* Steps that seal, unseal, create and delete no neuron and touch no job leave
\* what is embedded as it was.
LEMMA SealingEmbedded ==
    ASSUME OpenIsEmbedded, UNCHANGED <<embed, vector>>,
           \A n \in Neuron : neuron'[n] = "kept" => neuron[n] = "kept",
           \A n \in Neuron : sealedAt'[n] = Open => sealedAt[n] = Open
    PROVE  OpenIsEmbedded'
BY DEF OpenIsEmbedded

\* A neuron dynamics can see keeps its vector or a job for it through every step.
LEMMA EmbeddedStep ==
    ASSUME Inv, CallInv, JobType, OpenIsEmbedded, [JNext]_allVars
    PROVE  OpenIsEmbedded'
<1>1. TypeOK /\ \A c \in Actors : call[c].op # "idle" => call[c].diary \in Diary
    BY DEF Inv, CallInv
<1>2. CASE UNCHANGED <<neuron, sealedAt, embed, vector>>
    BY <1>2, SealingEmbedded
<1>3. ASSUME NEW d \in Diary, NEW f \in [MemoriesOf(d) -> SUBSET Neuron],
             NEW s \in Strengths, JLaunch(d, f, s)
      PROVE  OpenIsEmbedded'
    <2> SUFFICES ASSUME NEW n \in Neuron, neuron'[n] = "kept", sealedAt'[n] = Open
                 PROVE  n \in vector' \/ embed'[n] # {}
        BY DEF OpenIsEmbedded
    <2>1. embed'[n] = (IF n \in Born THEN (embed[n] \ {"failed"}) \cup {"waiting"} ELSE embed[n])
          /\ vector' = vector /\ sealedAt' = sealedAt
        BY <1>3 DEF JLaunch, Queued, Launch
    <2>2. neuron[n] = "kept" \/ n \in Born
        <3>1. \A m \in MemoriesOf(d) : n \in f[m] => Resolvable(n)
            BY <1>3 DEF JLaunch, Launch
        <3>2. neuron'[n] = (IF \E m \in MemoriesOf(d) : n \in f[m] THEN "kept" ELSE neuron[n])
            BY <1>3 DEF JLaunch, Launch
        <3> QED
            BY <3>1, <3>2 DEF Resolvable, Born
    <2> QED
        BY <2>1, <2>2 DEF OpenIsEmbedded
<1>4. ASSUME NEW c \in Caller, JSweepExpired(c)
      PROVE  OpenIsEmbedded'
    <2>1. PICK D \in SUBSET Diary : D = Expired(call[c].at)
        BY DEF Expired
    <2>2. SweepGroups(D) /\ PurgeJobs(D)
        BY <1>4, <2>1 DEF JSweepExpired, SweepExpired, SweepGroups, PurgeJobs
    <2>3. \A d \in D : Released(d)
        BY <2>1 DEF Expired
    <2> QED
        BY <2>2, <2>3, SweepEmbedded
<1>5. ASSUME NEW w \in Worker, JSweepDue(w)
      PROVE  OpenIsEmbedded'
    <2>1. call[w].diary \in Diary /\ Released(call[w].diary)
        BY <1>1, <1>5 DEF JSweepDue, SweepDue, Found, Actors
    <2>2. PICK D \in SUBSET Diary : D = {call[w].diary}
        BY <2>1
    <2>3. SweepGroups(D) /\ PurgeJobs(D) /\ \A d \in D : Released(d)
        BY <1>5, <2>1, <2>2 DEF JSweepDue, SweepDue, SweepGroups, PurgeJobs
    <2> QED
        BY <2>3, SweepEmbedded
<1>6. ASSUME NEW c \in Caller, JReleaseDiary(c)
      PROVE  OpenIsEmbedded'
    <2>1. PICK N : sealedAt' = [n \in Neuron |-> IF n \in N THEN now ELSE sealedAt[n]]
        BY <1>6 DEF JReleaseDiary, ReleaseDiary
    <2>2. now # Open
        BY <1>1, ReleaseAssumption DEF TypeOK
    <2> QED
        BY <1>6, <2>1, <2>2, SealingEmbedded DEF JReleaseDiary, ReleaseDiary
<1>7. ASSUME NEW c \in Caller, JRestoreDiary(c)
      PROVE  OpenIsEmbedded'
    <2> DEFINE touched == Footprint(group[call[c].diary].memories)
    <2>1. /\ sealedAt' = Unseal(touched) /\ embed' = Queued(LeftOpen(touched))
          /\ UNCHANGED <<neuron, vector>>
        BY <1>7 DEF JRestoreDiary, RestoreDiary
    <2> SUFFICES ASSUME NEW n \in Neuron, neuron'[n] = "kept", sealedAt'[n] = Open
                 PROVE  n \in vector' \/ embed'[n] # {}
        BY DEF OpenIsEmbedded
    <2>2. CASE n \in touched
        BY <2>1, <2>2 DEF LeftOpen, Queued
    <2>3. CASE n \notin touched
        <3>1. sealedAt[n] = Open /\ neuron[n] = "kept"
            BY <2>1, <2>3 DEF Unseal
        <3> QED
            BY <2>1, <3>1 DEF OpenIsEmbedded, Queued
    <2> QED
        BY <2>2, <2>3
<1>8. ASSUME NEW m \in Memory, NEW approved \in SUBSET Semantic,
             LetGo(m, approved), UNCHANGED jobVars
      PROVE  OpenIsEmbedded'
    <2>1. PICK N : sealedAt' = [n \in Neuron |-> IF n \in N THEN now ELSE sealedAt[n]]
        BY <1>8 DEF LetGo
    <2>2. now # Open
        BY <1>1, ReleaseAssumption DEF TypeOK
    <2> QED
        BY <1>8, <2>1, <2>2, SealingEmbedded DEF LetGo, jobVars
<1>9. ASSUME NEW n \in Neuron, ReadSource(n) \/ SaveVector(n) \/ FailEmbed(n)
      PROVE  OpenIsEmbedded'
    BY <1>9 DEF ReadSource, SaveVector, FailEmbed, OpenIsEmbedded, JobType, vars
<1>10. CASE \E m \in Memory : SaveLadder(m)
    BY <1>2, <1>10 DEF SaveLadder, vars
<1>11. ASSUME NEW c \in Caller, JAsk(c)
       PROVE  OpenIsEmbedded'
    <2>1. CASE JSweepExpired(c) \/ JReleaseDiary(c) \/ JRestoreDiary(c)
        BY <1>4, <1>6, <1>7, <2>1
    <2>2. CASE \/ \E d \in Diary : (BeginRelease(c, d) \/ BeginRestore(c, d)) /\ UNCHANGED jobVars
               \/ (RefuseRelease(c) \/ RefuseRestore(c)) /\ UNCHANGED jobVars
        BY <1>2, <2>2 DEF BeginRelease, BeginRestore, RefuseRelease, RefuseRestore, graph, jobVars
    <2> QED
        BY <1>11, <2>1, <2>2 DEF JAsk
<1>12. ASSUME NEW w \in Worker, JSweep(w)
       PROVE  OpenIsEmbedded'
    <2>1. CASE (\E d \in Diary : JClaimDue(w, d)) \/ JNotDueYet(w) \/ JNothingDue(w)
        BY <1>2, <2>1 DEF JClaimDue, JNotDueYet, JNothingDue, ClaimDue, NotDueYet, NothingDue,
                          graph, jobVars
    <2> QED
        BY <1>5, <1>12, <2>1 DEF JSweep
<1>13. CASE JTick \/ UNCHANGED allVars
           \/ \E e \in Edge, s \in 0..Cap : Drift(e, s) /\ UNCHANGED jobVars
    BY <1>2, <1>13 DEF JTick, Tick, Drift, allVars, vars, graph, jobVars
<1> QED
    BY <1>3, <1>8, <1>9, <1>10, <1>11, <1>12, <1>13 DEF JNext, Handlers

\* Purging the jobs of swept diaries leaves the ladders of the others alone.
LEMMA SweepLadder ==
    ASSUME Inv, LadderFollowsMemory,
           NEW D \in SUBSET Diary, \A d \in D : Released(d), SweepGroups(D), PurgeJobs(D)
    PROVE  LadderFollowsMemory'
<1> SUFFICES ASSUME NEW m \in Memory
             PROVE  /\ mem'[m] = "released" => ladder'[m] \in {"cancelled", "over"}
                    /\ mem'[m] = "live" => ladder'[m] \in {"active", "over"}
    BY DEF LadderFollowsMemory
<1> DEFINE swept == m \in UNION {group[d].memories : d \in D}
<1>1. mem'[m] = (IF swept /\ mem[m] = "released" THEN "swept" ELSE mem[m])
    BY DEF SweepGroups
<1>2. ladder'[m] = (IF swept THEN "none" ELSE ladder[m])
    BY DEF PurgeJobs
<1>3. swept => mem[m] = "released"
    BY ReleaseAssumption DEF Inv, FateInv, ReleasedTogether
<1> QED
    BY <1>1, <1>2, <1>3 DEF LadderFollowsMemory

\* Every step leaves a memory the semanticize job its fate calls for.
LEMMA LadderStep ==
    ASSUME Inv, CallInv, JobType, LadderFollowsMemory, [JNext]_allVars
    PROVE  LadderFollowsMemory'
<1>1. TypeOK /\ \A c \in Actors : call[c].op # "idle" => call[c].diary \in Diary
    BY DEF Inv, CallInv
<1>2. CASE UNCHANGED <<mem, ladder>>
    BY <1>2 DEF LadderFollowsMemory
<1>3. ASSUME NEW d \in Diary, NEW f, NEW s, JLaunch(d, f, s)
      PROVE  LadderFollowsMemory'
    <2>1. /\ mem' = [m \in Memory |-> IF DiaryOf[m] = d THEN "live" ELSE mem[m]]
          /\ ladder' = [m \in Memory |-> IF DiaryOf[m] = d THEN "active" ELSE ladder[m]]
        BY <1>3 DEF JLaunch, Launch
    <2> QED
        BY <2>1 DEF LadderFollowsMemory
<1>4. ASSUME NEW c \in Caller, JSweepExpired(c)
      PROVE  LadderFollowsMemory'
    <2>1. PICK D \in SUBSET Diary : D = Expired(call[c].at)
        BY DEF Expired
    <2>2. SweepGroups(D) /\ PurgeJobs(D)
        BY <1>4, <2>1 DEF JSweepExpired, SweepExpired, SweepGroups, PurgeJobs
    <2>3. \A d \in D : Released(d)
        BY <2>1 DEF Expired
    <2> QED
        BY <2>2, <2>3, SweepLadder
<1>5. ASSUME NEW w \in Worker, JSweepDue(w)
      PROVE  LadderFollowsMemory'
    <2>1. call[w].diary \in Diary /\ Released(call[w].diary)
        BY <1>1, <1>5 DEF JSweepDue, SweepDue, Found, Actors
    <2>2. PICK D \in SUBSET Diary : D = {call[w].diary}
        BY <2>1
    <2>3. SweepGroups(D) /\ PurgeJobs(D) /\ \A d \in D : Released(d)
        BY <1>5, <2>1, <2>2 DEF JSweepDue, SweepDue, SweepGroups, PurgeJobs
    <2> QED
        BY <2>3, SweepLadder
<1>6. ASSUME NEW c \in Caller, JReleaseDiary(c)
      PROVE  LadderFollowsMemory'
    <2> DEFINE gone == LiveOf(call[c].diary)
    <2>1. /\ mem' = [m \in Memory |-> IF m \in gone THEN "released" ELSE mem[m]]
          /\ ladder' = Cancelled(gone)
        BY <1>6 DEF JReleaseDiary, ReleaseDiary
    <2>2. \A m \in gone : mem[m] = "live"
        BY DEF LiveOf
    <2> QED
        BY <2>1, <2>2 DEF LadderFollowsMemory, Cancelled
<1>7. ASSUME NEW c \in Caller, JRestoreDiary(c)
      PROVE  LadderFollowsMemory'
    <2> DEFINE back == group[call[c].diary].memories
    <2>1. /\ mem' = [m \in Memory |-> IF m \in back /\ mem[m] = "released" THEN "live" ELSE mem[m]]
          /\ ladder' = Revived(back)
          /\ call[c].op = "restore" /\ Released(call[c].diary)
        BY <1>7 DEF JRestoreDiary, RestoreDiary
    <2>2. back = MemoriesOf(call[c].diary)
        BY <1>1, <2>1 DEF Inv, FateInv, Actors
    <2>3. \A m \in back : mem[m] = "released"
        BY <1>1, <2>1, <2>2 DEF Inv, FateInv, ReleasedTogether
    <2> QED
        BY <2>1, <2>3 DEF LadderFollowsMemory, Revived
<1>8. CASE Handlers
    BY <1>8 DEF Handlers, ReadSource, SaveVector, FailEmbed, SaveLadder, LadderFollowsMemory,
                JobType, vars
<1>9. ASSUME NEW c \in Caller, JAsk(c)
      PROVE  LadderFollowsMemory'
    <2>1. CASE JSweepExpired(c) \/ JReleaseDiary(c) \/ JRestoreDiary(c)
        BY <1>4, <1>6, <1>7, <2>1
    <2>2. CASE \/ \E d \in Diary : (BeginRelease(c, d) \/ BeginRestore(c, d)) /\ UNCHANGED jobVars
               \/ (RefuseRelease(c) \/ RefuseRestore(c)) /\ UNCHANGED jobVars
        BY <1>2, <2>2 DEF BeginRelease, BeginRestore, RefuseRelease, RefuseRestore, graph, jobVars
    <2> QED
        BY <1>9, <2>1, <2>2 DEF JAsk
<1>10. ASSUME NEW w \in Worker, JSweep(w)
       PROVE  LadderFollowsMemory'
    <2>1. CASE (\E d \in Diary : JClaimDue(w, d)) \/ JNotDueYet(w) \/ JNothingDue(w)
        BY <1>2, <2>1 DEF JClaimDue, JNotDueYet, JNothingDue, ClaimDue, NotDueYet, NothingDue,
                          graph, jobVars
    <2> QED
        BY <1>5, <1>10, <2>1 DEF JSweep
<1>11. CASE \/ JTick \/ UNCHANGED allVars
            \/ \E e \in Edge, s \in 0..Cap : Drift(e, s) /\ UNCHANGED jobVars
            \/ \E m \in Memory, approved \in SUBSET Semantic :
                   LetGo(m, approved) /\ UNCHANGED jobVars
    BY <1>2, <1>11 DEF JTick, Tick, Drift, LetGo, allVars, vars, graph, jobVars
<1> QED
    BY <1>3, <1>8, <1>9, <1>10, <1>11 DEF JNext

\* What a step may do to the releases and to the jobs that will sweep them: it
\* ends some with their jobs, one begins under a new id, a worker claims one,
\* or a worker lets go of a job that has no release any more.
TriggerMoves ==
    \/ \E D \in SUBSET Diary :
          /\ \A d \in Diary : /\ Released(d)' <=> Released(d) /\ d \notin D
                              /\ Released(d)' => group'[d].id = group[d].id
          /\ trigger' = trigger \ {group[d].id : d \in D}
          /\ \A d \in D : Released(d)
          /\ made' = made
          /\ \A c \in Actors : call'[c].op = "due" => call'[c] = call[c]
    \/ \E e \in Diary :
          /\ \A d \in Diary : /\ Released(d)' <=> Released(d) \/ d = e
                              /\ Released(d)' => group'[d].id = IF d = e THEN made + 1
                                                                         ELSE group[d].id
          /\ trigger' = trigger \cup {made'}
          /\ made' = made + 1
          /\ \A c \in Actors : call'[c].op = "due" => call'[c] = call[c]
    \/ \E w \in Actors :
          /\ UNCHANGED <<group, made, trigger>>
          /\ \A c \in Actors \ {w} : call'[c] = call[c]
          /\ call'[w].op = "due" => /\ Released(call'[w].diary) /\ call'[w].diary \in Diary
                                    /\ call'[w].id = group[call'[w].diary].id
    \/ \E w \in Actors :
          /\ UNCHANGED <<group, made>>
          /\ trigger' = trigger \ {call[w].id}
          /\ call[w].op = "due"
          /\ ~Found(w)
          /\ \A c \in Actors : call'[c].op = "due" => call'[c] = call[c]

\* Such a move forgets no release and hands no id out twice.
LEMMA TriggerKept ==
    ASSUME TypeOK, NoneForgotten, OwnIds, TriggerMoves, TypeOK'
    PROVE  NoneForgotten' /\ OwnIds'
<1> USE DEF NoneForgotten, OwnIds
<1>1. /\ made \in Nat
      /\ \A d \in Diary : Released(d) => group[d].id \in Nat
      /\ \A c \in Actors : call[c].id \in Nat
    BY GroupFields DEF TypeOK, Call
<1>2. ASSUME NEW D \in SUBSET Diary,
             \A d \in Diary : /\ Released(d)' <=> Released(d) /\ d \notin D
                              /\ Released(d)' => group'[d].id = group[d].id,
             trigger' = trigger \ {group[d].id : d \in D},
             \A d \in D : Released(d),
             made' = made,
             \A c \in Actors : call'[c].op = "due" => call'[c] = call[c]
      PROVE  NoneForgotten' /\ OwnIds'
    <2>1. NoneForgotten'
        BY <1>2
    <2>2. OwnIds'
        BY <1>2
    <2> QED
        BY <2>1, <2>2
<1>3. ASSUME NEW e \in Diary,
             \A d \in Diary : /\ Released(d)' <=> Released(d) \/ d = e
                              /\ Released(d)' => group'[d].id = IF d = e THEN made + 1
                                                                         ELSE group[d].id,
             trigger' = trigger \cup {made'},
             made' = made + 1,
             \A c \in Actors : call'[c].op = "due" => call'[c] = call[c]
      PROVE  NoneForgotten' /\ OwnIds'
    <2>1. NoneForgotten'
        BY <1>3
    <2>2. \A d \in Diary : Released(d)' => group'[d].id <= made'
        BY <1>1, <1>3
    <2>3. \A d, k \in Diary : Released(d)' /\ Released(k)' /\ group'[d].id = group'[k].id => d = k
        <3>1. \A d \in Diary : Released(d) => group[d].id # made + 1
            BY <1>1
        <3> QED
            BY <1>3, <3>1
    <2>4. ASSUME NEW c \in Actors, call'[c].op = "due"
          PROVE  /\ call'[c].id <= made'
                 /\ \A d \in Diary : Released(d)' /\ group'[d].id = call'[c].id
                                        => d = call'[c].diary
        <3>1. call'[c] = call[c] /\ call[c].op = "due" /\ call[c].id <= made
            BY <1>3, <2>4
        <3>2. call[c].id \in Nat /\ call[c].id # made + 1
            BY <1>1, <3>1
        <3> QED
            BY <1>1, <1>3, <3>1, <3>2
    <2> QED
        BY <2>1, <2>2, <2>3, <2>4
<1>4. ASSUME NEW w \in Actors,
             UNCHANGED <<group, made, trigger>>,
             \A c \in Actors \ {w} : call'[c] = call[c],
             call'[w].op = "due" => /\ Released(call'[w].diary) /\ call'[w].diary \in Diary
                                    /\ call'[w].id = group[call'[w].diary].id
      PROVE  NoneForgotten' /\ OwnIds'
    <2>1. \A d \in Diary : Released(d)' <=> Released(d)
        BY <1>4 DEF Released
    <2>2. NoneForgotten'
        BY <1>4, <2>1
    <2>3. ASSUME NEW c \in Actors, call'[c].op = "due"
          PROVE  /\ call'[c].id <= made'
                 /\ \A d \in Diary : Released(d)' /\ group'[d].id = call'[c].id
                                        => d = call'[c].diary
        <3>1. CASE c = w
            BY <1>4, <2>1, <2>3, <3>1
        <3>2. CASE c # w
            BY <1>4, <2>1, <2>3, <3>2
        <3> QED
            BY <3>1, <3>2
    <2> QED
        BY <1>4, <2>1, <2>2, <2>3
<1>5. ASSUME NEW w \in Actors,
             UNCHANGED <<group, made>>,
             trigger' = trigger \ {call[w].id},
             call[w].op = "due",
             ~Found(w),
             \A c \in Actors : call'[c].op = "due" => call'[c] = call[c]
      PROVE  NoneForgotten' /\ OwnIds'
    <2>1. \A d \in Diary : Released(d)' <=> Released(d)
        BY <1>5 DEF Released
    <2>2. \A d \in Diary : Released(d) => group[d].id # call[w].id
        BY <1>5 DEF Found
    <2> QED
        BY <1>5, <2>1, <2>2
<1> QED
    BY <1>2, <1>3, <1>4, <1>5 DEF TriggerMoves

\* Every step moves the releases and their jobs in one of these ways.
LEMMA TriggerStep ==
    ASSUME Inv, CallInv, [JNext]_allVars
    PROVE  TriggerMoves
<1>1. /\ TypeOK
      /\ \A c \in Actors : call[c] \in Call /\ (call[c].op # "idle" => call[c].diary \in Diary)
      /\ Idle \in Call /\ Idle.op = "idle"
    BY DEF Inv, CallInv, TypeOK, Idle, Call
<1>2. ASSUME UNCHANGED <<group, made, call, trigger>>
      PROVE  TriggerMoves
    <2>1. PICK D \in SUBSET Diary : D = {}
        OBVIOUS
    <2>2. trigger' = trigger \ {group[d].id : d \in D}
        BY <1>2, <2>1
    <2> QED
        BY <1>2, <2>1, <2>2 DEF TriggerMoves, Released
<1>3. ASSUME NEW c \in Actors, NEW x \in Call, call' = [call EXCEPT ![c] = x]
      PROVE  /\ call'[c] = x
             /\ \A k \in Actors \ {c} : call'[k] = call[k]
    BY <1>1, <1>3 DEF TypeOK
<1>4. ASSUME NEW c \in Actors, NEW x \in Call, call' = [call EXCEPT ![c] = x], x.op # "due",
             UNCHANGED <<group, made, trigger>>
      PROVE  TriggerMoves
    <2>1. (\A k \in Actors \ {c} : call'[k] = call[k]) /\ call'[c].op # "due"
        BY <1>3, <1>4
    <2> QED
        BY <1>4, <2>1 DEF TriggerMoves
<1>5. ASSUME NEW c \in Actors, NEW x \in Call, call' = [call EXCEPT ![c] = x], x.op # "due"
      PROVE  \A k \in Actors : call'[k].op = "due" => call'[k] = call[k]
    BY <1>3, <1>5
<1>6. ASSUME NEW D \in SUBSET Diary, SweepGroups(D), PurgeJobs(D), \A d \in D : Released(d),
             NEW c \in Actors, NEW x \in Call, call' = [call EXCEPT ![c] = x], x.op # "due",
             made' = made
      PROVE  TriggerMoves
    <2>1. \A d \in Diary : /\ Released(d)' <=> Released(d) /\ d \notin D
                           /\ Released(d)' => group'[d].id = group[d].id
        BY <1>1, <1>6, RetireType DEF SweepGroups, Released
    <2>2. trigger' = trigger \ {group[d].id : d \in D}
        BY <1>6 DEF PurgeJobs
    <2> QED
        BY <1>5, <1>6, <2>1, <2>2 DEF TriggerMoves
<1>7. ASSUME NEW c \in Caller, JSweepExpired(c)
      PROVE  TriggerMoves
    <2>1. PICK D \in SUBSET Diary : D = Expired(call[c].at)
        BY DEF Expired
    <2>2. SweepGroups(D) /\ PurgeJobs(D) /\ \A d \in D : Released(d)
        BY <1>7, <2>1 DEF JSweepExpired, SweepExpired, SweepGroups, PurgeJobs, Expired
    <2>3. c \in Actors /\ call[c] \in Call
        BY <1>1 DEF Actors
    <2>4. PICK x \in Call : x = [call[c] EXCEPT !.op = "release", !.at = 0] /\ x.op = "release"
        <3>1. /\ [call[c] EXCEPT !.op = "release", !.at = 0] \in Call
              /\ [call[c] EXCEPT !.op = "release", !.at = 0].op = "release"
            BY <2>3 DEF Call
        <3> QED
            BY <3>1
    <2>5. call' = [call EXCEPT ![c] = x] /\ made' = made
        BY <1>1, <1>7, <2>3, <2>4 DEF JSweepExpired, SweepExpired, TypeOK
    <2> QED
        BY <1>6, <2>2, <2>3, <2>4, <2>5
<1>8. ASSUME NEW w \in Worker, JSweepDue(w)
      PROVE  TriggerMoves
    <2>1. w \in Actors /\ call[w].diary \in Diary /\ Released(call[w].diary)
        BY <1>1, <1>8 DEF JSweepDue, SweepDue, Found, Actors
    <2>2. PICK D \in SUBSET Diary : D = {call[w].diary}
        BY <2>1
    <2>3. SweepGroups(D) /\ PurgeJobs(D) /\ \A d \in D : Released(d)
        BY <1>8, <2>1, <2>2 DEF JSweepDue, SweepDue, SweepGroups, PurgeJobs
    <2>4. call' = [call EXCEPT ![w] = Idle] /\ made' = made
        BY <1>8 DEF JSweepDue, SweepDue
    <2> QED
        BY <1>1, <1>6, <2>1, <2>3, <2>4
<1>9. ASSUME NEW c \in Caller, JReleaseDiary(c)
      PROVE  TriggerMoves
    <2>1. PICK e \in Diary : e = call[c].diary
        BY <1>1, <1>9 DEF JReleaseDiary, ReleaseDiary, Actors
    <2>2. PICK M \in SUBSET Memory, S \in SUBSET Neuron, taken \in [Edge -> Nat] :
              group' = [group EXCEPT ![e] = [id |-> made + 1, at |-> now, memories |-> M,
                                             sealed |-> S, taken |-> taken]]
        <3> DEFINE neurons == Unsealed(Footprint(LiveOf(e)))
                   shared == Shared(LiveOf(e), neurons)
        <3>1. LiveOf(e) \subseteq Memory
            BY DEF LiveOf
        <3>2. neurons \ shared \subseteq Neuron
            BY <1>1, <3>1, FootprintType DEF Unsealed
        <3>3. Taken(neurons, shared) \in [Edge -> Nat]
            BY <1>1, TakenType
        <3>4. group' = [group EXCEPT ![e] = [id |-> made + 1, at |-> now, memories |-> LiveOf(e),
                                             sealed |-> neurons \ shared,
                                             taken |-> Taken(neurons, shared)]]
            BY <1>9, <2>1 DEF JReleaseDiary, ReleaseDiary
        <3> HIDE DEF neurons, shared
        <3> QED
            BY <3>1, <3>2, <3>3, <3>4
    <2>3. PICK g \in Group : group' = [group EXCEPT ![e] = g] /\ g.id = made + 1
        <3>1. [id |-> made + 1, at |-> now, memories |-> M, sealed |-> S, taken |-> taken] \in Group
            BY <1>1 DEF Group, TypeOK
        <3> QED
            BY <2>2, <3>1
    <2>4. \A d \in Diary : /\ Released(d)' <=> Released(d) \/ d = e
                           /\ Released(d)' => group'[d].id = IF d = e THEN made + 1
                                                                      ELSE group[d].id
        <3>1. NoRelease \notin Group
            BY ReleaseAssumption DEF Group
        <3> QED
            BY <1>1, <2>3, <3>1 DEF Released, TypeOK
    <2>5. call' = [call EXCEPT ![c] = Idle] /\ made' = made + 1 /\ trigger' = trigger \cup {made'}
        BY <1>9 DEF JReleaseDiary, ReleaseDiary
    <2>6. \A k \in Actors : call'[k].op = "due" => call'[k] = call[k]
        BY <1>1, <1>5, <2>5 DEF Actors
    <2> QED
        BY <2>4, <2>5, <2>6 DEF TriggerMoves
<1>10. ASSUME NEW c \in Caller, JRestoreDiary(c)
       PROVE  TriggerMoves
    <2>1. PICK e \in Diary : e = call[c].diary
        BY <1>1, <1>10 DEF JRestoreDiary, RestoreDiary, Actors
    <2>2. PICK D \in SUBSET Diary : D = {e}
        OBVIOUS
    <2>3. /\ Released(e) /\ made' = made /\ call' = [call EXCEPT ![c] = Idle]
          /\ trigger' = trigger \ {group[e].id}
          /\ group' = [Retire(Footprint(group[e].memories)) EXCEPT ![e] = NoRelease]
        BY <1>10, <2>1 DEF JRestoreDiary, RestoreDiary
    <2>4. trigger' = trigger \ {group[d].id : d \in D}
        BY <2>2, <2>3
    <2>5. \A d \in Diary : /\ Released(d)' <=> Released(d) /\ d \notin D
                           /\ Released(d)' => group'[d].id = group[d].id
        BY <1>1, <2>2, <2>3, RetireType DEF Released
    <2>6. \A k \in Actors : call'[k].op = "due" => call'[k] = call[k]
        BY <1>1, <1>5, <2>3 DEF Actors
    <2> QED
        BY <2>2, <2>3, <2>4, <2>5, <2>6 DEF TriggerMoves
<1>11. ASSUME NEW w \in Worker, NEW d \in Diary, JClaimDue(w, d)
       PROVE  TriggerMoves
    <2>1. /\ call' = [call EXCEPT ![w] = [op |-> "due", diary |-> d, id |-> group[d].id,
                                          at |-> now]]
          /\ Released(d) /\ UNCHANGED <<group, made, trigger>> /\ w \in Actors
        BY <1>11 DEF JClaimDue, ClaimDue, graph, jobVars, Actors
    <2>2. PICK x \in Call : x = [op |-> "due", diary |-> d, id |-> group[d].id, at |-> now]
        BY <1>1, <2>1, GroupFields DEF Call, TypeOK
    <2>3. call'[w] = x /\ \A k \in Actors \ {w} : call'[k] = call[k]
        BY <1>3, <2>1, <2>2
    <2> QED
        BY <2>1, <2>2, <2>3 DEF TriggerMoves
<1>12. ASSUME NEW w \in Worker, JNotDueYet(w)
       PROVE  TriggerMoves
    BY <1>1, <1>4, <1>12 DEF JNotDueYet, NotDueYet, graph, jobVars, Actors
<1>13. ASSUME NEW w \in Worker, JNothingDue(w)
       PROVE  TriggerMoves
    <2>1. /\ w \in Actors /\ call[w].op = "due" /\ ~Found(w)
          /\ call' = [call EXCEPT ![w] = Idle] /\ UNCHANGED <<group, made>>
          /\ trigger' = trigger \ {call[w].id}
        BY <1>13 DEF JNothingDue, NothingDue, graph, Actors
    <2>2. \A k \in Actors : call'[k].op = "due" => call'[k] = call[k]
        BY <1>1, <1>5, <2>1
    <2> QED
        BY <2>1, <2>2 DEF TriggerMoves
<1>14. ASSUME NEW c \in Caller, NEW d \in Diary, BeginRelease(c, d) \/ BeginRestore(c, d),
              UNCHANGED jobVars
       PROVE  TriggerMoves
    <2>1. PICK op \in {"sweep", "restore"} :
              call' = [call EXCEPT ![c] = [op |-> op, diary |-> d, id |-> 0, at |-> now]]
        BY <1>14 DEF BeginRelease, BeginRestore
    <2>2. PICK x \in Call : x = [op |-> op, diary |-> d, id |-> 0, at |-> now] /\ x.op # "due"
        <3>1. [op |-> op, diary |-> d, id |-> 0, at |-> now] \in Call
            BY <1>1 DEF Call, TypeOK
        <3> QED
            BY <3>1
    <2> QED
        BY <1>4, <1>14, <2>1, <2>2 DEF BeginRelease, BeginRestore, graph, jobVars, Actors
<1>15. ASSUME NEW c \in Caller, RefuseRelease(c) \/ RefuseRestore(c), UNCHANGED jobVars
       PROVE  TriggerMoves
    BY <1>1, <1>4, <1>15 DEF RefuseRelease, RefuseRestore, graph, jobVars, Actors
<1>16. CASE Handlers \/ JTick \/ UNCHANGED allVars
    BY <1>2, <1>16 DEF Handlers, ReadSource, SaveVector, FailEmbed, SaveLadder, JTick, Tick,
                       graph, allVars, vars, jobVars
<1>17. CASE \/ \E d \in Diary : \E f \in [MemoriesOf(d) -> SUBSET Neuron] : \E s \in Strengths :
                   JLaunch(d, f, s)
            \/ \E e \in Edge, s \in 0..Cap : Drift(e, s) /\ UNCHANGED jobVars
            \/ \E m \in Memory, approved \in SUBSET Semantic :
                   LetGo(m, approved) /\ UNCHANGED jobVars
    <2>1. ASSUME NEW d \in Diary, NEW f \in [MemoriesOf(d) -> SUBSET Neuron], NEW s \in Strengths,
                 JLaunch(d, f, s)
          PROVE  TriggerMoves
        BY <1>2, <2>1 DEF JLaunch, Launch
    <2>2. ASSUME NEW e \in Edge, NEW s \in 0..Cap, Drift(e, s), UNCHANGED jobVars
          PROVE  TriggerMoves
        BY <1>2, <2>2 DEF Drift, jobVars
    <2>3. ASSUME NEW m \in Memory, NEW approved \in SUBSET Semantic, LetGo(m, approved),
                 UNCHANGED jobVars
          PROVE  TriggerMoves
        BY <1>2, <2>3 DEF LetGo, jobVars
    <2> QED
        BY <1>17, <2>1, <2>2, <2>3
<1>18. ASSUME NEW c \in Caller, JAsk(c)
       PROVE  TriggerMoves
    BY <1>7, <1>9, <1>10, <1>14, <1>15, <1>18 DEF JAsk
<1>19. ASSUME NEW w \in Worker, JSweep(w)
       PROVE  TriggerMoves
    BY <1>8, <1>11, <1>12, <1>13, <1>19 DEF JSweep
<1> QED
    BY <1>16, <1>17, <1>18, <1>19 DEF JNext

JobInv ==
    /\ Inv /\ CallInv
    /\ JobType
    /\ OpenIsEmbedded
    /\ LadderFollowsMemory
    /\ NoneForgotten /\ OwnIds

\* The invariant of the graph and of its jobs together.
THEOREM JobInvariant == JSpec => []JobInv
<1>1. JInit => JobInv
    <2> SUFFICES ASSUME JInit PROVE JobInv
        OBVIOUS
    <2>1. Inv /\ CallInv
        BY InitInv DEF JInit
    <2>2. JobType
        BY DEF JInit, JobType
    <2>3. OpenIsEmbedded
        BY DEF JInit, Init, OpenIsEmbedded
    <2>4. LadderFollowsMemory
        BY DEF JInit, Init, LadderFollowsMemory
    <2>5. NoneForgotten /\ OwnIds
        BY DEF JInit, Init, NoneForgotten, OwnIds, Released, Idle
    <2> QED
        BY <2>1, <2>2, <2>3, <2>4, <2>5 DEF JobInv
<1>2. JobInv /\ [JNext]_allVars => JobInv'
    <2> SUFFICES ASSUME JobInv, [JNext]_allVars PROVE JobInv'
        OBVIOUS
    <2>1. Inv' /\ CallInv'
        BY JobStepIsStep, InvStep DEF JobInv
    <2>2. TypeOK /\ TypeOK'
        BY <2>1 DEF JobInv, Inv
    <2>3. JobType'
        BY <2>2, JobTypeStep DEF JobInv
    <2>4. OpenIsEmbedded'
        BY EmbeddedStep DEF JobInv
    <2>5. LadderFollowsMemory'
        BY LadderStep DEF JobInv
    <2>6. NoneForgotten' /\ OwnIds'
        BY <2>2, TriggerStep, TriggerKept DEF JobInv
    <2> QED
        BY <2>1, <2>3, <2>4, <2>5, <2>6 DEF JobInv
<1> QED
    BY <1>1, <1>2, PTL DEF JSpec

\* What dynamics can see of the graph is embedded or about to be, or the queue has
\* given up the embed job it was last offered; jobs that meet a sealed neuron and
\* the re-embedding a sweep drops leave no other gap.
THEOREM VisibleIsEmbedded == JSpec => []OpenIsEmbedded
<1>1. JobInv => OpenIsEmbedded
    BY DEF JobInv
<1> QED
    BY <1>1, JobInvariant, PTL

\* A released memory has no semanticize job that could still write, and a
\* restored one has back what its release cancelled.
THEOREM LadderIsOfItsMemory == JSpec => []LadderFollowsMemory
<1>1. JobInv => LadderFollowsMemory
    BY DEF JobInv
<1> QED
    BY <1>1, JobInvariant, PTL

\* Every release that stands has its sweep in the queue, although workers come
\* early, come late and finish the jobs of releases that are gone.
THEOREM ReleaseHasSweep == JSpec => []NoneForgotten
<1>1. JobInv => NoneForgotten
    BY DEF JobInv
<1> QED
    BY <1>1, JobInvariant, PTL

\* The transactions keep the promise of deletion with their jobs written too.
THEOREM PromiseKeptWithJobs == JSpec => KeepsPromise
<1>1. JInit => Init
    BY DEF JInit
<1>2. Inv /\ CallInv /\ [JNext]_allVars => [Promise!Next]_(Promise!promise)
    BY JobStepIsStep, PromiseStep
<1>3. JobInv => Inv /\ CallInv
    BY DEF JobInv
<1> QED
    BY <1>1, <1>2, <1>3, JobInvariant, PromiseInit, PTL DEF JSpec, KeepsPromise, Promise!Spec
=============================================================================
