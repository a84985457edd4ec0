------------------------ MODULE ConsolidationProofs ------------------------
(***************************************************************************)
(* Theorems about Consolidation, for any memories, links between them,     *)
(* lengths of stages, lanes, days, recalls and rewrites.                   *)
(***************************************************************************)
EXTENDS Consolidation, FiniteSetTheorems, SequenceTheorems, TLAPS

-----------------------------------------------------------------------------
(* Arithmetic *)

\* What a quotient says of its dividend.
LEMMA Quotient ==
    ASSUME NEW a \in Nat, NEW b \in Nat \ {0}
    PROVE  /\ a \div b \in Nat
           /\ (a \div b) * b <= a
           /\ a < (a \div b) * b + b
  BY SMT

\* A product grows with its factor.
LEMMA Grows ==
    ASSUME NEW a \in Int, NEW b \in Int, NEW c \in Nat, a <= b
    PROVE  a * c <= b * c
  BY SMT

\* And only with it.
LEMMA Shrinks ==
    ASSUME NEW a \in Int, NEW b \in Int, NEW c \in Nat \ {0}, a * c < b * c
    PROVE  a < b
  <1>1. CASE b <= a
    BY <1>1, Grows, SMT
  <1>. QED  BY <1>1

\* What leaves no rest is a multiple.
LEMMA Exact ==
    ASSUME NEW a \in Nat, NEW b \in Nat \ {0}, a % b = 0
    PROVE  \E k \in Nat : a = k * b
  <1>1. a = (a \div b) * b
    BY SMT
  <1>2. a \div b \in Nat
    BY Quotient
  <1>. QED  BY <1>1, <1>2

\* Multiples less than one apart are the same.
LEMMA Same ==
    ASSUME NEW a \in Int, NEW b \in Int, NEW c \in Nat \ {0}, a * c <= b * c, b * c < a * c + c
    PROVE  a = b
  <1>1. (a + 1) * c = a * c + c /\ (b + 1) * c = b * c + c /\ a * c \in Int /\ b * c \in Int
    BY SMT
  <1>2. b < a + 1
    <2>1. b * c < (a + 1) * c
      BY <1>1
    <2>. QED  BY <2>1, Shrinks
  <1>3. a < b + 1
    <2>1. a * c < (b + 1) * c
      BY <1>1
    <2>. QED  BY <2>1, Shrinks
  <1>. QED  BY <1>2, <1>3

\* A quotient reaches a number as the dividend reaches its multiple.
LEMMA QuotientReaches ==
    ASSUME NEW a \in Nat, NEW b \in Nat \ {0}, NEW q \in Nat
    PROVE  a \div b >= q <=> a >= q * b
  <1> DEFINE p == a \div b
  <1>1. p \in Nat /\ p * b <= a /\ a < p * b + b
    BY Quotient
  <1>2. ASSUME p >= q PROVE a >= q * b
    BY <1>1, <1>2, Grows
  <1>3. ASSUME a >= q * b PROVE p >= q
    <2>1. q * b < (p + 1) * b
      BY <1>1, <1>3, SMT
    <2>2. q < p + 1
      BY <1>1, <2>1, Shrinks
    <2>. QED  BY <1>1, <2>2
  <1>. QED  BY <1>2, <1>3

\* A set of natural numbers has a least one.
LEMMA Lowest ==
    ASSUME NEW S, S \subseteq Nat, S # {}
    PROVE  \E x \in S : \A y \in S : x <= y
  <1>1. PICK x \in S : \A y \in S : ~(<<y, x>> \in OpToRel(<, Nat))
    BY NatLessThanWellFounded, WFMin, Zenon
  <1>2. \A y \in S : ~(y < x)
    BY <1>1, Zenon DEF OpToRel
  <1>. QED  BY <1>2

\* Which Min returns.
LEMMA Least ==
    ASSUME NEW S, S \subseteq Nat, S # {}
    PROVE  Min(S) \in S /\ \A y \in S : Min(S) <= y
  BY Lowest DEF Min

\* A part of an interval has its greatest, which Max returns.
LEMMA Greatest ==
    ASSUME NEW a \in Int, NEW b \in Int, NEW S, S \subseteq a..b, S # {}
    PROVE  Max(S) \in S /\ \A y \in S : y <= Max(S)
  <1> DEFINE T == {b - y : y \in S}
  <1>1. T \subseteq Nat /\ T # {}
    BY SMT
  <1>2. PICK t \in T : \A u \in T : t <= u
    BY <1>1, Lowest
  <1>3. PICK x \in S : t = b - x
    OBVIOUS
  <1>4. \A y \in S : x >= y
    <2> SUFFICES ASSUME NEW y \in S PROVE x >= y
      OBVIOUS
    <2>1. b - y \in T
      OBVIOUS
    <2>2. b - x <= b - y
      BY <1>2, <1>3, <2>1
    <2>3. x \in Int /\ y \in Int
      OBVIOUS
    <2>. QED  BY <2>2, <2>3
  <1>. QED  BY <1>4 DEF Max

-----------------------------------------------------------------------------
(* The two timers *)

\* The assumption, by parts: the bounds,
LEMMA Numbers ==
    /\ MaxStage \in Nat \ {0} /\ MaxDecay \in Nat \ {0} /\ Parts \in Nat \ {0} /\ Attempts \in Nat \ {0}
    /\ MaxDay \in Nat /\ MaxRecalls \in Nat /\ MaxRewrites \in Nat
    /\ SlowDays \in Nat /\ SpeedDays \in Nat
  BY ConsolidationAssumption

\* the lengths of the stages,
LEMMA Lengths ==
    ASSUME NEW n \in 0..MaxRecalls
    PROVE  GistLength[n] \in Nat \ {0} /\ DecayLength[n] \in Nat \ {0}
  BY ConsolidationAssumption

\* and what links the memories.
LEMMA Links ==
    /\ IsFiniteSet(Memory)
    /\ \A m, n \in Memory : Shared[m, n] \in Nat /\ Shared[m, n] = Shared[n, m]
    /\ \A D \in Diaries : D \subseteq Memory
  BY ConsolidationAssumption

\* Units are counted as the days reach their length.
LEMMA Units ==
    ASSUME NEW n \in 0..MaxRecalls, NEW days \in Nat
    PROVE  /\ GistUnits(days, n) \in Nat
           /\ \A q \in Nat : GistUnits(days, n) >= q <=> days * Parts >= q * GistLength[n]
           /\ days * Parts < GistUnits(days, n) * GistLength[n] + GistLength[n]
  <1>1. GistLength[n] \in Nat \ {0} /\ Parts \in Nat
    BY Numbers, Lengths
  <1>2. days * Parts \in Nat
    BY <1>1
  <1>3. GistUnits(days, n) = (days * Parts) \div GistLength[n]
    BY DEF GistUnits, Larger
  <1>. QED  BY <1>1, <1>2, <1>3, Quotient, QuotientReaches

\* What an advance consumes: whole days no more than there are, that cover the
\* units read, exactly where a unit is whole days, and leave less than a unit.
LEMMA Consumed ==
    ASSUME NEW n \in 0..MaxRecalls, NEW days \in Nat, GistUnits(days, n) # 0
    PROVE  LET units == GistUnits(days, n)
               spent == DaysOf(units, n)
           IN  /\ spent \in 0..days
               /\ units * GistLength[n] <= spent * Parts
               /\ WholeDays(GistLength[n]) => spent * Parts = units * GistLength[n]
               /\ (days - spent) * Parts < GistLength[n]
  <1> DEFINE units == GistUnits(days, n)
             length == GistLength[n]
             enough == {d \in 0..(units * length) : GistUnits(d, n) >= units}
             spent == DaysOf(units, n)
  <1>1. length \in Nat \ {0} /\ Parts \in Nat \ {0}
    BY Numbers, Lengths
  <1>2. units \in Nat /\ days * Parts >= units * length /\ days * Parts < units * length + length
    BY Units
  <1> HIDE DEF units, length
  <1>3. units * length \in Nat
    BY <1>1, <1>2
  <1>4. units * length \in enough
    <2>1. units * length * Parts >= units * length
      BY <1>1, <1>3, SMT
    <2>2. GistUnits(units * length, n) >= units
      BY <1>2, <1>3, <2>1, Units DEF length
    <2>. QED  BY <1>3, <2>2
  <1>5. spent \in enough /\ \A d \in enough : spent <= d
    <2>1. enough \subseteq Nat /\ enough # {}
      BY <1>3, <1>4
    <2>2. spent = Min(enough)
      BY DEF DaysOf, length
    <2>. QED  BY <2>1, <2>2, Least
  <1>6. spent \in Nat /\ spent <= units * length /\ GistUnits(spent, n) >= units
    BY <1>3, <1>5
  <1> HIDE DEF spent
  <1>7. spent <= days
    <2>1. CASE days <= units * length
      <3>1. days \in enough
        BY <1>2, <1>3, <2>1 DEF units
      <3>. QED  BY <1>5, <3>1
    <2>2. CASE days > units * length
      BY <1>3, <1>6, <2>2
    <2>. QED  BY <1>3, <2>1, <2>2
  <1>8. units * length <= spent * Parts
    BY <1>2, <1>6, Units DEF length
  <1>9. spent * Parts < units * length + Parts
    <2>1. CASE spent = 0
      BY <1>1, <1>3, <2>1, SMT
    <2>2. CASE spent > 0
      <3>1. spent - 1 \notin enough
        BY <1>5, <1>6, <2>2
      <3>2. spent - 1 \in 0..(units * length) /\ spent - 1 \in Nat
        BY <1>3, <1>6, <2>2
      <3>3. GistUnits(spent - 1, n) \in Nat /\ ~(GistUnits(spent - 1, n) >= units)
        BY <3>1, <3>2, Units
      <3>4. (spent - 1) * Parts < units * length
        <4>1. ~((spent - 1) * Parts >= units * length)
          BY <1>2, <3>2, <3>3, Units DEF length
        <4>2. (spent - 1) * Parts \in Int
          BY <1>1, <3>2, SMT
        <4>. QED  BY <1>3, <4>1, <4>2
      <3>. QED  BY <1>1, <1>3, <1>6, <3>4, SMT
    <2>. QED  BY <1>6, <2>1, <2>2
  <1>10. ASSUME WholeDays(length) PROVE spent * Parts = units * length
    <2>1. PICK k \in Nat : length = k * Parts
      BY <1>1, <1>10, Exact DEF WholeDays
    <2>2. units * k \in Nat /\ units * length = (units * k) * Parts
      BY <1>1, <1>2, <2>1, SMT
    <2>3. units * k = spent
      BY <1>1, <1>6, <1>8, <1>9, <2>2, Same
    <2>. QED  BY <2>2, <2>3
  <1>11. (days - spent) * Parts < length
    <2>1. (days - spent) * Parts = days * Parts - spent * Parts
      BY <1>1, <1>6, SMT
    <2>. QED  BY <1>1, <1>2, <1>3, <1>6, <1>8, <2>1, SMT
  <1>. QED  BY <1>6, <1>7, <1>8, <1>10, <1>11 DEF units, length, spent

-----------------------------------------------------------------------------
(* The inductive invariant *)

\* The dates of a memory at the clock c.
Dated(r, c) == r.born \in 0..c /\ r.recalled \in r.born..c /\ r.anchor \in r.recalled..c

\* What its provenance records, with the rise that waits.
Recorded(r, c) ==
    /\ Len(r.history) = r.stage
    /\ \A i \in 1..r.stage :
          /\ r.ladder[i] # Blank
          /\ r.history[i].stage = i /\ r.history[i].text = r.ladder[i]
          /\ r.history[i].at \in r.born..c
          /\ i > 1 => r.history[i - 1].at <= r.history[i].at
          /\ r.pending # 0 => r.history[i].at <= r.riseAt
    /\ r.pending # 0 => r.pending > r.stage /\ r.riseAt \in r.born..c
    /\ r.pending = 0 => r.riseAt = NoDate

\* The days its stages have consumed since the stage s it had at the last
\* recall, and those that are left over: less than a stage.
Paced(r, s, c) ==
    LET risen == Reached(r) - s
        length == GistLength[r.recalls]
    IN  /\ risen >= 0
        /\ Reached(r) < MaxStage =>
              /\ risen * length <= (r.anchor - r.recalled) * Parts
              /\ WholeDays(length) => (r.anchor - r.recalled) * Parts = risen * length
              /\ (c - r.anchor) * Parts < length
        /\ Reached(r) = MaxStage => risen * length <= (c - r.recalled) * Parts

MemoryOK(r, s, c) ==
    /\ Dated(r, c)
    /\ Recorded(r, c)
    /\ Paced(r, s, c)

MemoryInv ==
    \A m \in Memory :
       /\ row[m].born = NoDate => row[m] = NewRow(NoDate)
       /\ row[m].born # NoDate => /\ MemoryOK(row[m], since[m].stage, clock)
                                  /\ since[m].at = row[m].recalled
                                  /\ active[m] <= clock

ClockInv ==
    /\ watermark # NoDate => watermark = clock
    /\ clock = NoDate => Born(row) = {}
    /\ watermark = NoDate => \A m \in Born(row) : row[m].born = clock
    /\ SleptThroughEveryAdvance

\* The jobs of a representation: never two, none for a representation to come.
Working(w, j) == lane[w] # NoJob /\ lane[w].held /\ lane[w].job.memory = j.memory /\ lane[w].job.rev = j.rev

Known(j) == row[j.memory].born # NoDate /\ j.rev <= row[j.memory].rev

JobInv ==
    /\ \A j \in waiting : j.left > 0 /\ Known(j)
    /\ \A w \in Lane : lane[w] # NoJob => Known(lane[w].job)
    /\ \A i, j \in waiting : i.memory = j.memory /\ i.rev = j.rev => i = j
    /\ \A w \in Lane, j \in waiting : ~Working(w, j)
    /\ \A v, w \in Lane : v # w /\ lane[w] # NoJob /\ lane[w].held => ~Working(v, lane[w].job)

IInv == TypeOK /\ MemoryInv /\ ClockInv /\ JobInv

-----------------------------------------------------------------------------
(* What a rise does to one memory *)

Entry == [stage : Stage, text : Revision, at : Date]

\* The provenance g adds to h one entry for each stage from low up to high.
Extended(g, h, ladder, low, high, day) ==
    /\ g \in Seq(Entry) /\ Len(g) = high
    /\ \A i \in 1..high :
          g[i] = IF i <= low THEN h[i] ELSE [stage |-> i, text |-> ladder[i], at |-> day]

\* So does publishing them.
LEMMA Appended ==
    ASSUME NEW h \in Seq(Entry), NEW ladder \in [Stage -> Revision \cup {Blank}],
           NEW low \in 0..MaxStage, NEW high \in 0..MaxStage, low <= high,
           \A i \in (low + 1)..high : ladder[i] # Blank, NEW day, low < high => day \in Date, Len(h) = low
    PROVE  Extended(h \o Published(ladder, low, high, day), h, ladder, low, high, day)
  <1> DEFINE p == Published(ladder, low, high, day)
             n == high - low
  <1>1. n \in Nat /\ low \in Nat /\ high \in Nat /\ MaxStage \in Nat
    BY Numbers
  <1>2. \A i \in 1..n : low + i \in Stage /\ ladder[low + i] \in Revision
    BY <1>1 DEF Stage
  <1>3. p \in [1..n -> Entry]
    <2>1. \A i \in 1..n : [stage |-> low + i, text |-> ladder[low + i], at |-> day] \in Entry
      BY <1>1, <1>2 DEF Entry
    <2>. QED  BY <2>1 DEF Published
  <1>4. p \in Seq(Entry) /\ Len(p) = n
    BY <1>1, <1>3
  <1>5. \A i \in 1..n : p[i] = [stage |-> low + i, text |-> ladder[low + i], at |-> day]
    BY DEF Published
  <1> HIDE DEF p
  <1>6. /\ h \o p \in Seq(Entry) /\ Len(h \o p) = Len(h) + Len(p)
        /\ \A i \in 1..(Len(h) + Len(p)) : (h \o p)[i] = IF i <= Len(h) THEN h[i] ELSE p[i - Len(h)]
    BY <1>4, ConcatProperties
  <1>7. ASSUME NEW i \in 1..high
        PROVE  (h \o p)[i] = IF i <= low THEN h[i] ELSE [stage |-> i, text |-> ladder[i], at |-> day]
    <2>1. CASE i <= low
      BY <1>1, <1>4, <1>6, <2>1
    <2>2. CASE i > low
      <3>1. i - low \in 1..n /\ low + (i - low) = i
        BY <2>2
      <3>2. (h \o p)[i] = p[i - low]
        BY <1>1, <1>4, <1>6, <2>2
      <3>3. p[i - low] = [stage |-> low + (i - low), text |-> ladder[low + (i - low)], at |-> day]
        BY <1>5, <3>1
      <3>. QED  BY <2>2, <3>1, <3>2, <3>3
    <2>3. i <= low \/ i > low
      BY <1>1
    <2>. QED  BY <2>1, <2>2, <2>3, Zenon
  <1>. QED  BY <1>1, <1>4, <1>6, <1>7 DEF p, Extended

\* A memory is well formed and reads as the days have left it.
Fine(r, s, c) == r \in Row /\ Dated(r, c) /\ Recorded(r, c) /\ Paced(r, s, c)

\* The fields of a row.
LEMMA Fields ==
    ASSUME NEW r \in Row
    PROVE  /\ r.born \in DateOrNone /\ r.anchor \in DateOrNone /\ r.riseAt \in DateOrNone
           /\ r.recalled \in DateOrNone
           /\ r.stage \in 0..MaxStage /\ r.pending \in 0..MaxStage
           /\ r.ladder \in [Stage -> Revision \cup {Blank}] /\ r.history \in Seq(Entry)
           /\ r.rev \in Revision /\ r.recalls \in 0..MaxRecalls
           /\ r.offset \in Int /\ r.decay \in 0..MaxDecay
  BY DEF Row, Entry

\* The stage reached, as a number.
LEMMA ReachedIs ==
    ASSUME NEW r \in Row, NEW c \in Date, Recorded(r, c)
    PROVE  /\ Reached(r) \in 0..MaxStage /\ r.stage \in 0..MaxStage /\ r.pending \in 0..MaxStage
           /\ Reached(r) = IF r.pending = 0 THEN r.stage ELSE r.pending
           /\ r.stage <= Reached(r)
  BY Fields, Numbers DEF Recorded, Reached, Larger

\* What can be shown of a rise.
LEMMA Shown ==
    ASSUME NEW r \in Row, NEW c \in Date, Recorded(r, c),
           NEW target \in 0..MaxStage, Reached(r) <= target
    PROVE  LET shown == Readable(r, target)
           IN  /\ shown \in r.stage..target
               /\ r.pending # 0 => shown = r.stage
               /\ \A i \in (r.stage + 1)..shown : r.ladder[i] # Blank
  <1>1. r.stage \in 0..MaxStage /\ r.stage <= target /\ MaxStage \in Nat
    BY ReachedIs, Numbers
  <1> DEFINE S == {s \in r.stage..target : \A i \in (r.stage + 1)..s : r.ladder[i] # Blank}
  <1>2. CASE r.pending # 0
    BY <1>1, <1>2 DEF Readable
  <1>3. CASE r.pending = 0
    <2>1. r.stage \in S
      BY <1>1
    <2>2. Max(S) \in S
      <3>1. r.stage \in Int /\ target \in Int /\ S \subseteq r.stage..target /\ S # {}
        BY <1>1, <2>1
      <3>. QED  BY <3>1, Greatest
    <2>. QED  BY <1>3, <2>2 DEF Readable
  <1>. QED  BY <1>2, <1>3

\* A day on which nothing rises only makes a memory older.
LEMMA StaysFine ==
    ASSUME NEW r, NEW s \in 0..MaxStage, NEW c \in Date, NEW to \in Date, c <= to, Fine(r, s, c),
           Reached(r) = MaxStage \/ GistUnits(to - r.anchor, r.recalls) = 0
    PROVE  Fine(r, s, to)
  <1>1. r \in Row /\ Dated(r, c) /\ Recorded(r, c) /\ Paced(r, s, c)
    BY DEF Fine
  <1>2. r.recalls \in 0..MaxRecalls /\ Reached(r) \in 0..MaxStage
    BY <1>1, Fields, ReachedIs
  <1>3. /\ r.born \in Int /\ r.recalled \in Int /\ r.anchor \in Int
        /\ r.born <= r.recalled /\ r.recalled <= r.anchor /\ r.anchor <= c
        /\ c \in Nat /\ to \in Nat
    BY <1>1, Numbers DEF Dated, Date
  <1>4. Dated(r, to)
    BY <1>1, <1>3 DEF Dated
  <1>5. Recorded(r, to)
    BY <1>1, <1>3 DEF Recorded
  <1>6. Reached(r) < MaxStage => (to - r.anchor) * Parts < GistLength[r.recalls]
    <2> SUFFICES ASSUME Reached(r) < MaxStage
                 PROVE  (to - r.anchor) * Parts < GistLength[r.recalls]
      OBVIOUS
    <2>1. to - r.anchor \in Nat /\ GistUnits(to - r.anchor, r.recalls) = 0
      BY <1>2, <1>3
    <2>2. (to - r.anchor) * Parts < 0 * GistLength[r.recalls] + GistLength[r.recalls]
      BY <1>2, <2>1, Units
    <2>. QED  BY <1>2, <2>2, Lengths
  <1>7. (c - r.recalled) * Parts <= (to - r.recalled) * Parts
    BY <1>3, Numbers, Grows
  <1>8. Paced(r, s, to)
    <2> DEFINE risen == Reached(r) - s
               length == GistLength[r.recalls]
    <2>1. /\ risen >= 0
          /\ Reached(r) < MaxStage =>
                /\ risen * length <= (r.anchor - r.recalled) * Parts
                /\ WholeDays(length) => (r.anchor - r.recalled) * Parts = risen * length
          /\ Reached(r) = MaxStage => risen * length <= (c - r.recalled) * Parts
      BY <1>1 DEF Paced
    <2>2. Reached(r) = MaxStage => risen * length <= (to - r.recalled) * Parts
      <3>1. risen * length \in Int
        BY <1>2, Lengths, SMT
      <3>2. (c - r.recalled) * Parts \in Int /\ (to - r.recalled) * Parts \in Int
        BY <1>3, Numbers, SMT
      <3> HIDE DEF risen, length
      <3>. QED  BY <1>7, <2>1, <3>1, <3>2
    <2>. QED  BY <1>6, <2>1, <2>2 DEF Paced
  <1>. QED  BY <1>1, <1>4, <1>5, <1>8 DEF Fine

\* A day on which it does: what is shown is in the provenance, what is not
\* waits, and the days consumed are those of the units read.
LEMMA RisesFine ==
    ASSUME NEW r, NEW s \in 0..MaxStage, NEW c \in Date, NEW to \in Date, c <= to, Fine(r, s, c),
           Reached(r) # MaxStage, GistUnits(to - r.anchor, r.recalls) # 0
    PROVE  LET q == Rise(r, to)
           IN  /\ Fine(q, s, to) /\ Reached(q) >= Reached(r)
               /\ q.born = r.born /\ q.recalled = r.recalled /\ q.recalls = r.recalls /\ q.rev = r.rev
               /\ q.offset = r.offset /\ q.decay = r.decay /\ q.ladder = r.ladder
  <1> DEFINE units == GistUnits(to - r.anchor, r.recalls)
             target == Smaller(MaxStage, Reached(r) + units)
             shown == Readable(r, target)
             spent == DaysOf(units, r.recalls)
             late == target > shown
             q == [r EXCEPT !.stage = shown,
                            !.anchor = @ + spent,
                            !.history = @ \o Published(r.ladder, r.stage, shown, to),
                            !.pending = IF late THEN target ELSE @,
                            !.riseAt = IF late /\ @ = NoDate THEN to ELSE @]
             length == GistLength[r.recalls]
  <1>1. r \in Row /\ Dated(r, c) /\ Recorded(r, c) /\ Paced(r, s, c)
    BY DEF Fine
  <1>2. /\ r.recalls \in 0..MaxRecalls /\ Reached(r) \in 0..MaxStage /\ MaxStage \in Nat
        /\ r.stage \in 0..MaxStage /\ r.pending \in 0..MaxStage /\ r.stage <= Reached(r)
        /\ Reached(r) = IF r.pending = 0 THEN r.stage ELSE r.pending
    BY <1>1, Fields, ReachedIs, Numbers
  <1>3. /\ r.born \in Int /\ r.recalled \in Int /\ r.anchor \in Int
        /\ 0 <= r.born /\ r.born <= r.recalled /\ r.recalled <= r.anchor /\ r.anchor <= c
        /\ c \in Nat /\ to \in Nat /\ MaxDay \in Nat /\ to <= MaxDay /\ to - r.anchor \in Nat
    BY <1>1, Numbers DEF Dated, Date
  <1>4. Rise(r, to) = q
    BY DEF Rise
  <1>5. /\ units \in Nat \ {0}
        /\ spent \in 0..(to - r.anchor)
        /\ units * length <= spent * Parts
        /\ WholeDays(length) => spent * Parts = units * length
        /\ (to - r.anchor - spent) * Parts < length
    BY <1>2, <1>3, Units, Consumed
  <1>6. length \in Nat \ {0} /\ Parts \in Nat \ {0}
    BY <1>2, Lengths, Numbers
  <1> HIDE DEF units, spent
  <1>7. target \in 0..MaxStage /\ Reached(r) < target /\ target <= Reached(r) + units
        /\ (target < MaxStage => target = Reached(r) + units)
    BY <1>2, <1>5 DEF Smaller
  <1> HIDE DEF target
  <1>8. /\ shown \in r.stage..target
        /\ r.pending # 0 => shown = r.stage
        /\ \A i \in (r.stage + 1)..shown : r.ladder[i] # Blank
    BY <1>1, <1>2, <1>7, Shown
  <1>9. shown \in 0..MaxStage /\ r.stage <= shown /\ shown <= target
    BY <1>2, <1>7, <1>8
  <1> HIDE DEF shown
  <1>10. /\ q.stage = shown /\ q.anchor = r.anchor + spent
         /\ q.history = r.history \o Published(r.ladder, r.stage, shown, to)
         /\ q.pending = (IF late THEN target ELSE r.pending)
         /\ q.riseAt = (IF late /\ r.riseAt = NoDate THEN to ELSE r.riseAt)
         /\ q.born = r.born /\ q.recalled = r.recalled /\ q.recalls = r.recalls /\ q.rev = r.rev
         /\ q.offset = r.offset /\ q.decay = r.decay /\ q.ladder = r.ladder
         /\ DOMAIN q = DOMAIN r
    BY <1>1 DEF Row
  <1> HIDE DEF q
  <1>11. /\ q.history \in Seq(Entry) /\ Len(q.history) = shown
         /\ \A i \in 1..shown : q.history[i] = IF i <= r.stage THEN r.history[i]
                                               ELSE [stage |-> i, text |-> r.ladder[i], at |-> to]
    <2>1. r.history \in Seq(Entry) /\ r.ladder \in [Stage -> Revision \cup {Blank}] /\ Len(r.history) = r.stage
      BY <1>1, Fields DEF Recorded
    <2> DEFINE g == r.history \o Published(r.ladder, r.stage, shown, to)
    <2>2. /\ g \in Seq(Entry) /\ Len(g) = shown
          /\ \A i \in 1..shown : g[i] = IF i <= r.stage THEN r.history[i]
                                        ELSE [stage |-> i, text |-> r.ladder[i], at |-> to]
      <3> DEFINE past == r.history
                 ladder == r.ladder
                 low == r.stage
      <3>1. /\ past \in Seq(Entry) /\ ladder \in [Stage -> Revision \cup {Blank}] /\ Len(past) = low
            /\ low \in 0..MaxStage /\ shown \in 0..MaxStage /\ low <= shown
            /\ \A i \in (low + 1)..shown : ladder[i] # Blank
        BY <1>2, <1>8, <1>9, <2>1
      <3> HIDE DEF past, ladder, low
      <3>2. Extended(past \o Published(ladder, low, shown, to), past, ladder, low, shown, to)
        BY <3>1, Appended
      <3>. QED  BY <3>2 DEF past, ladder, low, Extended
    <2> HIDE DEF g
    <2>3. q.history = g
      BY <1>10 DEF g
    <2>. QED  BY <2>2, <2>3
  <1>12. q \in Row
    <2>1. /\ q.stage \in 0..MaxStage /\ q.pending \in 0..MaxStage /\ q.history \in Seq(Entry)
          /\ q.riseAt \in DateOrNone /\ q.anchor \in DateOrNone
      <3>1. r.anchor + spent \in DateOrNone
        BY <1>3, <1>5 DEF DateOrNone, Date
      <3>2. r.riseAt \in DateOrNone /\ to \in DateOrNone
        BY <1>1, Fields DEF DateOrNone
      <3>. QED  BY <1>2, <1>7, <1>9, <1>10, <1>11, <3>1, <3>2
    <2>. QED  BY <1>1, <2>1 DEF q, Row, Entry
  <1>13. Reached(q) = target
    <2>1. CASE late
      BY <1>2, <1>7, <1>9, <1>10, <2>1 DEF Reached, Larger
    <2>2. CASE ~late
      <3>1. shown = target
        BY <1>2, <1>7, <1>9, <2>2
      <3>2. r.pending = 0
        BY <1>2, <1>7, <1>8, <3>1
      <3>. QED  BY <1>2, <1>7, <1>10, <2>2, <3>1, <3>2 DEF Reached, Larger
    <2>. QED  BY <2>1, <2>2
  <1>14. Dated(q, to)
    <2>1. q.born \in 0..to /\ q.recalled \in q.born..to
      BY <1>3, <1>10
    <2>2. r.anchor + spent \in r.recalled..to
      BY <1>3, <1>5
    <2>. QED  BY <1>10, <2>1, <2>2 DEF Dated
  <1>15. Recorded(q, to)
    <2>1. Len(q.history) = q.stage
      BY <1>10, <1>11
    <2>2. /\ q.pending # 0 => q.pending > q.stage /\ q.riseAt \in q.born..to
          /\ q.pending = 0 => q.riseAt = NoDate
          /\ q.pending # 0 /\ r.pending = 0 => q.riseAt = to
          /\ r.pending # 0 => q.riseAt = r.riseAt /\ r.riseAt # NoDate
      <3>1. /\ r.pending # 0 => r.pending > r.stage /\ r.riseAt \in r.born..c
            /\ r.pending = 0 => r.riseAt = NoDate
        BY <1>1 DEF Recorded
      <3>2. r.pending # 0 => r.riseAt # NoDate /\ r.riseAt \in r.born..to
        BY <1>3, <3>1 DEF NoDate
      <3>3. r.pending # 0 => late
        BY <1>2, <1>7, <1>8, <3>1
      <3>4. r.pending = 0 => r.riseAt = NoDate
        BY <3>1
      <3>5. CASE late
        <4>1. q.pending = target /\ target > shown /\ q.stage = shown /\ q.pending # 0
          BY <1>2, <1>7, <1>9, <1>10, <3>5
        <4>2. q.riseAt = IF r.riseAt = NoDate THEN to ELSE r.riseAt
          BY <1>10, <3>5
        <4>3. to \in r.born..to /\ q.born = r.born
          BY <1>3, <1>10
        <4>. QED  BY <3>2, <3>4, <4>1, <4>2, <4>3
      <3>6. CASE ~late
        <4>1. r.pending = 0 /\ q.pending = 0 /\ q.riseAt = r.riseAt
          BY <1>10, <3>3, <3>6
        <4>. QED  BY <3>4, <4>1
      <3>. QED  BY <3>5, <3>6
    <2>3. ASSUME NEW i \in 1..q.stage
          PROVE  /\ q.ladder[i] # Blank
                 /\ q.history[i].stage = i /\ q.history[i].text = q.ladder[i]
                 /\ q.history[i].at \in q.born..to
                 /\ i > 1 => q.history[i - 1].at <= q.history[i].at
                 /\ q.pending # 0 => q.history[i].at <= q.riseAt
      <3>1. i \in 1..shown /\ i \in Int
        BY <1>9, <1>10
      <3>2. CASE i <= r.stage
        <4>1. i \in 1..r.stage
          BY <1>2, <3>1, <3>2
        <4>2. /\ r.ladder[i] # Blank
              /\ r.history[i].stage = i /\ r.history[i].text = r.ladder[i]
              /\ r.history[i].at \in r.born..c
              /\ i > 1 => r.history[i - 1].at <= r.history[i].at
              /\ r.pending # 0 => r.history[i].at <= r.riseAt
          BY <1>1, <4>1 DEF Recorded
        <4>3. q.history[i] = r.history[i]
          BY <1>11, <3>1, <3>2
        <4>4. i > 1 => q.history[i - 1] = r.history[i - 1]
          <5> SUFFICES ASSUME i > 1 PROVE q.history[i - 1] = r.history[i - 1]
            OBVIOUS
          <5>1. i - 1 \in 1..shown /\ i - 1 <= r.stage
            BY <1>2, <1>9, <3>1, <3>2
          <5>. QED  BY <1>11, <5>1
        <4>5. r.history[i].at \in r.born..to /\ r.history[i].at <= to
          BY <1>3, <4>2
        <4>. QED  BY <1>10, <2>2, <4>2, <4>3, <4>4, <4>5
      <3>3. CASE i > r.stage
        <4>1. q.history[i] = [stage |-> i, text |-> r.ladder[i], at |-> to]
          BY <1>2, <1>11, <3>1, <3>3
        <4>2. i \in (r.stage + 1)..shown
          BY <1>2, <1>9, <3>1, <3>3
        <4>3. r.ladder[i] # Blank
          BY <1>8, <4>2
        <4>4. r.pending = 0
          BY <1>2, <1>8, <1>9, <4>2
        <4>5. to \in r.born..to
          BY <1>3
        <4>6. i > 1 => q.history[i - 1].at <= to
          <5> SUFFICES ASSUME i > 1 PROVE q.history[i - 1].at <= to
            OBVIOUS
          <5>1. i - 1 \in 1..shown
            BY <1>9, <3>1
          <5>2. CASE i - 1 <= r.stage
            <6>1. i - 1 \in 1..r.stage
              BY <1>2, <5>1, <5>2
            <6>2. r.history[i - 1].at \in r.born..c
              BY <1>1, <6>1 DEF Recorded
            <6>3. q.history[i - 1] = r.history[i - 1]
              BY <1>11, <5>1, <5>2
            <6>. QED  BY <1>3, <6>2, <6>3
          <5>3. CASE ~(i - 1 <= r.stage)
            <6>1. q.history[i - 1] = [stage |-> i - 1, text |-> r.ladder[i - 1], at |-> to]
              BY <1>11, <5>1, <5>3
            <6>. QED  BY <1>3, <6>1
          <5>. QED  BY <5>2, <5>3
        <4>7. q.history[i].stage = i /\ q.history[i].text = r.ladder[i] /\ q.history[i].at = to
          BY <4>1
        <4>8. q.pending # 0 => q.riseAt = to
          BY <2>2, <4>4
        <4>9. q.pending # 0 => q.history[i].at <= q.riseAt
          BY <1>3, <4>7, <4>8
        <4>. QED  BY <1>10, <4>3, <4>5, <4>6, <4>7, <4>9
      <3>. QED  BY <1>2, <3>1, <3>2, <3>3
    <2>. QED  BY <2>1, <2>2, <2>3 DEF Recorded
  <1>16. Paced(q, s, to)
    <2> DEFINE old == Reached(r) - s
               risen == target - s
               had == r.anchor - r.recalled
    <2>1. /\ old >= 0 /\ old \in Int
          /\ old * length <= had * Parts
          /\ WholeDays(length) => had * Parts = old * length
      <3>1. Reached(r) < MaxStage
        BY <1>2
      <3>. QED  BY <1>1, <1>2, <3>1 DEF Paced
    <2>2. risen \in Nat /\ risen <= old + units /\ (target < MaxStage => risen = old + units) /\ had \in Nat
          /\ q.anchor - q.recalled = had + spent /\ spent \in Nat
      <3>1. units \in Nat /\ spent \in Nat /\ Reached(r) \in Nat /\ s \in Nat /\ target \in Nat
        BY <1>2, <1>3, <1>5, <1>7
      <3>2. old >= 0
        BY <2>1
      <3>3. q.anchor = r.anchor + spent /\ q.recalled = r.recalled
        BY <1>10
      <3>. QED  BY <1>3, <1>7, <3>1, <3>2, <3>3
    <2> HIDE DEF old, risen, had
    <2>3. /\ (old + units) * length = old * length + units * length
          /\ (had + spent) * Parts = had * Parts + spent * Parts
          /\ old * length \in Int /\ units * length \in Int /\ had * Parts \in Int /\ spent * Parts \in Int
      BY <1>5, <1>6, <2>1, <2>2, SMT
    <2>4. (old + units) * length <= (had + spent) * Parts
      BY <1>5, <2>1, <2>3
    <2>5. WholeDays(length) => (had + spent) * Parts = (old + units) * length
      BY <1>5, <2>1, <2>3
    <2>6. target < MaxStage =>
             /\ risen * length <= (q.anchor - q.recalled) * Parts
             /\ WholeDays(length) => (q.anchor - q.recalled) * Parts = risen * length
             /\ (to - q.anchor) * Parts < length
      <3>1. to - q.anchor = to - r.anchor - spent
        BY <1>3, <1>10, <2>2
      <3>. QED  BY <1>5, <2>2, <2>4, <2>5, <3>1
    <2>7. risen * length <= (to - q.recalled) * Parts
      <3>1. risen * length <= (old + units) * length
        BY <1>5, <1>6, <2>1, <2>2, Grows
      <3>2. (had + spent) * Parts <= (to - q.recalled) * Parts
        <4>1. had + spent <= to - q.recalled /\ had + spent \in Int /\ to - q.recalled \in Int
          <5>1. spent \in Nat /\ spent <= to - r.anchor /\ q.recalled = r.recalled
            BY <1>3, <1>5, <1>10
          <5>. QED  BY <1>3, <5>1 DEF had
        <4>. QED  BY <1>6, <4>1, Grows
      <3>3. risen * length \in Int /\ (old + units) * length \in Int
            /\ (had + spent) * Parts \in Int /\ (to - q.recalled) * Parts \in Int
        <4>1. old + units \in Int /\ had + spent \in Int /\ to - q.recalled \in Int /\ risen \in Int
              /\ length \in Int /\ Parts \in Int
          <5>1. units \in Int /\ spent \in Int /\ q.recalled = r.recalled /\ length \in Int /\ Parts \in Int
            BY <1>5, <1>6, <1>10, SMT
          <5>2. old \in Int /\ had \in Int /\ risen \in Int
            BY <2>1, <2>2
          <5> HIDE DEF length
          <5>. QED  BY <1>3, <5>1, <5>2
        <4>. QED  BY <4>1, SMT
      <3>. QED  BY <2>4, <3>1, <3>2, <3>3
    <2>8. Reached(q) - s = risen /\ GistLength[q.recalls] = length
      BY <1>10, <1>13 DEF risen
    <2>. QED  BY <1>13, <2>2, <2>6, <2>7, <2>8 DEF Paced
  <1>. QED  BY <1>2, <1>4, <1>7, <1>10, <1>12, <1>13, <1>14, <1>15, <1>16 DEF Fine

\* What a rise leaves of a memory.
Kept(q, r) ==
    /\ q.born = r.born /\ q.recalled = r.recalled /\ q.recalls = r.recalls /\ q.rev = r.rev
    /\ q.offset = r.offset /\ q.ladder = r.ladder /\ Reached(q) >= Reached(r)

LEMMA RiseFine ==
    ASSUME NEW r, NEW s \in 0..MaxStage, NEW c \in Date, NEW to \in Date, c <= to, Fine(r, s, c)
    PROVE  Fine(Rise(r, to), s, to) /\ Kept(Rise(r, to), r) /\ Rise(r, to).decay = r.decay
  <1>1. CASE Reached(r) = MaxStage \/ GistUnits(to - r.anchor, r.recalls) = 0
    <2>1. Rise(r, to) = r
      BY <1>1 DEF Rise
    <2>2. Fine(r, s, to)
      BY <1>1, StaysFine
    <2>3. Reached(r) \in 0..MaxStage /\ MaxStage \in Nat
      BY ReachedIs, Numbers DEF Fine
    <2>. QED  BY <2>1, <2>2, <2>3 DEF Kept
  <1>2. CASE Reached(r) # MaxStage /\ GistUnits(to - r.anchor, r.recalls) # 0
    BY <1>2, RisesFine DEF Kept
  <1>. QED  BY <1>1, <1>2

\* What a gist does not read.
LEMMA Unread ==
    ASSUME NEW r, NEW s, NEW c, Fine(r, s, c), NEW q \in Row,
           q.born = r.born, q.recalled = r.recalled, q.anchor = r.anchor, q.recalls = r.recalls,
           q.stage = r.stage, q.pending = r.pending, q.riseAt = r.riseAt,
           q.ladder = r.ladder, q.history = r.history
    PROVE  Fine(q, s, c) /\ Reached(q) = Reached(r)
  <1>1. Reached(q) = Reached(r)
    BY DEF Reached
  <1>2. Dated(q, c)
    BY DEF Fine, Dated
  <1>3. Recorded(q, c)
    BY DEF Fine, Recorded
  <1>4. Paced(q, s, c)
    BY <1>1 DEF Fine, Paced
  <1>. QED  BY <1>1, <1>2, <1>3, <1>4 DEF Fine

\* The forgetting stage is one.
LEMMA DecayStageIs ==
    ASSUME NEW r \in Row, NEW day \in Date
    PROVE  DecayStage(r, day) \in 0..MaxDecay
  <1> DEFINE length == DecayLength[r.recalls]
             days == Elapsed(r, day)
  <1>1. length \in Nat \ {0} /\ Parts \in Nat /\ MaxDecay \in Nat
    BY Fields, Lengths, Numbers
  <1>2. days \in Nat
    <2>1. r.recalled \in Int /\ r.offset \in Int /\ day \in Int
      BY Fields DEF DateOrNone, NoDate, Date
    <2>. QED  BY <2>1 DEF Elapsed, Larger
  <1> HIDE DEF length, days
  <1>3. days * Parts \in Nat
    BY <1>1, <1>2
  <1>4. (days * Parts) \div length \in Nat
    BY <1>1, <1>3, Quotient
  <1>. QED  BY <1>1, <1>4 DEF DecayStage, Smaller, length, days

\* The stage up to which the texts of the word loss are stored after the days
\* from one date to another.
Eroded(r, from, to) ==
    IF DecayStage(r, to) > DecayStage(r, from) THEN Larger(r.decay, DecayStage(r, to)) ELSE r.decay

\* No days leave it as it was.
LEMMA NoDays ==
    ASSUME NEW r \in Row, NEW day \in Date
    PROVE  Eroded(r, day, day) = r.decay
  <1>1. DecayStage(r, day) \in Int
    BY DecayStageIs
  <1>. QED  BY <1>1 DEF Eroded

\* An advance changes that, and nothing else.
LEMMA ErodeFades ==
    ASSUME NEW r \in Row, NEW from \in Date, NEW to \in Date
    PROVE  LET q == Erode(r, from, to)
           IN  /\ q \in Row /\ Kept(q, r)
               /\ \A s, c : Fine(r, s, c) => Fine(q, s, c)
               /\ q.decay = Eroded(r, from, to)
  <1> DEFINE a == DecayStage(r, from)
             b == DecayStage(r, to)
             x == IF b > a THEN Larger(r.decay, b) ELSE r.decay
             q == [r EXCEPT !.decay = x]
  <1>1. Erode(r, from, to) = q
    BY DEF Erode
  <1>2. a \in 0..MaxDecay /\ b \in 0..MaxDecay /\ r.decay \in 0..MaxDecay /\ MaxDecay \in Nat
    BY DecayStageIs, Fields, Numbers
  <1> HIDE DEF a, b
  <1>3. x \in 0..MaxDecay
    BY <1>2 DEF Larger
  <1>4. /\ q \in Row /\ q.decay = x
        /\ q.born = r.born /\ q.recalled = r.recalled /\ q.anchor = r.anchor /\ q.recalls = r.recalls
        /\ q.stage = r.stage /\ q.pending = r.pending /\ q.riseAt = r.riseAt
        /\ q.ladder = r.ladder /\ q.history = r.history /\ q.rev = r.rev /\ q.offset = r.offset
    BY <1>3 DEF Row
  <1> HIDE DEF q
  <1>5. Kept(q, r)
    <2>1. Reached(q) = Reached(r)
      BY <1>4 DEF Reached
    <2>2. Reached(r) \in Int
      BY Fields, Numbers DEF Reached, Larger
    <2>. QED  BY <1>4, <2>1, <2>2 DEF Kept
  <1>6. ASSUME NEW s, NEW c, Fine(r, s, c) PROVE Fine(q, s, c)
    BY <1>4, <1>6, Unread
  <1>7. q.decay = Eroded(r, from, to)
    BY <1>4 DEF Eroded, a, b
  <1>. QED  BY <1>1, <1>4, <1>5, <1>6, <1>7

\* The whole of what a sleep does to one memory.
LEMMA SleepsFine ==
    ASSUME NEW r, NEW s \in 0..MaxStage, NEW c \in Date, NEW to \in Date, c <= to, Fine(r, s, c),
           NEW from \in Date
    PROVE  LET q == Erode(Rise(r, to), from, to)
           IN  /\ Fine(q, s, to) /\ Kept(q, r)
               /\ q.decay = Eroded(r, from, to)
  <1> DEFINE p == Rise(r, to)
             q == Erode(p, from, to)
  <1>1. Fine(p, s, to) /\ Kept(p, r) /\ p.decay = r.decay
    BY RiseFine
  <1>2. p \in Row /\ r \in Row
    BY <1>1 DEF Fine
  <1> HIDE DEF p
  <1>3. Fine(q, s, to) /\ Kept(q, p) /\ q.decay = Eroded(p, from, to) /\ q \in Row
    BY <1>1, <1>2, ErodeFades
  <1> HIDE DEF q
  <1>4. Kept(q, r)
    <2>1. Reached(p) \in Int /\ Reached(q) \in Int /\ Reached(r) \in Int
      BY <1>2, <1>3, Fields, Numbers DEF Reached, Larger
    <2>. QED  BY <1>1, <1>3, <2>1 DEF Kept
  <1>5. Eroded(p, from, to) = Eroded(r, from, to)
    BY <1>1 DEF Eroded, Kept, DecayStage, Elapsed
  <1>. QED  BY <1>3, <1>4, <1>5 DEF p, q

-----------------------------------------------------------------------------
(* What an advance does to the universe *)

\* What an advance to the date to can find: the memories as they are, and
\* memories of that date.
Enters(rows, to) ==
    /\ rows \in [Memory -> Row]
    /\ \A m \in Memory : \/ rows[m] = row[m]
                         \/ row[m].born = NoDate /\ rows[m] = NewRow(to) /\ to >= clock

LEMMA Clocks ==
    ASSUME TypeOK, ClockInv, NEW to \in Date
    PROVE  /\ Larger(clock, to) \in Date /\ clock <= Larger(clock, to) /\ to <= Larger(clock, to)
           /\ Larger(clock, to) = clock \/ Larger(clock, to) = to
           /\ Sleeps(to) => clock \in Date /\ clock < to /\ Larger(clock, to) = to /\ From = clock
           /\ ~Sleeps(to) => Larger(clock, to) = clock \/ (clock = NoDate /\ Born(row) = {})
           /\ ~Sleeps(to) /\ watermark # NoDate => Larger(clock, to) = clock
  <1>1. clock \in DateOrNone /\ (watermark # NoDate => watermark = clock) /\ (clock = NoDate => Born(row) = {})
    BY DEF TypeOK, ClockInv
  <1>2. MaxDay \in Nat
    BY Numbers
  <1>. QED  BY <1>1, <1>2 DEF Larger, Sleeps, From, DateOrNone, Date, NoDate

\* A memory of today.
LEMMA NewbornFine ==
    ASSUME NEW day \in Date
    PROVE  /\ NewRow(day) \in Row /\ Fine(NewRow(day), 0, day)
           /\ NewRow(NoDate) \in Row
  <1> DEFINE r == NewRow(day)
  <1>1. /\ MaxStage \in Nat \ {0} /\ MaxDecay \in Nat /\ MaxRecalls \in Nat /\ MaxRewrites \in Nat
        /\ Parts \in Nat \ {0} /\ MaxDay \in Nat /\ day \in Nat
    BY Numbers DEF Date
  <1>2. ASSUME NEW d \in DateOrNone PROVE NewRow(d) \in Row
    <2>1. <<>> \in Seq([stage : Stage, text : Revision, at : Date])
      OBVIOUS
    <2>2. 1 \in Revision
      BY <1>1 DEF Revision
    <2>3. [s \in Stage |-> Blank] \in [Stage -> Revision \cup {Blank}]
      OBVIOUS
    <2>. QED  BY <1>1, <1>2, <2>1, <2>2, <2>3 DEF NewRow, Row, DateOrNone, NoDate
  <1>3. r \in Row /\ NewRow(NoDate) \in Row
    BY <1>2 DEF DateOrNone
  <1>4. /\ r.born = day /\ r.recalled = day /\ r.anchor = day /\ r.recalls = 0 /\ r.stage = 0 /\ r.pending = 0
        /\ r.riseAt = NoDate /\ r.history = <<>> /\ r.offset = 0 /\ r.decay = 0
    BY DEF NewRow
  <1> HIDE DEF r
  <1>5. Reached(r) = 0
    BY <1>4 DEF Reached, Larger
  <1>6. Dated(r, day)
    BY <1>1, <1>4 DEF Dated
  <1>7. Recorded(r, day)
    BY <1>4 DEF Recorded
  <1>8. Paced(r, 0, day)
    <2>1. GistLength[0] \in Nat \ {0}
      BY <1>1, Lengths
    <2>. QED  BY <1>1, <1>4, <1>5, <2>1 DEF Paced
  <1>. QED  BY <1>3, <1>6, <1>7, <1>8 DEF Fine, r

\* Every memory is well formed after an advance, at the clock it leaves.
LEMMA Woken ==
    ASSUME TypeOK, MemoryInv, ClockInv, NEW to \in Date, NEW rows, Enters(rows, to), NEW m \in Born(rows)
    PROVE  LET q == Consolidated(rows, to)[m]
               s == IF row[m].born # NoDate THEN since[m].stage ELSE 0
           IN  /\ q \in Row /\ MemoryOK(q, s, Larger(clock, to)) /\ Kept(q, rows[m])
               /\ m \in Born(row) => q.decay = Eroded(row[m], clock, Larger(clock, to))
  <1> DEFINE r == rows[m]
             s == IF row[m].born # NoDate THEN since[m].stage ELSE 0
             c == IF row[m].born # NoDate THEN clock ELSE to
             day == Larger(clock, to)
             q == Consolidated(rows, to)[m]
  <1>1. m \in Memory /\ r \in Row /\ r.born # NoDate /\ clock \in DateOrNone /\ MaxStage \in Nat
    BY Numbers DEF Enters, Born, TypeOK
  <1>2. s \in 0..MaxStage
    BY <1>1 DEF TypeOK
  <1>3. /\ Fine(r, s, c) /\ c \in Date /\ c <= day
        /\ row[m].born = NoDate => to >= clock
        /\ row[m].born # NoDate => m \in Born(row)
        /\ m \in Born(row) => r = row[m] /\ c = clock
    <2>1. CASE row[m].born # NoDate
      <3>1. r = row[m] /\ s = since[m].stage /\ c = clock
        BY <1>1, <2>1 DEF Enters
      <3>2. MemoryOK(r, s, c)
        BY <1>1, <2>1, <3>1 DEF MemoryInv
      <3>3. m \in Born(row)
        BY <1>1, <2>1 DEF Born
      <3>4. clock # NoDate
        BY <3>3 DEF ClockInv
      <3>5. clock \in Date
        BY <1>1, <3>4 DEF DateOrNone
      <3>. QED  BY <1>1, <2>1, <3>1, <3>2, <3>3, <3>5, Clocks DEF MemoryOK, Fine
    <2>2. CASE row[m].born = NoDate
      <3>1. r = NewRow(to) /\ to >= clock /\ s = 0 /\ c = to
        BY <1>1, <2>2 DEF Enters
      <3>2. Fine(NewRow(to), 0, to)
        BY NewbornFine
      <3>3. m \notin Born(row)
        BY <2>2 DEF Born
      <3>. QED  BY <2>2, <3>1, <3>2, <3>3, Clocks
    <2>. QED  BY <2>1, <2>2
  <1> HIDE DEF s, c
  <1>4. CASE Sleeps(to)
    <2>1. q = Erode(Rise(r, to), From, to)
      BY <1>1, <1>4 DEF Consolidated, Born
    <2>2. From \in Date /\ From = clock /\ day = to /\ c <= to
      BY <1>3, <1>4, Clocks
    <2> HIDE DEF r, q, day
    <2>3. Fine(q, s, to) /\ Kept(q, r) /\ q.decay = Eroded(r, From, to)
      BY <1>2, <1>3, <2>1, <2>2, SleepsFine
    <2>. QED  BY <1>3, <2>2, <2>3 DEF Fine, MemoryOK, q, r, s, day
  <1>5. CASE ~Sleeps(to)
    <2>1. q = r
      BY <1>5 DEF Consolidated
    <2>2. day = c
      <3>1. CASE row[m].born # NoDate
        BY <1>3, <1>5, <3>1, Clocks DEF c
      <3>2. CASE row[m].born = NoDate
        BY <1>1, <1>3, <3>2, Numbers DEF c, Larger, Date, DateOrNone, NoDate
      <3>. QED  BY <3>1, <3>2
    <2>3. Kept(r, r)
      <3>1. Reached(r) \in Int
        BY <1>1, Fields DEF Reached, Larger
      <3>. QED  BY <3>1 DEF Kept
    <2>4. m \in Born(row) => r.decay = Eroded(r, c, c)
      BY <1>1, <1>3, NoDays
    <2> HIDE DEF r, q, day
    <2>. QED  BY <1>1, <1>3, <2>1, <2>2, <2>3, <2>4 DEF Fine, MemoryOK, q, r, s, day
  <1>. QED  BY <1>4, <1>5

\* A memory that is not born sleeps through it.
LEMMA Unborn ==
    ASSUME NEW to, NEW rows, NEW m \in Memory, rows[m].born = NoDate
    PROVE  Consolidated(rows, to)[m] = rows[m]
  BY DEF Consolidated, Born

\* The clock, the watermark and the marks after it.
LEMMA AdvanceKeeps ==
    ASSUME TypeOK, MemoryInv, ClockInv, NEW to \in Date, NEW rows, Enters(rows, to), NEW used \in SUBSET Memory,
           \A m \in Memory : row[m].born = NoDate /\ rows[m].born # NoDate => m \in used,
           Advance(rows, to, used), row' \in [Memory -> Row],
           \A m \in Memory : row'[m].born = rows[m].born
    PROVE  /\ clock' = Larger(clock, to) /\ clock' \in DateOrNone /\ watermark' \in DateOrNone
           /\ active' \in [Memory -> DateOrNone] /\ slept' \in [Memory -> DateOrNone]
           /\ ClockInv'
           /\ \A m \in Born(row') : active'[m] <= clock'
  <1> DEFINE day == Larger(clock, to)
  <1>1. /\ clock' = day
        /\ watermark' = IF Sleeps(to) THEN to ELSE watermark
        /\ active' = [m \in Memory |-> IF m \in used \cup Replayed(rows, to) THEN day ELSE active[m]]
        /\ slept' = [m \in Memory |-> IF m \in Slept(rows, to) THEN to ELSE slept[m]]
    BY DEF Advance
  <1>2. /\ day \in Date /\ clock <= day /\ to <= day
        /\ day = clock \/ day = to
        /\ Sleeps(to) => clock \in Date /\ clock < to /\ day = to /\ From = clock
        /\ ~Sleeps(to) => day = clock \/ (clock = NoDate /\ Born(row) = {})
        /\ ~Sleeps(to) /\ watermark # NoDate => day = clock
    BY Clocks
  <1> HIDE DEF day
  <1>3. /\ clock \in DateOrNone /\ watermark \in DateOrNone
        /\ active \in [Memory -> DateOrNone] /\ slept \in [Memory -> DateOrNone]
    BY DEF TypeOK
  <1>4. \A d \in DateOrNone : d \in Int
    BY Numbers DEF DateOrNone, Date, NoDate
  <1>5. Date \subseteq DateOrNone /\ \A d \in Date : d # NoDate /\ d \in Int
    BY Numbers DEF DateOrNone, Date, NoDate
  <1>6. /\ clock' \in DateOrNone /\ watermark' \in DateOrNone
        /\ active' \in [Memory -> DateOrNone] /\ slept' \in [Memory -> DateOrNone]
    BY <1>1, <1>2, <1>3, <1>5
  <1>7. ASSUME NEW m \in Memory
        PROVE  \/ row'[m].born = row[m].born
               \/ row[m].born = NoDate /\ row'[m].born = to /\ to >= clock /\ m \in used
    <2>1. CASE rows[m] = row[m]
      BY <2>1
    <2>2. CASE row[m].born = NoDate /\ rows[m] = NewRow(to) /\ to >= clock
      <3>1. rows[m].born = to
        BY <2>2 DEF NewRow
      <3>. QED  BY <1>5, <2>2, <3>1
    <2>. QED  BY <2>1, <2>2 DEF Enters
  <1>8. ASSUME NEW m \in Born(row') PROVE active'[m] <= clock'
    <2>1. m \in Memory /\ row'[m].born # NoDate
      BY DEF Born
    <2>2. CASE m \in used \cup Replayed(rows, to)
      BY <1>1, <1>2, <1>5, <2>1, <2>2
    <2>3. CASE m \notin used \cup Replayed(rows, to)
      <3>1. row[m].born # NoDate
        BY <1>7, <2>1, <2>3
      <3>2. active[m] <= clock
        BY <2>1, <3>1 DEF MemoryInv
      <3>. QED  BY <1>1, <1>2, <1>3, <1>4, <1>5, <2>1, <2>3, <3>2
    <2>. QED  BY <2>2, <2>3
  <1>9. ClockInv'
    <2>1. /\ watermark # NoDate => watermark = clock
          /\ clock = NoDate => Born(row) = {}
          /\ watermark = NoDate => \A m \in Born(row) : row[m].born = clock
          /\ watermark # NoDate => \A m \in Born(row) : row[m].born < watermark => slept[m] = watermark
      BY DEF ClockInv, SleptThroughEveryAdvance
    <2>2. watermark' # NoDate => watermark' = clock'
      BY <1>1, <1>2, <2>1
    <2>3. clock' # NoDate
      BY <1>1, <1>2, <1>5
    <2>4. ASSUME watermark' = NoDate, NEW m \in Born(row') PROVE row'[m].born = clock'
      <3>1. ~Sleeps(to) /\ watermark = NoDate
        BY <1>1, <1>5, <2>4
      <3>2. m \in Memory /\ row'[m].born # NoDate
        BY DEF Born
      <3>3. CASE row'[m].born = row[m].born
        BY <1>1, <1>2, <2>1, <3>1, <3>2, <3>3 DEF Born
      <3>4. CASE row'[m].born = to /\ to >= clock
        <4>1. to \in Int /\ clock \in Int /\ day \in Int
          BY <1>2, <1>3, <1>4, <1>5
        <4>2. to = day
          BY <1>2, <3>4, <4>1
        <4>. QED  BY <1>1, <3>4, <4>2
      <3>. QED  BY <1>7, <3>2, <3>3, <3>4
    <2>5. ASSUME watermark' # NoDate, NEW m \in Born(row'), row'[m].born < watermark'
          PROVE  slept'[m] = watermark'
      <3>1. m \in Memory /\ row'[m].born # NoDate
        BY DEF Born
      <3>2. row'[m].born = row[m].born
        <4>1. watermark' = day
          BY <1>1, <2>2, <2>5
        <4>2. to \in Int /\ clock \in Int /\ day \in Int
          BY <1>2, <1>3, <1>4, <1>5
        <4>3. ASSUME row'[m].born = to, to >= clock PROVE FALSE
          <5>1. to = day
            BY <1>2, <4>2, <4>3
          <5>2. to < day
            BY <2>5, <4>1, <4>3
          <5>. QED  BY <4>2, <5>1, <5>2
        <4>. QED  BY <1>7, <3>1, <4>3
      <3>3. m \in Born(row)
        BY <3>1, <3>2 DEF Born
      <3>4. CASE Sleeps(to)
        <4>1. active[m] <= clock
          BY <3>1, <3>2 DEF MemoryInv
        <4>2. active[m] < to
          BY <1>2, <1>3, <1>4, <1>5, <3>1, <3>4, <4>1
        <4>3. m \in Slept(rows, to)
          BY <3>3, <3>4, <4>2 DEF Slept
        <4>. QED  BY <1>1, <3>1, <3>4, <4>3
      <3>5. CASE ~Sleeps(to)
        <4>1. Slept(rows, to) = {}
          BY <3>5 DEF Slept
        <4>2. slept'[m] = slept[m] /\ watermark' = watermark
          BY <1>1, <3>1, <3>5, <4>1
        <4>. QED  BY <2>1, <2>5, <3>2, <3>3, <4>2
      <3>. QED  BY <3>4, <3>5
    <2>. QED  BY <2>2, <2>3, <2>4, <2>5 DEF ClockInv, SleptThroughEveryAdvance
  <1>. QED  BY <1>1, <1>6, <1>8, <1>9 DEF day

-----------------------------------------------------------------------------
(* The jobs *)

\* A set of the right jobs for representations that have none.
Fresh(jobs) ==
    \A j \in jobs : /\ j.memory \in Memory /\ j.rev \in Revision
                    /\ j = NewJob(j.memory, j.rev)
                    /\ Uncovered(j.memory, j.rev)
                    /\ row'[j.memory].born # NoDate /\ j.rev <= row'[j.memory].rev

LEMMA JobsAdded ==
    ASSUME TypeOK, JobInv, NEW jobs, Fresh(jobs), waiting' = waiting \cup jobs, UNCHANGED lane,
           row' \in [Memory -> Row],
           \A m \in Memory : row[m].born # NoDate => row'[m].born # NoDate /\ row[m].rev <= row'[m].rev
    PROVE  waiting' \subseteq Job /\ JobInv'
  <1>1. /\ \A j \in waiting : j.left > 0 /\ Known(j)
        /\ \A w \in Lane : lane[w] # NoJob => Known(lane[w].job)
        /\ \A i, j \in waiting : i.memory = j.memory /\ i.rev = j.rev => i = j
        /\ \A w \in Lane, j \in waiting : ~Working(w, j)
        /\ \A v, w \in Lane : v # w /\ lane[w] # NoJob /\ lane[w].held => ~Working(v, lane[w].job)
    BY DEF JobInv
  <1>2. Attempts \in Nat \ {0} /\ MaxRewrites \in Nat
    BY Numbers
  <1>3. ASSUME NEW j \in jobs
        PROVE  /\ j \in Job /\ j.left = Attempts /\ j.memory \in Memory /\ Known(j)'
               /\ \A i \in waiting : ~(i.memory = j.memory /\ i.rev = j.rev)
               /\ \A w \in Lane : ~Working(w, j)
    <2>1. /\ j.memory \in Memory /\ j.rev \in Revision
          /\ j = NewJob(j.memory, j.rev) /\ Uncovered(j.memory, j.rev)
          /\ row'[j.memory].born # NoDate /\ j.rev <= row'[j.memory].rev
      BY DEF Fresh
    <2>2. JobsOf(j.memory, j.rev) = {} /\ HeldFor(j.memory, j.rev) = {}
      BY <2>1 DEF Uncovered, Covered
    <2>3. Cardinality(JobsOf(j.memory, j.rev)) = 0
      BY <2>2, FS_EmptySet
    <2>4. j = [memory |-> j.memory, rev |-> j.rev, left |-> Attempts, no |-> 0]
      BY <2>1, <2>3 DEF NewJob
    <2>5. j.left = Attempts /\ j \in Job
      <3>1. [memory |-> j.memory, rev |-> j.rev, left |-> Attempts, no |-> 0] \in Job
        BY <1>2, <2>1 DEF Job
      <3>2. [memory |-> j.memory, rev |-> j.rev, left |-> Attempts, no |-> 0].left = Attempts
        OBVIOUS
      <3>. QED  BY <2>4, <3>1, <3>2, Zenon
    <2>6. \A i \in waiting : ~(i.memory = j.memory /\ i.rev = j.rev)
      BY <2>2 DEF JobsOf
    <2>7. \A w \in Lane : ~Working(w, j)
      BY <2>2 DEF HeldFor, Working
    <2>8. Known(j)'
      BY <2>1 DEF Known
    <2>. QED  BY <2>1, <2>5, <2>6, <2>7, <2>8
  <1>4. ASSUME NEW j, j.memory \in Memory, j.rev \in Revision, Known(j) PROVE Known(j)'
    <2>1. row[j.memory].born # NoDate /\ j.rev <= row[j.memory].rev
      BY <1>4 DEF Known
    <2>2. row'[j.memory].born # NoDate /\ row[j.memory].rev <= row'[j.memory].rev
      BY <1>4, <2>1
    <2>3. row[j.memory].rev \in Revision /\ row'[j.memory].rev \in Revision
      BY <1>4, Fields DEF TypeOK
    <2>. QED  BY <1>2, <1>4, <2>1, <2>2, <2>3 DEF Known, Revision
  <1>5. \A j \in waiting : j \in Job /\ j.memory \in Memory /\ j.rev \in Revision
    BY DEF TypeOK, Job
  <1>6. \A w \in Lane : lane[w] # NoJob => lane[w].job.memory \in Memory /\ lane[w].job.rev \in Revision
    BY DEF TypeOK, Job
  <1>7. waiting' \subseteq Job
    BY <1>3, <1>5
  <1>8. \A j \in waiting' : j.left > 0 /\ Known(j)'
    BY <1>1, <1>2, <1>3, <1>4, <1>5
  <1>9. \A w \in Lane : lane'[w] # NoJob => Known(lane[w].job)'
    BY <1>1, <1>4, <1>6
  <1>10. ASSUME NEW i \in waiting', NEW j \in waiting', i.memory = j.memory, i.rev = j.rev PROVE i = j
    <2>1. CASE i \in waiting /\ j \in waiting
      BY <1>1, <1>10, <2>1
    <2>2. CASE i \in jobs /\ j \in jobs
      BY <1>10, <2>2 DEF Fresh
    <2>3. CASE i \in waiting /\ j \in jobs
      BY <1>3, <1>10, <2>3
    <2>4. CASE i \in jobs /\ j \in waiting
      BY <1>3, <1>10, <2>4
    <2>. QED  BY <2>1, <2>2, <2>3, <2>4
  <1>11. ASSUME NEW w \in Lane, NEW j \in waiting' PROVE ~Working(w, j)'
    BY <1>1, <1>3 DEF Working
  <1>12. ASSUME NEW v \in Lane, NEW w \in Lane, v # w, lane'[w] # NoJob, lane'[w].held
         PROVE  ~Working(v, lane[w].job)'
    BY <1>1, <1>12 DEF Working
  <1>. QED  BY <1>7, <1>8, <1>9, <1>10, <1>11, <1>12 DEF JobInv

-----------------------------------------------------------------------------
(* What a recall does to the memories *)

\* The days a recall puts on a neighbour or takes off it.
LEMMA NudgeIs ==
    ASSUME NEW M \in SUBSET Memory, NEW n \in Memory
    PROVE  Nudge(M, n) \in Int
  <1> DEFINE strong == {m \in M \ {n} : Shared[m, n] > 1}
             weak == {m \in M \ {n} : Shared[m, n] = 1}
  <1>1. IsFiniteSet(strong) /\ IsFiniteSet(weak)
    <2>1. IsFiniteSet(Memory) /\ strong \subseteq Memory /\ weak \subseteq Memory
      BY Links
    <2>. QED  BY <2>1, FS_Subset
  <1>2. Cardinality(strong) \in Nat /\ Cardinality(weak) \in Nat
    BY <1>1, FS_CardinalityType
  <1>3. SlowDays \in Nat /\ SpeedDays \in Nat
    BY Numbers
  <1>4. Nudge(M, n) = SpeedDays * Cardinality(strong) - SlowDays * Cardinality(weak)
    BY DEF Nudge
  <1> HIDE DEF strong, weak
  <1>5. SlowDays * Cardinality(weak) \in Nat /\ SpeedDays * Cardinality(strong) \in Nat
    BY <1>2, <1>3, SMT
  <1>. QED  BY <1>4, <1>5

\* A memory that nothing ages is no further forgotten, recalled or not.
LEMMA Fresher ==
    ASSUME NEW r \in Row, NEW q \in Row, NEW day \in Date, q.offset <= r.offset,
           q.recalled = r.recalled \/ q.recalled = day,
           q.recalls = r.recalls \/ q.recalls = r.recalls + 1
    PROVE  DecayStage(q, day) <= DecayStage(r, day)
  <1> DEFINE short == DecayLength[r.recalls]
             long == DecayLength[q.recalls]
             less == Elapsed(q, day)
             more == Elapsed(r, day)
             stage == (less * Parts) \div long
             old == (more * Parts) \div short
  <1>1. /\ q.offset \in Int /\ r.offset \in Int /\ r.recalled \in Int /\ q.recalled \in Int /\ day \in Int
        /\ MaxDecay \in Nat /\ Parts \in Nat /\ short \in Nat \ {0} /\ long \in Nat \ {0}
    BY Fields, Numbers, Lengths DEF Date, DateOrNone, NoDate
  <1>2. short <= long
    <2>1. r.recalls \in 0..MaxRecalls /\ q.recalls \in 0..MaxRecalls /\ MaxRecalls \in Nat
      BY Fields, Numbers
    <2>2. CASE q.recalls = r.recalls
      BY <1>1, <2>2
    <2>3. CASE q.recalls = r.recalls + 1
      <3>1. q.recalls \in 1..MaxRecalls /\ q.recalls - 1 = r.recalls
        BY <2>1, <2>3
      <3>2. DecayLength[q.recalls] >= DecayLength[q.recalls - 1]
        BY <3>1, ConsolidationAssumption
      <3>. QED  BY <1>1, <3>1, <3>2
    <2>. QED  BY <2>2, <2>3
  <1>3. less \in Nat /\ more \in Nat /\ less <= more
    BY <1>1 DEF Elapsed, Larger
  <1>4. DecayStage(q, day) = Smaller(MaxDecay, stage) /\ DecayStage(r, day) = Smaller(MaxDecay, old)
    BY DEF DecayStage
  <1> HIDE DEF short, long, less, more
  <1>5. less * Parts \in Nat /\ more * Parts \in Nat /\ less * Parts <= more * Parts
    BY <1>1, <1>3, Grows, SMT
  <1>6. stage \in Nat /\ old \in Nat
    BY <1>1, <1>5, Quotient
  <1>7. stage * long <= less * Parts /\ stage * long \in Nat
    BY <1>1, <1>5, <1>6, Quotient, SMT
  <1>8. old >= stage
    <2> HIDE DEF stage
    <2>1. short * stage <= long * stage
      BY <1>1, <1>2, <1>6, Grows
    <2>2. short * stage = stage * short /\ long * stage = stage * long /\ stage * short \in Nat
      BY <1>1, <1>6, SMT
    <2>3. more * Parts >= stage * short
      BY <1>5, <1>7, <2>1, <2>2
    <2>. QED  BY <1>1, <1>5, <1>6, <2>3, QuotientReaches
  <1> HIDE DEF stage, old
  <1>9. Smaller(MaxDecay, stage) <= Smaller(MaxDecay, old)
    BY <1>1, <1>6, <1>8 DEF Smaller
  <1>. QED  BY <1>4, <1>9

\* The texts of a memory follow its stage over a step that stores those of the
\* stages its days cross.
LEMMA Follows ==
    ASSUME NEW m, row[m] \in Row, row'[m] \in Row, clock \in Date, clock' \in Date,
           row'[m].decay = Eroded(row[m], clock, clock'),
           row'[m].recalled = row[m].recalled \/ row'[m].recalled = clock',
           row'[m].recalls = row[m].recalls \/ row'[m].recalls = row[m].recalls + 1
    PROVE  CatchesUp(m)
  <1> DEFINE r == row[m]
             q == row'[m]
             a == DecayStage(r, clock)
             b == DecayStage(r, clock')
             c == DecayStage(q, clock')
  <1>1. a \in Int /\ b \in Int /\ c \in Int /\ r.decay \in Int
    BY DecayStageIs, Fields
  <1>2. q.decay = IF b > a THEN Larger(r.decay, b) ELSE r.decay
    BY DEF Eroded
  <1>3. q.offset <= r.offset => c <= b
    BY Fresher
  <1> HIDE DEF a, b, c
  <1>4. q.offset <= r.offset /\ (r.decay >= a \/ b > a) => q.decay >= c
    BY <1>1, <1>2, <1>3 DEF Larger
  <1>5. q.decay <= Larger(r.decay, b)
    BY <1>1, <1>2 DEF Larger
  <1>. QED  BY <1>4, <1>5 DEF CatchesUp, Covers, a, b, c

\* A memory that has a date has one on the clock.
LEMMA Dates ==
    ASSUME TypeOK, ClockInv, NEW m \in Born(row)
    PROVE  m \in Memory /\ row[m] \in Row /\ clock \in Date
  BY DEF TypeOK, ClockInv, Born, DateOrNone

\* So they do when no day passes and nothing reads or nudges the memory.
LEMMA Follow ==
    ASSUME TypeOK, ClockInv, NEW m \in Born(row), clock' = clock, row'[m] \in Row,
           row'[m].decay = row[m].decay, row'[m].recalled = row[m].recalled, row'[m].recalls = row[m].recalls
    PROVE  CatchesUp(m)
  BY Dates, NoDays, Follows

\* The memory that is recalled.
LEMMA RecalledFine ==
    ASSUME NEW r \in Row, NEW s \in 0..MaxStage, NEW day \in Date, MemoryOK(r, s, day),
           NEW q \in Row, q.recalled = day, q.anchor = day,
           q.born = r.born, q.stage = r.stage, q.pending = r.pending, q.riseAt = r.riseAt,
           q.ladder = r.ladder, q.history = r.history
    PROVE  MemoryOK(q, Reached(r), day)
  <1>1. Dated(r, day) /\ Recorded(r, day)
    BY DEF MemoryOK
  <1>2. Reached(q) = Reached(r) /\ Reached(r) \in Int
    BY Fields DEF Reached, Larger
  <1>3. day \in Nat /\ Parts \in Nat /\ GistLength[q.recalls] \in Nat \ {0} /\ MaxStage \in Nat
    BY Fields, Numbers, Lengths DEF Date
  <1>4. Dated(q, day)
    BY <1>1, <1>3 DEF Dated
  <1>5. Recorded(q, day)
    BY <1>1 DEF Recorded
  <1>6. Paced(q, Reached(r), day)
    BY <1>2, <1>3 DEF Paced
  <1>. QED  BY <1>4, <1>5, <1>6 DEF MemoryOK

\* A neighbour of it.
LEMMA NudgedFine ==
    ASSUME NEW r \in Row, NEW s, NEW day \in Date, MemoryOK(r, s, day),
           NEW q \in Row, q.recalled = r.recalled, q.anchor = r.anchor, q.recalls = r.recalls,
           q.born = r.born, q.stage = r.stage, q.pending = r.pending, q.riseAt = r.riseAt,
           q.ladder = r.ladder, q.history = r.history
    PROVE  MemoryOK(q, s, day)
  <1>1. Fine(r, s, day)
    BY DEF MemoryOK, Fine
  <1>2. Fine(q, s, day)
    BY <1>1, Unread
  <1>. QED  BY <1>2 DEF MemoryOK, Fine

-----------------------------------------------------------------------------
(* The use-cases keep the invariant *)

\* A text that changes is of the representation the memory has then, and those
\* of the word loss follow its stage.
Live ==
    /\ \A m \in Memory, s \in Stage :
          row'[m].ladder[s] # row[m].ladder[s] => row'[m].ladder[s] = row'[m].rev
    /\ \A m \in Born(row) : CatchesUp(m)

\* An advance leaves every memory its date, its representation and its texts.
LEMMA Sleepers ==
    ASSUME TypeOK, MemoryInv, ClockInv, NEW to \in Date, NEW rows, Enters(rows, to)
    PROVE  /\ Consolidated(rows, to) \in [Memory -> Row]
           /\ \A m \in Memory : LET q == Consolidated(rows, to)[m]
                                IN  q.born = rows[m].born /\ q.rev = rows[m].rev /\ q.ladder = rows[m].ladder
  <1> DEFINE C == Consolidated(rows, to)
  <1>1. rows \in [Memory -> Row]
    BY DEF Enters
  <1>2. DOMAIN C = Memory /\ C = [m \in Memory |-> C[m]]
    BY <1>1 DEF Consolidated
  <1>3. ASSUME NEW m \in Memory
        PROVE  C[m] \in Row /\ C[m].born = rows[m].born /\ C[m].rev = rows[m].rev /\ C[m].ladder = rows[m].ladder
    <2>1. CASE rows[m].born = NoDate
      BY <1>1, <2>1, Unborn
    <2>2. CASE rows[m].born # NoDate
      <3>1. m \in Born(rows)
        BY <2>2 DEF Born
      <3>. QED  BY <3>1, Woken DEF Kept
    <2>. QED  BY <2>1, <2>2
  <1> HIDE DEF C
  <1>4. C \in [Memory -> Row]
    BY <1>2, <1>3
  <1>. QED  BY <1>3, <1>4 DEF C

LEMMA NewJobFields ==
    ASSUME NEW m, NEW r
    PROVE  NewJob(m, r).memory = m /\ NewJob(m, r).rev = r
  BY DEF NewJob

\* A memory that is not born has no jobs, and none are for a representation
\* to come.
LEMMA NoneYet ==
    ASSUME TypeOK, JobInv, NEW m \in Memory, NEW r \in Int, row[m].born = NoDate \/ row[m].rev < r
    PROVE  Uncovered(m, r)
  <1>1. ASSUME NEW j, Known(j), j.memory = m, j.rev = r PROVE FALSE
    <2>1. row[m].rev \in Revision /\ MaxRewrites \in Nat
      BY Fields, Numbers DEF TypeOK
    <2>. QED  BY <1>1, <2>1 DEF Known, Revision
  <1>2. JobsOf(m, r) = {}
    BY <1>1 DEF JobsOf, JobInv
  <1>3. HeldFor(m, r) = {}
    BY <1>1 DEF HeldFor, JobInv
  <1>. QED  BY <1>2, <1>3 DEF Uncovered, Covered

\* The repair adds a job only where there is none.
LEMMA Regenerated ==
    ASSUME TypeOK, JobInv, NEW to \in Date, NEW rows, Enters(rows, to),
           \A m \in Memory : row'[m].born = rows[m].born /\ rows[m].rev <= row'[m].rev
    PROVE  Fresh(Regenerations(rows, to))
  <1> SUFFICES ASSUME NEW j \in Regenerations(rows, to)
               PROVE  /\ j.memory \in Memory /\ j.rev \in Revision
                      /\ j = NewJob(j.memory, j.rev)
                      /\ Uncovered(j.memory, j.rev)
                      /\ row'[j.memory].born # NoDate /\ j.rev <= row'[j.memory].rev
    BY DEF Fresh
  <1>1. PICK n \in Born(rows) : j = NewJob(n, rows[n].rev) /\ Uncovered(n, rows[n].rev)
    BY DEF Regenerations
  <1>2. j.memory = n /\ j.rev = rows[n].rev
    BY <1>1, NewJobFields
  <1>3. n \in Memory /\ rows[n].born # NoDate
    BY DEF Born
  <1>4. rows[n].rev \in Revision
    BY <1>3, Fields DEF Enters
  <1>. QED  BY <1>1, <1>2, <1>3, <1>4

\* Jobs of two kinds.
LEMMA FreshUnion ==
    ASSUME NEW a, NEW b, Fresh(a), Fresh(b)
    PROVE  Fresh(a \cup b)
  BY DEF Fresh

LEMMA LaunchKeeps ==
    ASSUME IInv, NEW D \in Diaries, NEW day \in Date, Launch(D, day)
    PROVE  IInv' /\ Live
  <1> DEFINE rows == [m \in Memory |-> IF m \in D THEN NewRow(day) ELSE row[m]]
  <1>1. TypeOK /\ MemoryInv /\ ClockInv /\ JobInv
    BY DEF IInv
  <1>2. /\ D \cap Born(row) = {} /\ day >= clock
        /\ row' = Consolidated(rows, day)
        /\ Advance(rows, day, D)
        /\ waiting' = waiting \cup {NewJob(m, 1) : m \in D} \cup Regenerations(rows, day)
        /\ since' = [m \in Memory |-> IF m \in D THEN [at |-> day, stage |-> 0] ELSE since[m]]
        /\ gaveUp' = (IF Sleeps(day) THEN {} ELSE gaveUp)
        /\ UNCHANGED lane
    BY DEF Launch
  <1>3. D \subseteq Memory /\ \A m \in D : row[m].born = NoDate
    <2>1. D \subseteq Memory
      BY Links
    <2>. QED  BY <1>2, <2>1 DEF Born
  <1>4. \A m \in Memory : rows[m] = IF m \in D THEN NewRow(day) ELSE row[m]
    OBVIOUS
  <1>5. Enters(rows, day)
    <2>1. rows \in [Memory -> Row]
      BY <1>1, NewbornFine DEF TypeOK
    <2> HIDE DEF rows
    <2>. QED  BY <1>2, <1>3, <1>4, <2>1 DEF Enters
  <1> HIDE DEF rows
  <1>6. day # NoDate /\ NewRow(day).born = day /\ NewRow(day).recalled = day /\ NewRow(day).rev = 1
        /\ MaxStage \in Nat /\ MaxRewrites \in Nat
        /\ NewRow(day).ladder = NewRow(NoDate).ladder
    BY Numbers DEF Date, NoDate, NewRow
  <1>7. /\ row' \in [Memory -> Row]
        /\ \A m \in Memory : row'[m].born = rows[m].born /\ row'[m].rev = rows[m].rev
                             /\ row'[m].ladder = rows[m].ladder
    BY <1>1, <1>2, <1>5, Sleepers
  <1>8. /\ clock' = Larger(clock, day) /\ clock' \in DateOrNone /\ watermark' \in DateOrNone
        /\ active' \in [Memory -> DateOrNone] /\ slept' \in [Memory -> DateOrNone]
        /\ ClockInv'
        /\ \A m \in Born(row') : active'[m] <= clock'
    <2>1. D \in SUBSET Memory /\ \A m \in Memory : row[m].born = NoDate /\ rows[m].born # NoDate => m \in D
      BY <1>3, <1>4
    <2>2. \A m \in Memory : row'[m].born = rows[m].born
      BY <1>7
    <2>. QED  BY <1>1, <1>2, <1>5, <1>7, <2>1, <2>2, AdvanceKeeps
  <1>9. ASSUME NEW m \in Memory
        PROVE  /\ row'[m].born = NoDate => row'[m] = NewRow(NoDate)
               /\ row'[m].born # NoDate => /\ MemoryOK(row'[m], since'[m].stage, clock')
                                           /\ since'[m].at = row'[m].recalled
                                           /\ active'[m] <= clock'
    <2>1. CASE row'[m].born = NoDate
      <3>1. rows[m].born = NoDate
        BY <1>7, <2>1
      <3>2. rows[m] = row[m]
        BY <1>4, <1>6, <3>1
      <3>3. row'[m] = rows[m]
        BY <1>2, <3>1, Unborn
      <3>. QED  BY <1>1, <2>1, <3>1, <3>2, <3>3 DEF MemoryInv
    <2>2. CASE row'[m].born # NoDate
      <3> DEFINE s == IF row[m].born # NoDate THEN since[m].stage ELSE 0
      <3>1. m \in Born(rows) /\ m \in Born(row')
        BY <1>7, <2>2 DEF Born
      <3>2. MemoryOK(row'[m], s, Larger(clock, day)) /\ Kept(row'[m], rows[m])
        BY <1>1, <1>2, <1>5, <3>1, Woken
      <3>3. s = since'[m].stage /\ since'[m].at = rows[m].recalled
        <4>1. CASE m \in D
          <5>1. since'[m] = [at |-> day, stage |-> 0]
            BY <1>2, <4>1
          <5>. QED  BY <1>3, <1>4, <1>6, <4>1, <5>1
        <4>2. CASE m \notin D
          <5>1. since'[m] = since[m] /\ rows[m] = row[m]
            BY <1>2, <1>4, <4>2
          <5>2. row[m].born # NoDate
            BY <1>7, <2>2, <5>1
          <5>. QED  BY <1>1, <5>1, <5>2 DEF MemoryInv
        <4>. QED  BY <4>1, <4>2
      <3> HIDE DEF s
      <3>4. row'[m].recalled = rows[m].recalled
        BY <3>2 DEF Kept
      <3>5. MemoryOK(row'[m], since'[m].stage, clock')
        BY <1>8, <3>2, <3>3
      <3>. QED  BY <1>8, <2>2, <3>1, <3>3, <3>4, <3>5
    <2>. QED  BY <2>1, <2>2
  <1>10. waiting' \subseteq Job /\ JobInv'
    <2> DEFINE jobs == {NewJob(m, 1) : m \in D} \cup Regenerations(rows, day)
    <2>1. Fresh({NewJob(m, 1) : m \in D})
      <3> SUFFICES ASSUME NEW m \in D
                   PROVE  /\ m \in Memory /\ 1 \in Revision /\ Uncovered(m, 1)
                          /\ row'[m].born # NoDate /\ 1 <= row'[m].rev
        BY NewJobFields DEF Fresh
      <3>1. m \in Memory /\ row[m].born = NoDate
        BY <1>3
      <3>. QED  BY <1>1, <1>4, <1>6, <1>7, <3>1, NoneYet DEF Revision
    <2>2. Fresh(Regenerations(rows, day))
      <3>1. \A m \in Memory : row'[m].born = rows[m].born /\ rows[m].rev <= row'[m].rev
        <4>1. \A m \in Memory : row'[m].rev \in Int
          BY <1>7, <1>6, Fields DEF Revision
        <4>. QED  BY <1>7, <4>1
      <3>. QED  BY <1>1, <1>5, <3>1, Regenerated
    <2>3. \A m \in Memory : row[m].born # NoDate => row'[m].born # NoDate /\ row[m].rev <= row'[m].rev
      <3>1. \A m \in Memory : row[m].born # NoDate => rows[m] = row[m]
        BY <1>3, <1>4
      <3>2. \A m \in Memory : row[m].rev \in Int
        BY <1>1, <1>6, Fields DEF TypeOK, Revision
      <3>. QED  BY <1>7, <3>1, <3>2
    <2>4. Fresh(jobs)
      BY <2>1, <2>2, FreshUnion
    <2>5. waiting' = waiting \cup jobs
      BY <1>2
    <2> HIDE DEF jobs
    <2>. QED  BY <1>1, <1>2, <1>7, <2>3, <2>4, <2>5, JobsAdded
  <1>11. TypeOK'
    <2>1. since' \in [Memory -> [at : DateOrNone, stage : 0..MaxStage]]
      <3>1. [at |-> day, stage |-> 0] \in [at : DateOrNone, stage : 0..MaxStage]
        BY <1>6 DEF DateOrNone
      <3>. QED  BY <1>1, <1>2, <3>1 DEF TypeOK
    <2>2. gaveUp' \subseteq Memory
      BY <1>1, <1>2 DEF TypeOK
    <2>3. lane' \in [Lane -> {NoJob} \cup [job : Job, called : BOOLEAN, held : BOOLEAN]]
      BY <1>1, <1>2 DEF TypeOK
    <2>. QED  BY <1>7, <1>8, <1>10, <2>1, <2>2, <2>3 DEF TypeOK
  <1>12. Live
    <2>1. \A m \in Memory : row'[m].ladder = row[m].ladder
      BY <1>1, <1>3, <1>4, <1>6, <1>7 DEF MemoryInv
    <2>2. ASSUME NEW m \in Born(row) PROVE CatchesUp(m)
      <3>1. m \in Memory /\ row[m].born # NoDate /\ row[m] \in Row /\ clock \in Date
        BY <1>1, Dates DEF Born
      <3>2. rows[m] = row[m] /\ m \in Born(rows)
        BY <1>3, <1>4, <3>1 DEF Born
      <3>3. Kept(row'[m], row[m]) /\ row'[m].decay = Eroded(row[m], clock, clock')
        BY <1>1, <1>2, <1>5, <1>8, <3>2, Woken
      <3>4. clock' \in Date
        BY <1>1, <1>8, Clocks
      <3>. QED  BY <1>7, <3>1, <3>3, <3>4, Follows DEF Kept
    <2>. QED  BY <2>1, <2>2 DEF Live
  <1>. QED  BY <1>8, <1>9, <1>10, <1>11, <1>12 DEF IInv, MemoryInv

LEMMA ReinforceKeeps ==
    ASSUME IInv, NEW M \in SUBSET Memory, NEW today \in Date,
           NEW restored \in BOOLEAN, NEW rewritten \in BOOLEAN, Reinforce(M, today, restored, rewritten)
    PROVE  IInv' /\ Live
  <1> DEFINE day == Larger(clock, today)
             rows == Consolidated(row, today)
             after == Reinforced(rows, M, day, restored)
             rewrites == {m \in M : rewritten}
  <1>1. TypeOK /\ MemoryInv /\ ClockInv /\ JobInv
    BY DEF IInv
  <1>2. /\ M \subseteq Born(row)
        /\ \A m \in M : row[m].recalls < MaxRecalls
        /\ rewritten => \A m \in M : row[m].rev <= MaxRewrites
        /\ row' = [m \in Memory |-> IF m \in rewrites THEN [after[m] EXCEPT !.rev = @ + 1] ELSE after[m]]
        /\ Advance(row, today, M)
        /\ waiting' = waiting \cup Regenerations(row, today) \cup {NewJob(m, row[m].rev + 1) : m \in rewrites}
        /\ since' = [m \in Memory |-> IF m \in M THEN [at |-> day, stage |-> Reached(rows[m])] ELSE since[m]]
        /\ gaveUp' = (IF Sleeps(today) THEN {} ELSE gaveUp) \ rewrites
        /\ UNCHANGED lane
    BY DEF Reinforce
  <1>3. Enters(row, today) /\ row \in [Memory -> Row]
    BY <1>1 DEF Enters, TypeOK
  <1>4. /\ rows \in [Memory -> Row]
        /\ \A m \in Memory : rows[m].born = row[m].born /\ rows[m].rev = row[m].rev
                             /\ rows[m].ladder = row[m].ladder
    BY <1>1, <1>3, Sleepers
  <1>5. day \in Date /\ day \in DateOrNone /\ clock' = day /\ MaxStage \in Nat /\ MaxRecalls \in Nat /\ MaxRewrites \in Nat
    BY <1>1, <1>2, Clocks, Numbers DEF Advance, DateOrNone
  <1>6. rewrites \subseteq M /\ (rewrites # {} => rewritten)
    OBVIOUS
  <1>7. ASSUME NEW m \in Born(row)
        PROVE  /\ rows[m] \in Row /\ MemoryOK(rows[m], since[m].stage, day) /\ Kept(rows[m], row[m])
               /\ rows[m].decay = Eroded(row[m], clock, day)
    <2>1. row[m].born # NoDate
      BY DEF Born
    <2>. QED  BY <1>1, <1>3, <2>1, Woken
  <1>8. after = [n \in Memory |->
          LET nudged == [rows[n] EXCEPT !.offset = IF restored /\ n \in M THEN 0 ELSE @ + Nudge(M, n)]
          IN  IF n \notin Born(rows) THEN rows[n]
              ELSE IF n \in M THEN [nudged EXCEPT !.recalled = day, !.recalls = @ + 1, !.anchor = day]
              ELSE nudged]
    BY DEF Reinforced
  <1> HIDE DEF rows, after, day, rewrites
  <1>9. ASSUME NEW m \in Memory, row[m].born = NoDate
        PROVE  row'[m] = row[m] /\ m \notin M
    <2>1. m \notin Born(row) /\ m \notin Born(rows)
      BY <1>4, <1>9 DEF Born
    <2>2. rows[m] = row[m]
      BY <1>9, Unborn DEF rows
    <2>3. after[m] = rows[m]
      BY <1>8, <2>1
    <2>. QED  BY <1>2, <1>6, <2>1, <2>2, <2>3
  <1>10. ASSUME NEW m \in M
         PROVE  /\ row'[m] \in Row
                /\ row'[m].recalled = day /\ row'[m].anchor = day
                /\ row'[m].born = rows[m].born /\ row'[m].stage = rows[m].stage /\ row'[m].pending = rows[m].pending
                /\ row'[m].riseAt = rows[m].riseAt /\ row'[m].ladder = rows[m].ladder
                /\ row'[m].history = rows[m].history
                /\ row'[m].rev = IF m \in rewrites THEN rows[m].rev + 1 ELSE rows[m].rev
                /\ row'[m].recalls = rows[m].recalls + 1 /\ row'[m].decay = rows[m].decay
    <2> DEFINE r == rows[m]
               o == IF restored THEN 0 ELSE r.offset + Nudge(M, m)
               p == [[r EXCEPT !.offset = o] EXCEPT !.recalled = day, !.recalls = @ + 1, !.anchor = day]
               q == IF m \in rewrites THEN [p EXCEPT !.rev = @ + 1] ELSE p
    <2>1. m \in Memory /\ m \in Born(row) /\ m \in Born(rows)
      BY <1>2, <1>4 DEF Born
    <2>2. row'[m] = q
      <3>1. after[m] = p
        BY <1>8, <2>1
      <3>. QED  BY <1>2, <2>1, <3>1
    <2>3. r \in Row /\ Kept(r, row[m])
      BY <1>7, <2>1
    <2>4. r.recalls + 1 \in 0..MaxRecalls
      <3>1. r.recalls < MaxRecalls
        BY <1>2, <2>3 DEF Kept
      <3>. QED  BY <1>5, <2>3, <3>1, Fields
    <2>5. o \in Int
      BY <2>1, <2>3, Fields, NudgeIs
    <2>6. m \in rewrites => r.rev + 1 \in Revision
      <3>1. m \in rewrites => r.rev <= MaxRewrites
        BY <1>2, <1>6, <2>3 DEF Kept
      <3>. QED  BY <1>5, <2>3, <3>1, Fields DEF Revision
    <2> HIDE DEF r, o
    <2>7. /\ p \in Row /\ p.recalled = day /\ p.anchor = day /\ p.born = r.born /\ p.stage = r.stage
          /\ p.pending = r.pending /\ p.riseAt = r.riseAt /\ p.ladder = r.ladder /\ p.history = r.history
          /\ p.rev = r.rev /\ p.recalls = r.recalls + 1 /\ p.decay = r.decay
      BY <1>5, <2>3, <2>4, <2>5 DEF Row
    <2> HIDE DEF p
    <2>8. /\ q \in Row /\ q.recalled = day /\ q.anchor = day /\ q.born = r.born /\ q.stage = r.stage
          /\ q.pending = r.pending /\ q.riseAt = r.riseAt /\ q.ladder = r.ladder /\ q.history = r.history
          /\ q.rev = (IF m \in rewrites THEN r.rev + 1 ELSE r.rev)
          /\ q.recalls = r.recalls + 1 /\ q.decay = r.decay
      BY <2>6, <2>7 DEF Row
    <2> HIDE DEF q
    <2>. QED  BY <2>2, <2>8 DEF r
  <1>11. ASSUME NEW m \in Born(row) \ M
         PROVE  /\ row'[m] \in Row
                /\ row'[m].recalled = rows[m].recalled /\ row'[m].anchor = rows[m].anchor
                /\ row'[m].recalls = rows[m].recalls /\ row'[m].decay = rows[m].decay
                /\ row'[m].born = rows[m].born /\ row'[m].stage = rows[m].stage /\ row'[m].pending = rows[m].pending
                /\ row'[m].riseAt = rows[m].riseAt /\ row'[m].ladder = rows[m].ladder
                /\ row'[m].history = rows[m].history /\ row'[m].rev = rows[m].rev
    <2> DEFINE r == rows[m]
               o == r.offset + Nudge(M, m)
               q == [r EXCEPT !.offset = o]
    <2>1. m \in Memory /\ m \notin M /\ m \in Born(rows)
      BY <1>4 DEF Born
    <2>2. row'[m] = q
      <3>1. after[m] = q
        BY <1>8, <2>1
      <3>. QED  BY <1>2, <1>6, <2>1, <3>1
    <2>3. r \in Row
      BY <1>7
    <2>4. o \in Int
      BY <2>1, <2>3, Fields, NudgeIs
    <2> HIDE DEF r, o
    <2>5. /\ q \in Row /\ q.recalled = r.recalled /\ q.anchor = r.anchor /\ q.recalls = r.recalls /\ q.decay = r.decay
          /\ q.born = r.born /\ q.stage = r.stage /\ q.pending = r.pending /\ q.riseAt = r.riseAt
          /\ q.ladder = r.ladder /\ q.history = r.history /\ q.rev = r.rev
      BY <2>3, <2>4 DEF Row
    <2> HIDE DEF q
    <2>. QED  BY <2>2, <2>5 DEF r
  <1>12. \A m \in Memory : m \in Born(row) \/ row[m].born = NoDate
    BY DEF Born
  <1>13. ASSUME NEW m \in Memory
         PROVE  row'[m] \in Row /\ row'[m].born = row[m].born /\ row'[m].ladder = row[m].ladder
                /\ row[m].rev <= row'[m].rev /\ (m \in rewrites => row'[m].rev = row[m].rev + 1)
    <2>1. row[m] \in Row /\ row[m].rev \in Int
      BY <1>3, <1>5, Fields DEF Revision
    <2>2. CASE row[m].born = NoDate
      BY <1>6, <1>9, <2>1, <2>2
    <2>3. CASE m \in M
      BY <1>4, <1>10, <2>1, <2>3
    <2>4. CASE m \in Born(row) \ M
      BY <1>4, <1>6, <1>11, <2>1, <2>4
    <2>. QED  BY <1>12, <2>2, <2>3, <2>4
  <1>14. row' \in [Memory -> Row]
    <2>1. row' = [m \in Memory |-> row'[m]]
      BY <1>2
    <2>. QED  BY <1>13, <2>1
  <1>15. /\ clock' \in DateOrNone /\ watermark' \in DateOrNone
         /\ active' \in [Memory -> DateOrNone] /\ slept' \in [Memory -> DateOrNone]
         /\ ClockInv'
         /\ \A m \in Born(row') : active'[m] <= clock'
    <2>1. \A m \in Memory : row[m].born = NoDate /\ row[m].born # NoDate => m \in M
      OBVIOUS
    <2>2. Advance(row, today, M) /\ \A m \in Memory : row'[m].born = row[m].born
      BY <1>2, <1>13
    <2>. QED  BY <1>1, <1>3, <1>14, <2>1, <2>2, AdvanceKeeps
  <1>16. ASSUME NEW m \in Memory
         PROVE  /\ row'[m].born = NoDate => row'[m] = NewRow(NoDate)
                /\ row'[m].born # NoDate => /\ MemoryOK(row'[m], since'[m].stage, clock')
                                            /\ since'[m].at = row'[m].recalled
                                            /\ active'[m] <= clock'
    <2>1. CASE row[m].born = NoDate
      BY <1>1, <1>9, <1>13, <2>1 DEF MemoryInv
    <2>2. CASE row[m].born # NoDate
      <3>1. m \in Born(row) /\ m \in Born(row') /\ row'[m].born # NoDate
        BY <1>13, <2>2 DEF Born
      <3>2. rows[m] \in Row /\ MemoryOK(rows[m], since[m].stage, day) /\ Kept(rows[m], row[m])
        BY <1>7, <3>1
      <3>3. since[m].stage \in 0..MaxStage /\ since[m].at = row[m].recalled
        BY <1>1, <2>2 DEF TypeOK, MemoryInv
      <3>4. CASE m \in M
        <4>1. MemoryOK(row'[m], Reached(rows[m]), day)
          BY <1>5, <1>10, <3>2, <3>3, <3>4, RecalledFine
        <4>2. since'[m] = [at |-> day, stage |-> Reached(rows[m])]
          BY <1>2, <3>4
        <4>. QED  BY <1>5, <1>10, <1>15, <3>1, <3>4, <4>1, <4>2
      <3>5. CASE m \notin M
        <4>1. m \in Born(row) \ M
          BY <3>1, <3>5
        <4>2. MemoryOK(row'[m], since[m].stage, day)
          BY <1>5, <1>11, <3>2, <4>1, NudgedFine
        <4>3. since'[m] = since[m]
          BY <1>2, <3>5
        <4>4. row'[m].recalled = row[m].recalled
          BY <1>11, <3>2, <4>1 DEF Kept
        <4>. QED  BY <1>5, <1>15, <3>1, <3>3, <4>2, <4>3, <4>4
      <3>. QED  BY <3>4, <3>5
    <2>. QED  BY <2>1, <2>2
  <1>17. waiting' \subseteq Job /\ JobInv'
    <2> DEFINE new == {NewJob(m, row[m].rev + 1) : m \in rewrites}
               jobs == Regenerations(row, today) \cup new
    <2>1. Fresh(Regenerations(row, today))
      <3>1. \A m \in Memory : row'[m].born = row[m].born /\ row[m].rev <= row'[m].rev
        BY <1>13
      <3>. QED  BY <1>1, <1>3, <3>1, Regenerated
    <2>2. Fresh(new)
      <3> SUFFICES ASSUME NEW m \in rewrites
                   PROVE  /\ m \in Memory /\ row[m].rev + 1 \in Revision /\ Uncovered(m, row[m].rev + 1)
                          /\ row'[m].born # NoDate /\ row[m].rev + 1 <= row'[m].rev
        BY NewJobFields DEF Fresh
      <3>1. m \in M /\ m \in Memory /\ row[m].born # NoDate
        BY <1>2, <1>6 DEF Born
      <3>2. row'[m].rev = row[m].rev + 1 /\ row'[m].born = row[m].born /\ row'[m].rev \in Revision
        BY <1>13, <3>1, Fields
      <3>3. row[m].rev \in Int
        BY <1>3, <1>5, <3>1, Fields DEF Revision
      <3>. QED  BY <1>1, <3>1, <3>2, <3>3, NoneYet
    <2>3. Fresh(jobs)
      BY <2>1, <2>2, FreshUnion
    <2>4. waiting' = waiting \cup jobs
      BY <1>2
    <2> HIDE DEF jobs
    <2>. QED  BY <1>1, <1>2, <1>13, <1>14, <2>3, <2>4, JobsAdded
  <1>18. TypeOK'
    <2>1. since' \in [Memory -> [at : DateOrNone, stage : 0..MaxStage]]
      <3>1. \A m \in M : Reached(rows[m]) \in 0..MaxStage
        <4> SUFFICES ASSUME NEW m \in M PROVE Reached(rows[m]) \in 0..MaxStage
          OBVIOUS
        <4>1. rows[m].stage \in 0..MaxStage /\ rows[m].pending \in 0..MaxStage
          BY <1>4, Fields
        <4>. QED  BY <4>1 DEF Reached, Larger
      <3>2. \A m \in M : [at |-> day, stage |-> Reached(rows[m])] \in [at : DateOrNone, stage : 0..MaxStage]
        BY <1>5, <3>1
      <3>. QED  BY <1>1, <1>2, <3>2 DEF TypeOK
    <2>2. gaveUp' \subseteq Memory
      BY <1>1, <1>2 DEF TypeOK
    <2>3. lane' \in [Lane -> {NoJob} \cup [job : Job, called : BOOLEAN, held : BOOLEAN]]
      BY <1>1, <1>2 DEF TypeOK
    <2>. QED  BY <1>14, <1>15, <1>17, <2>1, <2>2, <2>3 DEF TypeOK
  <1>19. Live
    <2>1. ASSUME NEW m \in Born(row) PROVE CatchesUp(m)
      <3>1. m \in Memory /\ row[m] \in Row /\ clock \in Date
        BY <1>1, Dates
      <3>2. row'[m] \in Row /\ clock' \in Date
        BY <1>5, <1>13, <3>1
      <3>3. Kept(rows[m], row[m]) /\ rows[m].decay = Eroded(row[m], clock, clock')
        BY <1>5, <1>7
      <3>4. CASE m \in M
        BY <1>5, <1>10, <3>1, <3>2, <3>3, <3>4, Follows DEF Kept
      <3>5. CASE m \notin M
        BY <1>11, <3>1, <3>2, <3>3, <3>5, Follows DEF Kept
      <3>. QED  BY <3>4, <3>5
    <2>. QED  BY <1>13, <2>1 DEF Live
  <1>. QED  BY <1>15, <1>16, <1>17, <1>18, <1>19 DEF IInv, MemoryInv

LEMMA SyncKeeps ==
    ASSUME IInv, NEW today \in Date, Sync(today)
    PROVE  IInv' /\ Live
  <1> DEFINE day == Larger(clock, today)
  <1>1. TypeOK /\ MemoryInv /\ ClockInv /\ JobInv
    BY DEF IInv
  <1>2. /\ row' = Consolidated(row, today)
        /\ Advance(row, today, {})
        /\ waiting' = waiting \cup Regenerations(row, today)
        /\ gaveUp' = (IF Sleeps(today) THEN {} ELSE gaveUp)
        /\ UNCHANGED <<lane, since>>
    BY DEF Sync
  <1>3. Enters(row, today) /\ row \in [Memory -> Row] /\ MaxRewrites \in Nat
    BY <1>1, Numbers DEF Enters, TypeOK
  <1>4. /\ row' \in [Memory -> Row]
        /\ \A m \in Memory : row'[m].born = row[m].born /\ row'[m].rev = row[m].rev
                             /\ row'[m].ladder = row[m].ladder
    BY <1>1, <1>2, <1>3, Sleepers
  <1>5. /\ clock' = day /\ clock' \in DateOrNone /\ watermark' \in DateOrNone
        /\ active' \in [Memory -> DateOrNone] /\ slept' \in [Memory -> DateOrNone]
        /\ ClockInv'
        /\ \A m \in Born(row') : active'[m] <= clock'
    <2>1. \A m \in Memory : row[m].born = NoDate /\ row[m].born # NoDate => m \in {}
      OBVIOUS
    <2>2. \A m \in Memory : row'[m].born = row[m].born
      BY <1>4
    <2>3. {} \in SUBSET Memory
      OBVIOUS
    <2>. QED  BY <1>1, <1>2, <1>3, <1>4, <2>1, <2>2, <2>3, AdvanceKeeps
  <1> HIDE DEF day
  <1>6. ASSUME NEW m \in Memory
        PROVE  /\ row'[m].born = NoDate => row'[m] = NewRow(NoDate)
               /\ row'[m].born # NoDate => /\ MemoryOK(row'[m], since'[m].stage, clock')
                                           /\ since'[m].at = row'[m].recalled
                                           /\ active'[m] <= clock'
    <2>1. CASE row[m].born = NoDate
      BY <1>1, <1>2, <1>4, <2>1, Unborn DEF MemoryInv
    <2>2. CASE row[m].born # NoDate
      <3>1. m \in Born(row) /\ m \in Born(row') /\ row'[m].born # NoDate
        BY <1>4, <2>2 DEF Born
      <3>2. MemoryOK(row'[m], since[m].stage, day) /\ Kept(row'[m], row[m])
        BY <1>1, <1>2, <1>3, <2>2, <3>1, Woken DEF day
      <3>3. since[m].at = row[m].recalled /\ row'[m].recalled = row[m].recalled
        BY <1>1, <2>2, <3>2 DEF MemoryInv, Kept
      <3>4. since' = since
        BY <1>2
      <3>. QED  BY <1>5, <3>1, <3>2, <3>3, <3>4
    <2>. QED  BY <2>1, <2>2
  <1>7. waiting' \subseteq Job /\ JobInv'
    <2>1. \A m \in Memory : row'[m].born = row[m].born /\ row[m].rev <= row'[m].rev
      <3>1. \A m \in Memory : row'[m].rev \in Int
        BY <1>3, <1>4, Fields DEF Revision
      <3>. QED  BY <1>4, <3>1
    <2>2. Fresh(Regenerations(row, today))
      BY <1>1, <1>3, <2>1, Regenerated
    <2>. QED  BY <1>1, <1>2, <1>4, <2>1, <2>2, JobsAdded
  <1>8. TypeOK'
    <2>1. gaveUp' \subseteq Memory
      BY <1>1, <1>2 DEF TypeOK
    <2>2. /\ lane' \in [Lane -> {NoJob} \cup [job : Job, called : BOOLEAN, held : BOOLEAN]]
          /\ since' \in [Memory -> [at : DateOrNone, stage : 0..MaxStage]]
      BY <1>1, <1>2 DEF TypeOK
    <2>. QED  BY <1>4, <1>5, <1>7, <2>1, <2>2 DEF TypeOK
  <1>9. Live
    <2>1. ASSUME NEW m \in Born(row) PROVE CatchesUp(m)
      <3>1. m \in Memory /\ row[m] \in Row /\ clock \in Date
        BY <1>1, Dates
      <3>2. Kept(row'[m], row[m]) /\ row'[m].decay = Eroded(row[m], clock, clock')
        BY <1>1, <1>2, <1>3, <1>5, <3>1, Woken DEF day
      <3>3. clock' \in Date
        BY <1>1, <1>5, Clocks DEF day
      <3>. QED  BY <1>4, <3>1, <3>2, <3>3, Follows DEF Kept
    <2>. QED  BY <1>4, <2>1 DEF Live
  <1>. QED  BY <1>5, <1>6, <1>7, <1>8, <1>9 DEF IInv, MemoryInv

-----------------------------------------------------------------------------
(* So do the steps of the worker *)

\* The universe and its memories stand still.
LEMMA Still ==
    ASSUME IInv, UNCHANGED <<row, clock, watermark, active, slept, since>>
    PROVE  /\ MemoryInv' /\ ClockInv' /\ Live
           /\ \A j : Known(j)' <=> Known(j)
           /\ row' \in [Memory -> Row] /\ clock' \in DateOrNone /\ watermark' \in DateOrNone
           /\ active' \in [Memory -> DateOrNone] /\ slept' \in [Memory -> DateOrNone]
           /\ since' \in [Memory -> [at : DateOrNone, stage : 0..MaxStage]]
  <1>1. TypeOK /\ MemoryInv /\ ClockInv
    BY DEF IInv
  <1>2. MemoryInv'
    BY <1>1 DEF MemoryInv
  <1>3. ClockInv'
    BY <1>1 DEF ClockInv, SleptThroughEveryAdvance, Born
  <1>4. \A m \in Born(row) : CatchesUp(m)
    BY <1>1, Dates, Follow
  <1>. QED  BY <1>1, <1>2, <1>3, <1>4 DEF TypeOK, Live, Known

\* A claim moves a job from the queue to a lane.
LEMMA ClaimKeeps ==
    ASSUME IInv, NEW w \in Lane, NEW j \in waiting, Claim(w, j)
    PROVE  IInv' /\ Live
  <1> DEFINE k == [j EXCEPT !.left = @ - 1]
             held == [job |-> k, called |-> FALSE, held |-> TRUE]
  <1>1. TypeOK /\ MemoryInv /\ ClockInv /\ JobInv
    BY DEF IInv
  <1>2. /\ lane[w] = NoJob
        /\ waiting' = waiting \ {j}
        /\ lane' = [lane EXCEPT ![w] = held]
        /\ UNCHANGED <<row, clock, watermark, active, slept, since, gaveUp>>
    BY DEF Claim, universeVars
  <1>3. /\ MemoryInv' /\ ClockInv' /\ Live
        /\ \A i : Known(i)' <=> Known(i)
        /\ row' \in [Memory -> Row] /\ clock' \in DateOrNone /\ watermark' \in DateOrNone
        /\ active' \in [Memory -> DateOrNone] /\ slept' \in [Memory -> DateOrNone]
        /\ since' \in [Memory -> [at : DateOrNone, stage : 0..MaxStage]]
    BY <1>2, Still
  <1>4. k \in Job /\ k.memory = j.memory /\ k.rev = j.rev
    <2>1. j \in Job /\ j.left > 0 /\ Attempts \in Nat
      BY <1>1, Numbers DEF TypeOK, JobInv
    <2>. QED  BY <2>1 DEF Job
  <1>5. held.job = k /\ held.held /\ held \in [job : Job, called : BOOLEAN, held : BOOLEAN]
    BY <1>4
  <1> HIDE DEF k, held
  <1>6. lane \in [Lane -> {NoJob} \cup [job : Job, called : BOOLEAN, held : BOOLEAN]]
    BY <1>1 DEF TypeOK
  <1>7. lane'[w] = held /\ \A v \in Lane : v # w => lane'[v] = lane[v]
    BY <1>2, <1>6
  <1>8. TypeOK'
    <2>1. lane' \in [Lane -> {NoJob} \cup [job : Job, called : BOOLEAN, held : BOOLEAN]]
      BY <1>2, <1>5, <1>6
    <2>2. waiting' \subseteq Job /\ gaveUp' \subseteq Memory
      BY <1>1, <1>2 DEF TypeOK
    <2>. QED  BY <1>3, <2>1, <2>2 DEF TypeOK
  <1>9. JobInv'
    <2>1. /\ \A i \in waiting : i.left > 0 /\ Known(i)
          /\ \A v \in Lane : lane[v] # NoJob => Known(lane[v].job)
          /\ \A h, i \in waiting : h.memory = i.memory /\ h.rev = i.rev => h = i
          /\ \A v \in Lane, i \in waiting : ~Working(v, i)
          /\ \A v, u \in Lane : v # u /\ lane[u] # NoJob /\ lane[u].held => ~Working(v, lane[u].job)
      BY <1>1 DEF JobInv
    <2>2. Known(k)
      BY <1>4, <2>1 DEF Known
    <2>3. \A v \in Lane : lane'[v] # NoJob => Known(lane'[v].job)
      BY <1>5, <1>7, <2>1, <2>2
    <2>4. ASSUME NEW v \in Lane, NEW i \in waiting' PROVE ~Working(v, i)'
      <3>1. i \in waiting /\ i # j
        BY <1>2
      <3>2. CASE v = w
        BY <1>4, <1>5, <1>7, <2>1, <3>1, <3>2 DEF Working
      <3>3. CASE v # w
        BY <1>7, <2>1, <3>1, <3>3 DEF Working
      <3>. QED  BY <3>2, <3>3
    <2>5. ASSUME NEW v \in Lane, NEW u \in Lane, v # u, lane'[u] # NoJob, lane'[u].held,
                 lane'[v] # NoJob, lane'[v].held,
                 lane'[v].job.memory = lane'[u].job.memory, lane'[v].job.rev = lane'[u].job.rev
          PROVE  FALSE
      <3>1. CASE u = w
        <4>1. ~Working(v, j)
          BY <2>1
        <4>. QED  BY <1>4, <1>5, <1>7, <2>5, <3>1, <4>1 DEF Working
      <3>2. CASE v = w
        <4>1. ~Working(u, j)
          BY <2>1
        <4>. QED  BY <1>4, <1>5, <1>7, <2>5, <3>2, <4>1 DEF Working
      <3>3. CASE u # w /\ v # w
        <4>1. ~Working(v, lane[u].job)
          BY <1>7, <2>1, <2>5, <3>3
        <4>. QED  BY <1>7, <2>5, <3>3, <4>1 DEF Working
      <3>. QED  BY <3>1, <3>2, <3>3
    <2>6. \A i \in waiting' : i \in waiting
      BY <1>2
    <2>7. \A v \in Lane : lane'[v] # NoJob => row'[lane'[v].job.memory].born # NoDate
                                             /\ lane'[v].job.rev <= row'[lane'[v].job.memory].rev
      BY <1>2, <2>3 DEF Known
    <2>. QED  BY <1>3, <2>1, <2>4, <2>5, <2>6, <2>7 DEF JobInv, Working, Known
  <1>. QED  BY <1>3, <1>8, <1>9 DEF IInv

\* A lane lets go of its job, or of its lease, or keeps it.
LEMMA LetGo ==
    ASSUME TypeOK, JobInv, NEW w \in Lane, lane[w] # NoJob,
           \A m \in Memory : row'[m].born = row[m].born /\ row'[m].rev = row[m].rev,
           \A v \in Lane : v # w => lane'[v] = lane[v],
           \/ lane'[w] = NoJob
           \/ lane'[w].job = lane[w].job /\ (lane'[w].held => lane[w].held),
           \/ waiting' = waiting
           \/ /\ waiting' = waiting \cup {lane[w].job}
              /\ lane[w].held /\ lane[w].job.left > 0
              /\ lane'[w] = NoJob \/ ~lane'[w].held
    PROVE  JobInv'
  <1> DEFINE j == lane[w].job
  <1>1. /\ \A i \in waiting : i.left > 0 /\ Known(i)
        /\ \A v \in Lane : lane[v] # NoJob => Known(lane[v].job)
        /\ \A h, i \in waiting : h.memory = i.memory /\ h.rev = i.rev => h = i
        /\ \A v \in Lane, i \in waiting : ~Working(v, i)
        /\ \A v, u \in Lane : v # u /\ lane[u] # NoJob /\ lane[u].held => ~Working(v, lane[u].job)
    BY DEF JobInv
  <1>2. \A i \in waiting : i.memory \in Memory
    BY DEF TypeOK, Job
  <1>3. \A v \in Lane : lane[v] # NoJob => lane[v].job.memory \in Memory
    BY DEF TypeOK, Job
  <1>4. \A i : i.memory \in Memory /\ Known(i) => Known(i)'
    BY DEF Known
  <1>5. \A v \in Lane : lane'[v] # NoJob => lane[v] # NoJob /\ lane'[v].job = lane[v].job /\ (lane'[v].held => lane[v].held)
    OBVIOUS
  <1>6. Known(j) /\ j.memory \in Memory
    BY <1>1, <1>3
  <1>7. \A i \in waiting' : i \in waiting \/ (i = j /\ lane[w].held /\ j.left > 0 /\ (lane'[w] = NoJob \/ ~lane'[w].held))
    OBVIOUS
  <1>8. lane[w].held => \A i \in waiting : ~(i.memory = j.memory /\ i.rev = j.rev)
    BY <1>1 DEF Working
  <1> HIDE DEF j
  <1>9. \A i \in waiting' : i.left > 0 /\ Known(i)'
    BY <1>1, <1>2, <1>4, <1>6, <1>7
  <1>10. \A h, i \in waiting' : h.memory = i.memory /\ h.rev = i.rev => h = i
    BY <1>1, <1>7, <1>8
  <1>11. ASSUME NEW v \in Lane, NEW i \in waiting', lane'[v] # NoJob, lane'[v].held,
                lane'[v].job.memory = i.memory, lane'[v].job.rev = i.rev
         PROVE  FALSE
    <2>1. CASE i \in waiting
      BY <1>1, <1>5, <1>11, <2>1 DEF Working
    <2>2. CASE i = j /\ lane[w].held /\ (lane'[w] = NoJob \/ ~lane'[w].held)
      <3>1. v # w
        BY <1>11, <2>2
      <3>2. ~Working(v, j)
        BY <1>1, <2>2, <3>1 DEF j
      <3>. QED  BY <1>5, <1>11, <2>2, <3>2 DEF Working
    <2>. QED  BY <1>7, <2>1, <2>2
  <1>12. ASSUME NEW v \in Lane, NEW u \in Lane, v # u, lane'[u] # NoJob, lane'[u].held,
                lane'[v] # NoJob, lane'[v].held,
                lane'[v].job.memory = lane'[u].job.memory, lane'[v].job.rev = lane'[u].job.rev
         PROVE  FALSE
    <2>1. ~Working(v, lane[u].job)
      BY <1>1, <1>5, <1>12
    <2>. QED  BY <1>5, <1>12, <2>1 DEF Working
  <1>13. \A v \in Lane : lane'[v] # NoJob => row'[lane'[v].job.memory].born # NoDate
                                            /\ lane'[v].job.rev <= row'[lane'[v].job.memory].rev
    BY <1>1, <1>3, <1>5 DEF Known
  <1>. QED  BY <1>9, <1>10, <1>11, <1>12, <1>13 DEF JobInv, Working, Known

\* What a finished generation makes of a memory: the rise that waited is shown
\* and in the provenance, and no rung already shown is written again.
LEMMA MaterializedFine ==
    ASSUME NEW r, NEW s \in 0..MaxStage, NEW c \in Date, Fine(r, s, c), NEW rev \in Revision
    PROVE  LET q == Materialized(r, rev)
           IN  /\ Fine(q, s, c)
               /\ q.born = r.born /\ q.recalled = r.recalled /\ q.recalls = r.recalls /\ q.rev = r.rev
               /\ q.offset = r.offset /\ q.decay = r.decay
               /\ \A i \in Stage : q.ladder[i] = r.ladder[i] \/ q.ladder[i] = rev
  <1> DEFINE ladder == Merged(r, rev)
             high == Reached(r)
             q == [r EXCEPT !.ladder = ladder,
                            !.stage = high,
                            !.history = @ \o Published(ladder, r.stage, high, r.riseAt),
                            !.pending = 0,
                            !.riseAt = NoDate]
  <1>1. r \in Row /\ Dated(r, c) /\ Recorded(r, c) /\ Paced(r, s, c)
    BY DEF Fine
  <1>2. /\ high \in 0..MaxStage /\ MaxStage \in Nat /\ r.stage \in 0..MaxStage /\ r.stage <= high
        /\ high = IF r.pending = 0 THEN r.stage ELSE r.pending
    BY <1>1, ReachedIs, Numbers
  <1>3. Materialized(r, rev) = q
    BY DEF Materialized
  <1>4. rev # Blank /\ r.ladder \in [Stage -> Revision \cup {Blank}]
    BY <1>1, Fields, Numbers DEF Revision, Blank
  <1>5. /\ ladder \in [Stage -> Revision \cup {Blank}]
        /\ \A i \in Stage : ladder[i] # Blank /\ (ladder[i] = r.ladder[i] \/ ladder[i] = rev)
        /\ \A i \in Stage : i <= r.stage /\ r.ladder[i] # Blank => ladder[i] = r.ladder[i]
    BY <1>4 DEF Merged
  <1> HIDE DEF ladder, high
  <1>6. /\ q.stage = high /\ q.pending = 0 /\ q.riseAt = NoDate /\ q.ladder = ladder
        /\ q.history = r.history \o Published(ladder, r.stage, high, r.riseAt)
        /\ q.born = r.born /\ q.recalled = r.recalled /\ q.recalls = r.recalls /\ q.rev = r.rev
        /\ q.offset = r.offset /\ q.decay = r.decay /\ q.anchor = r.anchor
    BY <1>1 DEF Row
  <1>7. /\ Len(r.history) = r.stage /\ r.history \in Seq(Entry)
        /\ r.pending # 0 => r.pending > r.stage /\ r.riseAt \in r.born..c
        /\ r.born \in 0..c /\ c \in 0..MaxDay /\ MaxDay \in Nat
    BY <1>1, Fields, Numbers DEF Recorded, Dated, Date
  <1>8. r.stage < high => r.pending # 0 /\ r.riseAt \in Date
    BY <1>2, <1>7 DEF Date
  <1> HIDE DEF q
  <1>9. /\ q.history \in Seq(Entry) /\ Len(q.history) = high
        /\ \A i \in 1..high : q.history[i] = IF i <= r.stage THEN r.history[i]
                                             ELSE [stage |-> i, text |-> ladder[i], at |-> r.riseAt]
    <2> DEFINE past == r.history
               low == r.stage
               day == r.riseAt
    <2>1. /\ past \in Seq(Entry) /\ Len(past) = low /\ low \in 0..MaxStage /\ high \in 0..MaxStage /\ low <= high
          /\ low < high => day \in Date
      BY <1>2, <1>7, <1>8
    <2>2. \A i \in (low + 1)..high : ladder[i] # Blank
      BY <1>2, <1>5 DEF Stage
    <2> HIDE DEF past, low, day
    <2> DEFINE g == past \o Published(ladder, low, high, day)
    <2>3. Extended(g, past, ladder, low, high, day)
      BY <1>5, <2>1, <2>2, Appended
    <2>4. q.history = g
      BY <1>6 DEF past, low, day
    <2> HIDE DEF g
    <2>. QED  BY <2>3, <2>4 DEF past, low, day, Extended
  <1>10. q \in Row
    <2>1. /\ q.stage \in 0..MaxStage /\ q.pending \in 0..MaxStage /\ q.riseAt \in DateOrNone
          /\ q.history \in Seq(Entry)
      BY <1>2, <1>6, <1>9 DEF DateOrNone
    <2>. QED  BY <1>1, <1>5, <1>6, <2>1 DEF q, Row, Entry
  <1>11. Reached(q) = high
    BY <1>2, <1>6 DEF Reached, Larger
  <1>12. Dated(q, c)
    BY <1>1, <1>6 DEF Dated
  <1>13. Paced(q, s, c)
    BY <1>1, <1>6, <1>11 DEF Paced, high
  <1>14. Recorded(q, c)
    <2>1. ASSUME NEW i \in 1..q.stage
          PROVE  /\ q.ladder[i] # Blank
                 /\ q.history[i].stage = i /\ q.history[i].text = q.ladder[i]
                 /\ q.history[i].at \in q.born..c
                 /\ i > 1 => q.history[i - 1].at <= q.history[i].at
      <3>1. i \in 1..high /\ i \in Stage /\ i \in Int
        BY <1>2, <1>6 DEF Stage
      <3>2. CASE i <= r.stage
        <4>1. i \in 1..r.stage
          BY <1>2, <3>1, <3>2
        <4>2. /\ r.ladder[i] # Blank
              /\ r.history[i].stage = i /\ r.history[i].text = r.ladder[i]
              /\ r.history[i].at \in r.born..c
              /\ i > 1 => r.history[i - 1].at <= r.history[i].at
          BY <1>1, <4>1 DEF Recorded
        <4>3. q.history[i] = r.history[i] /\ ladder[i] = r.ladder[i]
          BY <1>5, <1>9, <3>1, <3>2, <4>2
        <4>4. i > 1 => q.history[i - 1] = r.history[i - 1]
          <5> SUFFICES ASSUME i > 1 PROVE q.history[i - 1] = r.history[i - 1]
            OBVIOUS
          <5>1. i - 1 \in 1..high /\ i - 1 <= r.stage
            BY <1>2, <3>1, <3>2
          <5>. QED  BY <1>9, <5>1
        <4>. QED  BY <1>6, <4>2, <4>3, <4>4
      <3>3. CASE i > r.stage
        <4>1. q.history[i] = [stage |-> i, text |-> ladder[i], at |-> r.riseAt]
          BY <1>2, <1>9, <3>1, <3>3
        <4>2. q.history[i].stage = i /\ q.history[i].text = ladder[i] /\ q.history[i].at = r.riseAt
          BY <4>1
        <4>3. r.pending # 0 /\ r.riseAt \in r.born..c /\ r.riseAt \in Int
          BY <1>2, <1>7, <1>8, <3>1, <3>3
        <4>4. i > 1 => q.history[i - 1].at <= r.riseAt
          <5> SUFFICES ASSUME i > 1 PROVE q.history[i - 1].at <= r.riseAt
            OBVIOUS
          <5>1. i - 1 \in 1..high
            BY <1>2, <3>1
          <5>2. CASE i - 1 <= r.stage
            <6>1. i - 1 \in 1..r.stage
              BY <1>2, <5>1, <5>2
            <6>2. r.history[i - 1].at <= r.riseAt
              BY <1>1, <4>3, <6>1 DEF Recorded
            <6>3. q.history[i - 1] = r.history[i - 1]
              BY <1>9, <5>1, <5>2
            <6>. QED  BY <6>2, <6>3
          <5>3. CASE ~(i - 1 <= r.stage)
            <6>1. q.history[i - 1] = [stage |-> i - 1, text |-> ladder[i - 1], at |-> r.riseAt]
              BY <1>9, <5>1, <5>3
            <6>. QED  BY <4>3, <6>1
          <5>. QED  BY <5>2, <5>3
        <4>. QED  BY <1>5, <1>6, <3>1, <4>2, <4>3, <4>4
      <3>. QED  BY <1>2, <3>1, <3>2, <3>3
    <2>. QED  BY <1>6, <1>9, <2>1 DEF Recorded
  <1>. QED  BY <1>3, <1>5, <1>6, <1>10, <1>12, <1>13, <1>14 DEF Fine

LaneType == {NoJob} \cup [job : Job, called : BOOLEAN, held : BOOLEAN]

\* A lane that lets go or keeps its job, of a universe that stands still.
LEMMA LaneStepKeeps ==
    ASSUME IInv, NEW w \in Lane, lane[w] # NoJob, NEW x \in LaneType, lane' = [lane EXCEPT ![w] = x],
           UNCHANGED <<row, clock, watermark, active, slept, since>>,
           x = NoJob \/ (x.job = lane[w].job /\ (x.held => lane[w].held)),
           \/ waiting' = waiting
           \/ waiting' = waiting \cup {lane[w].job} /\ lane[w].held /\ lane[w].job.left > 0 /\ (x = NoJob \/ ~x.held),
           gaveUp' \subseteq Memory
    PROVE  IInv' /\ Live
  <1>1. TypeOK /\ MemoryInv /\ ClockInv /\ JobInv
    BY DEF IInv
  <1>2. /\ MemoryInv' /\ ClockInv' /\ Live
        /\ row' \in [Memory -> Row] /\ clock' \in DateOrNone /\ watermark' \in DateOrNone
        /\ active' \in [Memory -> DateOrNone] /\ slept' \in [Memory -> DateOrNone]
        /\ since' \in [Memory -> [at : DateOrNone, stage : 0..MaxStage]]
    BY Still
  <1>3. lane \in [Lane -> LaneType] /\ waiting \subseteq Job
    BY <1>1 DEF TypeOK, LaneType
  <1>4. lane' \in [Lane -> LaneType] /\ lane'[w] = x /\ \A v \in Lane : v # w => lane'[v] = lane[v]
    BY <1>3
  <1>5. lane[w].job \in Job
    BY <1>3 DEF LaneType
  <1>6. TypeOK'
    BY <1>2, <1>3, <1>4, <1>5 DEF TypeOK, LaneType
  <1>7. JobInv'
    <2>1. \A m \in Memory : row'[m].born = row[m].born /\ row'[m].rev = row[m].rev
      OBVIOUS
    <2>. QED  BY <1>1, <1>4, <2>1, LetGo
  <1>. QED  BY <1>2, <1>6, <1>7 DEF IInv

LEMMA ReadSourceKeeps ==
    ASSUME IInv, NEW w \in Lane, ReadSource(w)
    PROVE  IInv' /\ Live
  <1> DEFINE x == IF Fenced(w) THEN [lane[w] EXCEPT !.called = TRUE] ELSE NoJob
  <1>1. /\ lane[w] # NoJob /\ lane' = [lane EXCEPT ![w] = x] /\ waiting' = waiting /\ gaveUp' = gaveUp
        /\ UNCHANGED <<row, clock, watermark, active, slept, since>>
    BY DEF ReadSource, universeVars
  <1>2. lane[w] \in [job : Job, called : BOOLEAN, held : BOOLEAN] /\ gaveUp \subseteq Memory
    BY <1>1 DEF IInv, TypeOK
  <1>3. x \in LaneType /\ (x = NoJob \/ (x.job = lane[w].job /\ (x.held => lane[w].held)))
    BY <1>2 DEF LaneType
  <1> HIDE DEF x
  <1>. QED  BY <1>1, <1>2, <1>3, LaneStepKeeps

LEMMA FailGenerationKeeps ==
    ASSUME IInv, NEW w \in Lane, FailGeneration(w)
    PROVE  IInv' /\ Live
  <1>1. /\ lane[w] # NoJob /\ lane' = [lane EXCEPT ![w] = NoJob]
        /\ IF lane[w].held THEN Returned(lane[w].job) ELSE UNCHANGED <<waiting, gaveUp>>
        /\ UNCHANGED <<row, clock, watermark, active, slept, since>>
    BY DEF FailGeneration, universeVars
  <1>2. lane[w] \in [job : Job, called : BOOLEAN, held : BOOLEAN] /\ gaveUp \subseteq Memory
    BY <1>1 DEF IInv, TypeOK
  <1>3. lane[w].job.memory \in Memory
    BY <1>2 DEF Job
  <1>4. gaveUp' \subseteq Memory
    BY <1>1, <1>2, <1>3 DEF Returned
  <1>5. \/ waiting' = waiting
        \/ waiting' = waiting \cup {lane[w].job} /\ lane[w].held /\ lane[w].job.left > 0
    BY <1>1 DEF Returned
  <1>6. NoJob \in LaneType
    BY DEF LaneType
  <1>. QED  BY <1>1, <1>4, <1>5, <1>6, LaneStepKeeps

LEMMA LoseLeaseKeeps ==
    ASSUME IInv, NEW w \in Lane, LoseLease(w)
    PROVE  IInv' /\ Live
  <1> DEFINE x == [lane[w] EXCEPT !.held = FALSE]
  <1>1. /\ lane[w] # NoJob /\ lane[w].held /\ lane' = [lane EXCEPT ![w] = x]
        /\ Returned(lane[w].job)
        /\ UNCHANGED <<row, clock, watermark, active, slept, since>>
    BY DEF LoseLease, universeVars
  <1>2. lane[w] \in [job : Job, called : BOOLEAN, held : BOOLEAN] /\ gaveUp \subseteq Memory
    BY <1>1 DEF IInv, TypeOK
  <1>3. lane[w].job.memory \in Memory
    BY <1>2 DEF Job
  <1>4. x \in LaneType /\ x.job = lane[w].job /\ ~x.held
    BY <1>2 DEF LaneType
  <1> HIDE DEF x
  <1>5. gaveUp' \subseteq Memory
    BY <1>1, <1>2, <1>3 DEF Returned
  <1>6. \/ waiting' = waiting
        \/ waiting' = waiting \cup {lane[w].job} /\ lane[w].job.left > 0
    BY <1>1 DEF Returned
  <1>. QED  BY <1>1, <1>4, <1>5, <1>6, LaneStepKeeps

LEMMA CompleteSemanticizeKeeps ==
    ASSUME IInv, NEW w \in Lane, CompleteSemanticize(w)
    PROVE  IInv' /\ Live
  <1> DEFINE j == lane[w].job
             n == j.memory
  <1>1. /\ lane[w] # NoJob /\ lane' = [lane EXCEPT ![w] = NoJob]
        /\ row' = (IF Fenced(w) THEN [row EXCEPT ![n] = Materialized(row[n], j.rev)] ELSE row)
        /\ UNCHANGED <<clock, watermark, active, slept, since, waiting, gaveUp>>
    BY DEF CompleteSemanticize, universeVars
  <1>2. TypeOK /\ MemoryInv /\ ClockInv /\ JobInv
    BY DEF IInv
  <1>3. lane[w] \in [job : Job, called : BOOLEAN, held : BOOLEAN] /\ gaveUp \subseteq Memory
    BY <1>1, <1>2 DEF TypeOK
  <1>4. CASE ~Fenced(w)
    <2>1. NoJob \in LaneType /\ UNCHANGED <<row, clock, watermark, active, slept, since>>
      BY <1>1, <1>4 DEF LaneType
    <2>. QED  BY <1>1, <1>3, <2>1, LaneStepKeeps
  <1>5. CASE Fenced(w)
    <2> DEFINE r == row[n]
               q == Materialized(r, j.rev)
               s == since[n].stage
    <2>1. n \in Memory /\ j.rev \in Revision /\ j.rev = r.rev
      BY <1>3, <1>5 DEF Job, Fenced
    <2>2. r.born # NoDate
      BY <1>1, <1>2 DEF JobInv, Known
    <2>3. /\ MemoryOK(r, s, clock) /\ since[n].at = r.recalled /\ active[n] <= clock
          /\ r \in Row /\ s \in 0..MaxStage /\ clock \in DateOrNone
      BY <1>2, <2>1, <2>2 DEF MemoryInv, TypeOK
    <2>4. clock \in Date
      <3>1. clock # NoDate
        BY <1>2, <2>1, <2>2 DEF ClockInv, Born
      <3>. QED  BY <2>3, <3>1 DEF DateOrNone
    <2>5. Fine(r, s, clock)
      BY <2>3 DEF MemoryOK, Fine
    <2>6. row' = [row EXCEPT ![n] = q]
      BY <1>1, <1>5
    <2> HIDE DEF r, j, s, n
    <2>7. /\ Fine(q, s, clock)
          /\ q.born = r.born /\ q.recalled = r.recalled /\ q.recalls = r.recalls /\ q.rev = r.rev
          /\ q.offset = r.offset /\ q.decay = r.decay
          /\ \A i \in Stage : q.ladder[i] = r.ladder[i] \/ q.ladder[i] = j.rev
      BY <2>1, <2>3, <2>4, <2>5, MaterializedFine
    <2> HIDE DEF q
    <2>8. MemoryOK(q, s, clock) /\ q \in Row
      BY <2>7 DEF MemoryOK, Fine
    <2>9. row \in [Memory -> Row] /\ row' \in [Memory -> Row]
           /\ row'[n] = q /\ \A m \in Memory : m # n => row'[m] = row[m]
      BY <1>2, <2>1, <2>6, <2>8 DEF TypeOK
    <2>10. \A m \in Memory : row'[m].born = row[m].born /\ row'[m].rev = row[m].rev
      BY <2>7, <2>9 DEF r
    <2>11. MemoryInv'
      <3> SUFFICES ASSUME NEW m \in Memory
                   PROVE  /\ row'[m].born = NoDate => row'[m] = NewRow(NoDate)
                          /\ row'[m].born # NoDate => /\ MemoryOK(row'[m], since[m].stage, clock)
                                                      /\ since[m].at = row'[m].recalled
                                                      /\ active[m] <= clock
        BY <1>1 DEF MemoryInv
      <3>1. CASE m = n
        BY <2>2, <2>3, <2>7, <2>8, <2>9, <3>1 DEF s
      <3>2. CASE m # n
        BY <1>2, <2>9, <3>2 DEF MemoryInv
      <3>. QED  BY <3>1, <3>2
    <2>12. ClockInv'
      <3>1. Born(row)' = Born(row)
        BY <2>10 DEF Born
      <3>2. \A m \in Born(row) : m \in Memory
        BY DEF Born
      <3>. QED  BY <1>1, <1>2, <2>10, <3>1, <3>2 DEF ClockInv, SleptThroughEveryAdvance
    <2>13. lane' \in [Lane -> LaneType] /\ lane'[w] = NoJob /\ \A v \in Lane : v # w => lane'[v] = lane[v]
      BY <1>1, <1>2 DEF TypeOK, LaneType
    <2>14. TypeOK'
      BY <1>1, <1>2, <2>9, <2>13 DEF TypeOK, LaneType
    <2>15. JobInv'
      BY <1>1, <1>2, <2>10, <2>13, LetGo
    <2>16. Live
      <3>1. ASSUME NEW m \in Born(row) PROVE CatchesUp(m)
        <4>1. m \in Memory
          BY DEF Born
        <4>2. row'[m].decay = row[m].decay /\ row'[m].recalled = row[m].recalled /\ row'[m].recalls = row[m].recalls
          BY <2>7, <2>9, <4>1 DEF r
        <4>. QED  BY <1>1, <1>2, <2>9, <4>1, <4>2, Follow
      <3>. QED  BY <2>1, <2>7, <2>9, <3>1 DEF Live, r
    <2>. QED  BY <2>11, <2>12, <2>14, <2>15, <2>16 DEF IInv
  <1>. QED  BY <1>4, <1>5

-----------------------------------------------------------------------------
(* The invariant holds *)

LEMMA Begins == Init => IInv
  <1> SUFFICES ASSUME Init PROVE IInv
    OBVIOUS
  <1>1. NewRow(NoDate) \in Row /\ NewRow(NoDate).born = NoDate /\ NoDate \in DateOrNone /\ MaxStage \in Nat
    <2>1. 0 \in Date
      BY Numbers DEF Date
    <2>. QED  BY <2>1, NewbornFine, Numbers DEF NewRow, DateOrNone
  <1>2. TypeOK
    BY <1>1 DEF Init, TypeOK
  <1>3. \A m \in Memory : row[m] = NewRow(NoDate)
    BY DEF Init
  <1>4. MemoryInv
    BY <1>1, <1>3 DEF MemoryInv
  <1>5. Born(row) = {}
    BY <1>1, <1>3 DEF Born
  <1>6. ClockInv
    BY <1>5 DEF Init, ClockInv, SleptThroughEveryAdvance
  <1>7. JobInv
    BY DEF Init, JobInv, Working
  <1>. QED  BY <1>2, <1>4, <1>6, <1>7 DEF IInv

LEMMA Steps == IInv /\ [Next]_vars => IInv' /\ (Live \/ UNCHANGED vars)
  <1> SUFFICES ASSUME IInv, [Next]_vars PROVE IInv' /\ (Live \/ UNCHANGED vars)
    OBVIOUS
  <1>1. CASE UNCHANGED vars
    <2>1. UNCHANGED <<row, clock, watermark, active, slept, since, waiting, lane, gaveUp>>
      BY <1>1 DEF vars
    <2>2. TypeOK' /\ JobInv'
      BY <2>1 DEF IInv, TypeOK, JobInv, Known, Working
    <2>3. MemoryInv' /\ ClockInv'
      BY <2>1, Still
    <2>. QED  BY <1>1, <2>2, <2>3 DEF IInv
  <1>2. ASSUME NEW D \in Diaries, NEW d \in Date, Launch(D, d) PROVE IInv' /\ Live
    BY <1>2, LaunchKeeps
  <1>3. ASSUME NEW D \in Diaries, NEW d \in Date, RecallDiary(D, d) PROVE IInv' /\ Live
    <2>1. D \in SUBSET Memory
      BY Links
    <2>. QED  BY <1>3, <2>1, ReinforceKeeps DEF RecallDiary
  <1>4. ASSUME NEW m \in Memory, NEW d \in Date, Recall(m, d) PROVE IInv' /\ Live
    <2>1. {m} \in SUBSET Memory
      OBVIOUS
    <2>. QED  BY <1>4, <2>1, ReinforceKeeps DEF Recall
  <1>5. ASSUME NEW m \in Memory, NEW d \in Date, Reconsolidate(m, d) PROVE IInv' /\ Live
    <2>1. {m} \in SUBSET Memory
      OBVIOUS
    <2>. QED  BY <1>5, <2>1, ReinforceKeeps DEF Reconsolidate
  <1>6. ASSUME NEW m \in Memory, NEW d \in Date, RestoreText(m, d) PROVE IInv' /\ Live
    <2>1. {m} \in SUBSET Memory
      OBVIOUS
    <2>. QED  BY <1>6, <2>1, ReinforceKeeps DEF RestoreText
  <1>7. ASSUME NEW d \in Date, Sync(d) PROVE IInv' /\ Live
    BY <1>7, SyncKeeps
  <1>8. ASSUME NEW w \in Lane, NEW j \in waiting, Claim(w, j) PROVE IInv' /\ Live
    BY <1>8, ClaimKeeps
  <1>9. ASSUME NEW w \in Lane, ReadSource(w) PROVE IInv' /\ Live
    BY <1>9, ReadSourceKeeps
  <1>10. ASSUME NEW w \in Lane, CompleteSemanticize(w) PROVE IInv' /\ Live
    BY <1>10, CompleteSemanticizeKeeps
  <1>11. ASSUME NEW w \in Lane, FailGeneration(w) PROVE IInv' /\ Live
    BY <1>11, FailGenerationKeeps
  <1>12. ASSUME NEW w \in Lane, LoseLease(w) PROVE IInv' /\ Live
    BY <1>12, LoseLeaseKeeps
  <1>. QED  BY <1>1, <1>2, <1>3, <1>4, <1>5, <1>6, <1>7, <1>8, <1>9, <1>10, <1>11, <1>12
            DEF Next, UseCase, Work

\* The invariant that the theorems below rest on, of every step of the
\* use-cases of consolidate.go, sync.go and recall.go and of the worker.
THEOREM SleepInvariant == Spec => []IInv
  <1>1. IInv /\ [Next]_vars => IInv'
    BY Steps
  <1>. QED  BY <1>1, Begins, PTL DEF Spec

\* What the memories, the clock, the jobs and the lanes can be.
THEOREM TypeCorrect == Spec => []TypeOK
  <1>1. IInv => TypeOK
    BY DEF IInv
  <1>. QED  BY <1>1, SleepInvariant, PTL

-----------------------------------------------------------------------------
(* What it says of the gists *)

\* Every gist has the provenance of its rises, whatever jumps, waits and
\* completions made it rise (advanceGistStage, CompleteSemanticizeJob).
THEOREM HistoryIsComplete == Spec => []HistoryMatchesStage
  <1>1. ASSUME IInv PROVE HistoryMatchesStage
    <2> SUFFICES ASSUME NEW m \in Born(row)
                 PROVE  LET h == row[m].history
                        IN  /\ Len(h) = row[m].stage
                            /\ \A i \in 1..Len(h) : /\ h[i].stage = i
                                                    /\ h[i].text = row[m].ladder[i]
                                                    /\ h[i].at \in row[m].born..clock
                                                    /\ i > 1 => h[i - 1].at <= h[i].at
      BY DEF HistoryMatchesStage
    <2>1. m \in Memory /\ row[m].born # NoDate
      BY DEF Born
    <2>2. Recorded(row[m], clock)
      BY <1>1, <2>1 DEF IInv, MemoryInv, MemoryOK
    <2>. QED  BY <2>2 DEF Recorded
  <1>. QED  BY <1>1, SleepInvariant, PTL

\* The schedule, from what the stages have consumed.
LEMMA ScheduleIs ==
    ASSUME NEW r \in Row, NEW s \in 0..MaxStage, NEW c \in Date, Dated(r, c), Recorded(r, c), Paced(r, s, c)
    PROVE  LET length == GistLength[r.recalls]
               due == Smaller(MaxStage, s + ((c - r.recalled) * Parts) \div length)
           IN  /\ Reached(r) <= due
               /\ WholeDays(length) => Reached(r) = due
               /\ Reached(r) < MaxStage => GistUnits(c - r.anchor, r.recalls) = 0
  <1> DEFINE length == GistLength[r.recalls]
             reached == Reached(r)
             risen == reached - s
             had == r.anchor - r.recalled
             rest == c - r.anchor
             days == c - r.recalled
             most == (days * Parts) \div length
             left == GistUnits(rest, r.recalls)
  <1>1. length \in Nat \ {0} /\ Parts \in Nat \ {0} /\ MaxStage \in Nat
    BY Fields, Lengths, Numbers
  <1>2. reached \in 0..MaxStage
    BY ReachedIs
  <1>3. had \in Nat /\ rest \in Nat /\ days \in Nat /\ days = had + rest
    BY Fields, Numbers DEF Dated, Date, DateOrNone, NoDate
  <1>4. /\ risen >= 0
        /\ reached < MaxStage => /\ risen * length <= had * Parts
                                 /\ WholeDays(length) => had * Parts = risen * length
                                 /\ rest * Parts < length
        /\ reached = MaxStage => risen * length <= days * Parts
    BY DEF Paced
  <1>5. risen \in Nat /\ reached = s + risen /\ s \in Nat
    BY <1>1, <1>2, <1>4
  <1>6. left \in Nat /\ (left >= 1 <=> rest * Parts >= 1 * length)
    <2>1. r.recalls \in 0..MaxRecalls
      BY Fields
    <2>. QED  BY <1>3, <2>1, Units
  <1> HIDE DEF length, reached, risen, had, rest, days, left
  <1>7. /\ days * Parts = had * Parts + rest * Parts
        /\ days * Parts \in Nat /\ had * Parts \in Nat /\ rest * Parts \in Nat
        /\ risen * length \in Nat
    BY <1>1, <1>3, <1>5, SMT
  <1>8. most \in Nat
    BY <1>1, <1>7, Quotient
  <1>9. risen <= most
    <2>1. days * Parts >= risen * length
      BY <1>1, <1>2, <1>4, <1>7
    <2>. QED  BY <1>1, <1>5, <1>7, <2>1, QuotientReaches
  <1>10. ASSUME reached < MaxStage, WholeDays(length) PROVE most = risen
    <2>1. days * Parts < risen * length + length
      BY <1>1, <1>4, <1>7, <1>10
    <2>2. (risen + 1) * length = risen * length + length /\ risen + 1 \in Nat
      BY <1>1, <1>5, SMT
    <2>3. ~(days * Parts >= (risen + 1) * length)
      BY <1>1, <1>7, <2>1, <2>2
    <2>4. ~(most >= risen + 1)
      BY <1>1, <1>7, <2>2, <2>3, QuotientReaches
    <2>. QED  BY <1>5, <1>8, <1>9, <2>4
  <1> HIDE DEF most
  <1>11. reached <= Smaller(MaxStage, s + most)
    BY <1>1, <1>2, <1>5, <1>8, <1>9 DEF Smaller
  <1>12. WholeDays(length) => reached = Smaller(MaxStage, s + most)
    <2>1. CASE reached = MaxStage
      BY <1>1, <1>5, <1>8, <1>9, <2>1 DEF Smaller
    <2>2. CASE reached < MaxStage
      BY <1>1, <1>5, <1>10, <2>2 DEF Smaller
    <2>. QED  BY <1>1, <1>2, <2>1, <2>2
  <1>13. reached < MaxStage => left = 0
    BY <1>1, <1>4, <1>6, <1>7
  <1>. QED  BY <1>11, <1>12, <1>13 DEF most, length, reached, days, rest, left

\* However the days are cut into advances, no gist runs ahead of them, one whose
\* stage lasts whole days is not behind them either, and no whole stage is left
\* on a timer (GistUnitsElapsed, ConsumeGistUnits, advanceGistStage).
THEOREM OnSchedule == Spec => []GistOnSchedule
  <1>1. ASSUME IInv PROVE GistOnSchedule
    <2> SUFFICES ASSUME NEW m \in Born(row)
                 PROVE  LET length == GistLength[row[m].recalls]
                            due == Smaller(MaxStage, since[m].stage + ((clock - since[m].at) * Parts) \div length)
                        IN  /\ Reached(row[m]) <= due
                            /\ WholeDays(length) => Reached(row[m]) = due
                            /\ Reached(row[m]) < MaxStage => GistUnits(clock - row[m].anchor, row[m].recalls) = 0
      BY DEF GistOnSchedule
    <2>1. m \in Memory /\ row[m].born # NoDate
      BY DEF Born
    <2>2. /\ Dated(row[m], clock) /\ Recorded(row[m], clock) /\ Paced(row[m], since[m].stage, clock)
          /\ since[m].at = row[m].recalled
      BY <1>1, <2>1 DEF IInv, MemoryInv, MemoryOK
    <2>3. row[m] \in Row /\ since[m].stage \in 0..MaxStage /\ clock \in Date
      BY <1>1, <2>1, Dates DEF IInv, TypeOK
    <2>. QED  BY <2>2, <2>3, ScheduleIs
  <1>. QED  BY <1>1, SleepInvariant, PTL

\* The texts of the word loss fall behind the stage a read derives only by a
\* neighbour's recall, the next stage makes up for all of it, and none is stored
\* ahead (newlyReachedDecayFill, NeighborForgettingDelta).
THEOREM DecayTextsFollow == Spec => DecayTextsCatchUp
  <1>1. IInv /\ [Next]_vars => IInv'
    BY Steps
  <1>2. IInv /\ [Next]_vars => [\A m \in Born(row) : CatchesUp(m)]_vars
    BY Steps DEF Live
  <1>. QED  BY <1>1, <1>2, Begins, PTL DEF Spec, DecayTextsCatchUp

-----------------------------------------------------------------------------
(* Of the synapses *)

\* No interval the clock crosses is left out (downscaleSynapses and the
\* watermark).
THEOREM EverySleepDownscales == Spec => []SleptThroughEveryAdvance
  <1>1. IInv => SleptThroughEveryAdvance
    BY DEF IInv, ClockInv
  <1>. QED  BY <1>1, SleepInvariant, PTL

-----------------------------------------------------------------------------
(* And of the generations *)

\* No representation has two jobs (ActiveTargetIDs).
THEOREM OneGeneration == Spec => []OneGenerationPerRevision
  <1>1. ASSUME IInv PROVE OneGenerationPerRevision
    <2> SUFFICES ASSUME NEW m \in Memory, NEW r \in Revision
                 PROVE  Cardinality(JobsOf(m, r)) + Cardinality(HeldFor(m, r)) <= 1
      BY DEF OneGenerationPerRevision
    <2> DEFINE J == JobsOf(m, r)
               H == HeldFor(m, r)
    <2>1. /\ \A i, j \in waiting : i.memory = j.memory /\ i.rev = j.rev => i = j
          /\ \A w \in Lane, j \in waiting : ~Working(w, j)
          /\ \A v, w \in Lane : v # w /\ lane[w] # NoJob /\ lane[w].held => ~Working(v, lane[w].job)
      BY <1>1 DEF IInv, JobInv
    <2>2. \A i, j \in J : i = j
      BY <2>1 DEF JobsOf
    <2>3. \A v, w \in H : v = w
      BY <2>1 DEF HeldFor, Working
    <2>4. J = {} \/ H = {}
      BY <2>1 DEF JobsOf, HeldFor, Working
    <2>5. ASSUME NEW S, \A x, y \in S : x = y
          PROVE  S = {} \/ \E x : S = {x}
      BY <2>5
    <2>6. ASSUME NEW S, \A x, y \in S : x = y
          PROVE  Cardinality(S) = IF S = {} THEN 0 ELSE 1
      <3>1. CASE S = {}
        BY <3>1, FS_EmptySet
      <3>2. CASE \E x : S = {x}
        BY <3>2, FS_Singleton
      <3>. QED  BY <2>5, <2>6, <3>1, <3>2
    <2> HIDE DEF J, H
    <2>7. Cardinality(J) = (IF J = {} THEN 0 ELSE 1) /\ Cardinality(H) = (IF H = {} THEN 0 ELSE 1)
      BY <2>2, <2>3, <2>6
    <2>. QED  BY <2>4, <2>7 DEF J, H
  <1>. QED  BY <1>1, SleepInvariant, PTL

\* A generation that comes late, of a text that was rewritten, writes nothing
\* (SemanticizeJobSource, CompleteSemanticizeJob).
THEOREM TextsAreLive == Spec => GeneratedFromLiveText
  <1>1. IInv /\ [Next]_vars => IInv'
    BY Steps
  <1>2. IInv /\ [Next]_vars =>
           [\A m \in Memory, s \in Stage :
              row'[m].ladder[s] # row[m].ladder[s] => row'[m].ladder[s] = row'[m].rev]_vars
    BY Steps DEF Live
  <1>. QED  BY <1>1, <1>2, Begins, PTL DEF Spec, GeneratedFromLiveText
=============================================================================
