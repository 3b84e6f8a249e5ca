------------------------ MODULE MaterializationProofs ------------------------
(***************************************************************************)
(* The target of a schedule holds what its runs were to load, for any      *)
(* number of rows and of overlapping runs, any lost answers and watermarks *)
(* and any watermark values, when the schedule names its database.         *)
(***************************************************************************)
EXTENDS Materialization, TLAPS, WellFoundedInduction

\* The watermarks in use: none, or no larger than that of a row of the target.
Reached(m) == m = NoMark \/ \E s \in Held : m <= source[s]

\* What is read is there, and nothing is held before the table is created.
Known ==
  /\ Held \subseteq Present
  /\ \A w \in Workers : batch[w] \subseteq Present
  /\ ~exists => Held = {}

\* Rows that came in time are held up to the largest value of the target, and
\* up to the largest value of a batch with the batch.
HeldUpTo ==
  \A r \in Present \ late, s \in Held : source[r] <= source[s] => r \in Held

BatchUpTo ==
  \A w \in Workers : \A r \in Present \ late, s \in batch[w] :
    source[r] <= source[s] => r \in Held \cup batch[w]

MarksReached ==
  /\ Reached(mark)
  /\ \A w \in Workers : pc[w] = "select" => Reached(from[w])
  /\ \A w \in Workers : pc[w] = "record" => Reached(result[w])

NothingIsSkipped == strategy = "incremental" => HeldUpTo /\ BatchUpTo /\ MarksReached

\* Without an overlap one run is in progress.  What lies above the recorded
\* watermark, and above the one of a run that has not committed, was loaded
\* once for each watermark that was lost.
OneRun == \A u, w \in Workers : pc[u] # "idle" /\ pc[w] # "idle" => u = w

FreshAbove(m) == \A r \in Rows : source[r] > m => target[r] <= losses

BatchAbove(w) == \A r \in batch[w] : source[r] > from[w]

RunIsAbove(w) ==
  /\ pc[w] \in {"select", "commit"} => FreshAbove(from[w])
  /\ pc[w] = "commit" => BatchAbove(w)
  /\ pc[w] = "record" => \A r \in Held : source[r] <= result[w]

LoadedOnce ==
  NamedDatabase /\ strategy = "incremental" /\ ~overlapped =>
    /\ \A r \in Rows : target[r] <= 1 + losses
    /\ (\A w \in Workers : pc[w] # "record") => FreshAbove(mark)
    /\ \A w \in Workers : RunIsAbove(w)

IInv ==
  /\ TypeOK
  /\ Known
  /\ NothingIsSkipped
  /\ ~overlapped => OneRun
  /\ LoadedOnce
  /\ ReloadIsExact

----------------------------------------------------------------------------
\* A set of watermark values has a largest one.
LEMMA LargestValue ==
  ASSUME NEW T, T \subseteq 0 .. MaxValue, T # {}
  PROVE  \E v \in T : \A u \in T : u <= v
<1> DEFINE R == {ss \in Nat \X Nat : ss[1] < ss[2]}
<1> DEFINE D == {n \in Nat : MaxValue - n \in T}
<1>1. D \subseteq Nat
  OBVIOUS
<1>2. D # {}
  <2>1. PICK v \in T : TRUE
    OBVIOUS
  <2>2. v \in 0 .. MaxValue
    OBVIOUS
  <2>3. MaxValue - v \in Nat /\ MaxValue - (MaxValue - v) = v
    BY <2>2, MaterializationAssumption
  <2> QED
    BY <2>3
<1>3. IsWellFoundedOn(R, Nat)
  BY NatLessThanWellFounded DEF OpToRel
<1>4. PICK x \in D : \A y \in D : ~(<<y, x>> \in R)
  <2> HIDE DEF D, R
  <2> QED
    BY <1>1, <1>2, <1>3, WFMin
<1>5. \A y \in D : ~(y < x)
  BY <1>4
<1>6. MaxValue - x \in T
  BY <1>4
<1>7. ASSUME NEW u \in T PROVE u <= MaxValue - x
  <2>1. u \in 0 .. MaxValue
    OBVIOUS
  <2>2. MaxValue - u \in Nat /\ MaxValue - (MaxValue - u) = u
    BY <2>1, MaterializationAssumption
  <2>3. ~(MaxValue - u < x)
    BY <2>2, <1>5
  <2>4. x \in Nat
    OBVIOUS
  <2> HIDE DEF D
  <2> QED
    BY <2>1, <2>3, <2>4, MaterializationAssumption
<1> QED
  BY <1>6, <1>7

\* What MAX(watermark) answers: a value of the rows, and none larger.
LEMMA MaxMarkIs ==
  ASSUME TypeOK, NEW S \in SUBSET Rows
  PROVE  /\ MaxMark(S) \in 0 .. MaxValue
         /\ \A r \in S : source[r] <= MaxMark(S)
         /\ MaxMark(S) = NoMark \/ \E s \in S : source[s] = MaxMark(S)
<1>1. CASE S = {}
  BY <1>1, MaterializationAssumption DEF MaxMark, NoMark
<1>2. CASE S # {}
  <2> DEFINE T == {source[r] : r \in S}
  <2>1. T \subseteq 0 .. MaxValue /\ T # {}
    BY <1>2 DEF TypeOK
  <2>2. PICK v \in T : \A u \in T : u <= v
    BY <2>1, LargestValue
  <2>3. \A r \in S : source[r] <= v
    BY <2>2
  <2>4. MaxMark(S) \in T /\ \A r \in S : source[r] <= MaxMark(S)
    BY <1>2, <2>3 DEF MaxMark
  <2> QED
    BY <2>1, <2>4
<1> QED
  BY <1>1, <1>2

----------------------------------------------------------------------------
\* The table after a transaction.
LEMMA WrittenIs ==
  ASSUME TypeOK, NEW new \in SUBSET Rows
  PROVE  /\ Written(new) \in [Rows -> Nat]
         /\ strategy # "incremental" =>
              \A r \in Rows : Written(new)[r] <= 1 \/ Written(new)[r] = target[r]
         /\ strategy = "incremental" /\ (~exists => Held = {}) =>
              \A r \in Rows : Written(new)[r] = target[r] + Once(new)[r]
<1>1. Once(new) \in [Rows -> Nat] /\ \A r \in Rows : Once(new)[r] <= 1
  BY DEF Once
<1>2. target \in [Rows -> Nat] /\ strategy \in Strategies
  BY DEF TypeOK
<1>3. Plus(target, new) \in [Rows -> Nat]
      /\ \A r \in Rows : Plus(target, new)[r] = target[r] + Once(new)[r]
  BY <1>1, <1>2 DEF Plus
<1>4. CASE ~exists
  <2>1. Written(new) = Once(new)
    BY <1>4 DEF Written
  <2>2. Held = {} => \A r \in Rows : target[r] = 0
    BY <1>2 DEF Held
  <2>3. QED
    <3>1. Held = {} => \A r \in Rows : Once(new)[r] = target[r] + Once(new)[r]
      BY <1>1, <2>2
    <3> QED
      BY <1>1, <1>4, <2>1, <3>1
<1>5. CASE exists /\ strategy = "create_only"
  <2>1. Written(new) = target
    BY <1>5 DEF Written
  <2> QED
    BY <1>2, <1>5, <2>1
<1>6. CASE exists /\ strategy = "incremental"
  <2>1. Written(new) = Plus(target, new)
    BY <1>6 DEF Written
  <2> QED
    BY <1>3, <1>6, <2>1
<1>7. CASE exists /\ strategy \in {"replace", "truncate_insert"}
  <2>1. Written(new) = Once(new)
    BY <1>7 DEF Written
  <2> QED
    BY <1>1, <1>7, <2>1
<1> QED
  BY <1>2, <1>4, <1>5, <1>6, <1>7 DEF Strategies

LEMMA SelectedIs ==
  ASSUME NEW start
  PROVE  Selected(start) \subseteq Present /\ Present \subseteq Rows
BY DEF Selected, Present

----------------------------------------------------------------------------
\* A step of a run that leaves both databases: the rows held and the marks
\* that are reached stay.
LEMMA DataStays ==
  ASSUME UNCHANGED data
  PROVE  Held' = Held /\ Present' = Present /\ \A m : Reached(m)' <=> Reached(m)
BY DEF data, Held, Present, Reached

LEMMA ArriveKeeps ==
  ASSUME IInv, NEW r \in Rows, NEW v \in 1 .. MaxValue, Arrive(r, v)
  PROVE  IInv'
<1> DEFINE Read == Held \cup UNION {batch[w] : w \in Workers}
<1>1. TypeOK'
  BY MaterializationAssumption DEF IInv, TypeOK, Arrive, NoMark
<1>2. r \notin Present /\ Present' = Present \cup {r} /\ Held' = Held
  BY DEF IInv, TypeOK, Arrive, Present, Held, NoMark
<1>3. \A q \in Present : q # r /\ source'[q] = source[q]
  BY <1>2 DEF IInv, TypeOK, Arrive, Present
<1>4. Held \subseteq Present /\ \A w \in Workers : batch[w] \subseteq Present
  BY DEF IInv, Known
<1>5. Known'
  BY <1>2, <1>4 DEF IInv, Known, Arrive
<1>6. r \in late' \/ \A s \in Read : source[s] < v
  <2>1. Read \in SUBSET Rows
    BY <1>4 DEF Present
  <2>2. MaxMark(Read) \in 0 .. MaxValue /\ \A s \in Read : source[s] <= MaxMark(Read)
    BY <2>1, MaxMarkIs DEF IInv
  <2>3. v <= MaxMark(Read) => r \in late'
    BY DEF Arrive
  <2>4. \A s \in Read : source[s] \in 0 .. MaxValue
    BY <2>1 DEF IInv, TypeOK
  <2> HIDE DEF Read
  <2> QED
    BY <2>2, <2>3, <2>4, MaterializationAssumption
<1>7. late \subseteq late' /\ late' \subseteq late \cup {r} /\ source'[r] = v
  BY DEF Arrive, IInv, TypeOK
<1>8. ASSUME strategy = "incremental" PROVE HeldUpTo' /\ BatchUpTo' /\ MarksReached'
  <2>1. HeldUpTo /\ BatchUpTo /\ MarksReached
    BY <1>8 DEF IInv, NothingIsSkipped
  <2>2. \A s \in Held : s \in Read /\ source'[s] = source[s]
    BY <1>3, <1>4
  <2>3. \A w \in Workers : \A s \in batch[w] : s \in Read /\ source'[s] = source[s]
    BY <1>3, <1>4
  <2>4. v \in Int /\ \A s \in Present : source[s] \in Int
    BY DEF IInv, TypeOK, Present
  <2>5. r \in late' \/ \A s \in Read : ~(v <= source[s])
    BY <1>4, <1>6, <2>4
  <2>6. batch' = batch /\ mark' = mark /\ pc' = pc /\ from' = from /\ result' = result
    BY DEF Arrive
  <2> HIDE DEF Read
  <2>7. HeldUpTo'
    BY <1>2, <1>3, <1>7, <2>1, <2>2, <2>5 DEF HeldUpTo
  <2>8. BatchUpTo'
    <3> SUFFICES ASSUME NEW w \in Workers, NEW q \in Present' \ late', NEW s \in batch[w],
                        source'[q] <= source'[s]
                 PROVE  q \in Held \cup batch[w]
      BY <1>2, <2>6 DEF BatchUpTo
    <3>1. q # r
      BY <1>7, <2>3, <2>5
    <3>2. q \in Present \ late /\ source'[q] = source[q]
      BY <1>2, <1>3, <1>7, <3>1
    <3> QED
      BY <2>1, <2>3, <3>2 DEF BatchUpTo
  <2>9. \A m : Reached(m) => Reached(m)'
    BY <1>2, <2>2 DEF Reached
  <2> QED
    BY <2>1, <2>6, <2>7, <2>8, <2>9 DEF MarksReached
<1>9. NothingIsSkipped' /\ ReloadIsExact' /\ (~overlapped' => OneRun')
  BY <1>8 DEF IInv, NothingIsSkipped, ReloadIsExact, NoDuplicateRows, OneRun, Arrive
<1>10. LoadedOnce'
  <2>1. target[r] = 0 /\ losses \in Nat
    BY <1>2, <1>4 DEF IInv, TypeOK, Held
  <2>2. \A q \in Rows : q # r => source'[q] = source[q]
    BY DEF IInv, TypeOK, Arrive
  <2>3. \A m : FreshAbove(m) => FreshAbove(m)'
    BY <2>1, <2>2 DEF FreshAbove, Arrive
  <2>4. \A w \in Workers : RunIsAbove(w) => RunIsAbove(w)'
    <3> SUFFICES ASSUME NEW w \in Workers, RunIsAbove(w) PROVE RunIsAbove(w)'
      OBVIOUS
    <3>1. pc' = pc /\ from' = from /\ batch' = batch /\ result' = result
      BY DEF Arrive
    <3>2. (pc[w] \in {"select", "commit"} => FreshAbove(from[w]))'
      BY <2>3, <3>1 DEF RunIsAbove
    <3>3. (pc[w] = "commit" => BatchAbove(w))'
      BY <1>3, <1>4, <3>1 DEF RunIsAbove, BatchAbove
    <3>4. (pc[w] = "record" => \A q \in Held : source[q] <= result[w])'
      BY <1>2, <1>3, <1>4, <3>1 DEF RunIsAbove
    <3> QED
      BY <3>2, <3>3, <3>4 DEF RunIsAbove
  <2> QED
    BY <2>3, <2>4 DEF IInv, LoadedOnce, Arrive
<1> QED
  BY <1>1, <1>5, <1>9, <1>10 DEF IInv

\* No step of a run makes a second one, except the start of one.
LEMMA OneRunStays ==
  ASSUME IInv, NEW w \in Workers, overlapped' = overlapped, pc[w] # "idle",
         \A u \in Workers \ {w} : pc'[u] = pc[u]
  PROVE  ~overlapped' => OneRun'
BY DEF IInv, OneRun

\* The others are idle, and nothing is said of them.
LEMMA OthersAreIdle ==
  ASSUME IInv, ~overlapped, NEW w \in Workers, pc[w] # "idle"
  PROVE  \A u \in Workers \ {w} : pc[u] = "idle"
BY DEF IInv, OneRun

LEMMA ReadKeeps ==
  ASSUME IInv, NEW w \in Workers, RunRead(w)
  PROVE  IInv'
<1>1. TypeOK'
  BY MaterializationAssumption DEF IInv, TypeOK, RunRead, RecordedMark, NoMark, data
<1>2. Held' = Held /\ Present' = Present /\ \A m : Reached(m)' <=> Reached(m)
  BY DataStays DEF RunRead
<1>3. Known'
  BY <1>2 DEF IInv, Known, RunRead, data
<1>4. from'[w] = NoMark \/ from'[w] = mark
  BY DEF IInv, TypeOK, RunRead, RecordedMark
<1>5. \A u \in Workers : u # w => from'[u] = from[u] /\ pc'[u] = pc[u]
  BY DEF IInv, TypeOK, RunRead
<1>6. NothingIsSkipped'
  <2>1. SUFFICES ASSUME strategy = "incremental" PROVE (HeldUpTo /\ BatchUpTo /\ MarksReached)'
    BY DEF NothingIsSkipped, RunRead
  <2>2. HeldUpTo /\ BatchUpTo /\ MarksReached
    BY <2>1 DEF IInv, NothingIsSkipped
  <2>3. HeldUpTo' /\ BatchUpTo'
    BY <1>2, <2>2 DEF HeldUpTo, BatchUpTo, RunRead, data
  <2>4. Reached(NoMark)
    BY DEF Reached
  <2>5. pc'[w] = "select" /\ result' = result /\ mark' = mark
    BY DEF IInv, TypeOK, RunRead, data
  <2>6. MarksReached'
    BY <1>2, <1>4, <1>5, <2>2, <2>4, <2>5 DEF MarksReached
  <2> QED
    BY <2>3, <2>6
<1>7. ~overlapped' => OneRun'
  BY DEF IInv, OneRun, RunRead, TypeOK
<1>8. LoadedOnce'
  <2>1. SUFFICES ASSUME NamedDatabase, strategy = "incremental", ~overlapped'
                 PROVE  /\ \A r \in Rows : target'[r] <= 1 + losses'
                        /\ (\A u \in Workers : pc'[u] # "record") => FreshAbove(mark)'
                        /\ \A u \in Workers : RunIsAbove(u)'
    BY DEF LoadedOnce, RunRead
  <2>2. ~overlapped /\ (\A u \in Workers : pc[u] = "idle")
    BY <2>1 DEF RunRead
  <2>3. (\A r \in Rows : target[r] <= 1 + losses) /\ FreshAbove(mark)
    BY <2>1, <2>2 DEF IInv, LoadedOnce
  <2>4. losses \in Nat /\ \A r \in Rows : target[r] \in Nat
    BY DEF IInv, TypeOK
  <2>5. \/ from'[w] = mark /\ losses' = losses
        \/ from'[w] = NoMark /\ losses' = losses + 1
    BY <2>1 DEF IInv, TypeOK, RunRead, RecordedMark
  <2>6. source' = source /\ target' = target /\ mark' = mark /\ pc'[w] = "select"
    BY DEF IInv, TypeOK, RunRead, data
  <2>7. losses' \in Nat /\ losses <= losses'
    BY <2>4, <2>5
  <2>8. FreshAbove(mark)'
    BY <2>3, <2>4, <2>6, <2>7 DEF FreshAbove
  <2>9. \A r \in Rows : source[r] > from'[w] => target[r] <= losses'
    BY <2>3, <2>4, <2>5 DEF FreshAbove
  <2>10. \A r \in Rows : target[r] <= 1 + losses'
    BY <2>3, <2>4, <2>7
  <2>11. RunIsAbove(w)'
    BY <2>6, <2>9 DEF RunIsAbove, FreshAbove
  <2>12. \A u \in Workers : u # w => pc'[u] = "idle"
    BY <1>5, <2>2
  <2>13. \A u \in Workers : RunIsAbove(u)'
    BY <2>11, <2>12 DEF RunIsAbove
  <2> QED
    BY <2>6, <2>8, <2>10, <2>13
<1>9. ReloadIsExact'
  BY DEF IInv, ReloadIsExact, NoDuplicateRows, RunRead, data
<1> QED
  BY <1>1, <1>3, <1>6, <1>7, <1>8, <1>9 DEF IInv

LEMMA SelectKeeps ==
  ASSUME IInv, NEW w \in Workers, RunSelect(w)
  PROVE  IInv'
<1>1. batch' = [batch EXCEPT ![w] = Selected(from[w])] /\ Selected(from[w]) \subseteq Present
      /\ Present \subseteq Rows
  BY SelectedIs DEF RunSelect
<1>2. TypeOK'
  BY <1>1 DEF IInv, TypeOK, RunSelect, data
<1>3. Held' = Held /\ Present' = Present /\ \A m : Reached(m)' <=> Reached(m)
  BY DataStays DEF RunSelect
<1>4. batch'[w] = Selected(from[w]) /\ \A u \in Workers : u # w => batch'[u] = batch[u]
  BY <1>1 DEF IInv, TypeOK
<1>5. Known'
  BY <1>1, <1>3, <1>4 DEF IInv, Known, RunSelect, data
<1>6. pc'[w] = "commit" /\ \A u \in Workers : u # w => pc'[u] = pc[u]
  BY DEF IInv, TypeOK, RunSelect
<1>7. NothingIsSkipped'
  <2>1. SUFFICES ASSUME strategy = "incremental" PROVE (HeldUpTo /\ BatchUpTo /\ MarksReached)'
    BY DEF NothingIsSkipped, RunSelect
  <2>2. HeldUpTo /\ BatchUpTo /\ MarksReached
    BY <2>1 DEF IInv, NothingIsSkipped
  <2>3. HeldUpTo'
    BY <1>3, <2>2 DEF HeldUpTo, RunSelect, data
  <2>4. MarksReached'
    BY <1>3, <1>6, <2>2 DEF MarksReached, RunSelect, data
  <2>5. \A r \in Present : source[r] \in Nat /\ r \in Rows
    BY DEF IInv, TypeOK, Present
  <2>6. ASSUME NEW r \in Present \ late, NEW s \in Selected(from[w]), source[r] <= source[s]
        PROVE  r \in Held \cup Selected(from[w])
    <3>1. CASE from[w] = NoMark
      BY <3>1 DEF Selected
    <3>2. CASE from[w] # NoMark /\ source[r] > from[w]
      BY <3>2 DEF Selected
    <3>3. CASE from[w] # NoMark /\ ~(source[r] > from[w])
      <4>1. PICK t \in Held : from[w] <= source[t]
        BY <2>2, <3>3 DEF MarksReached, Reached, RunSelect
      <4>2. from[w] \in Nat /\ source[r] \in Nat /\ source[t] \in Nat
        BY <2>5, <4>1 DEF IInv, TypeOK, Known
      <4>3. source[r] <= source[t]
        BY <3>3, <4>1, <4>2
      <4> QED
        BY <2>2, <4>1, <4>3 DEF HeldUpTo
    <3> QED
      BY <3>1, <3>2, <3>3
  <2>7. BatchUpTo'
    <3> SUFFICES ASSUME NEW u \in Workers, NEW r \in Present \ late, NEW s \in batch'[u],
                        source[r] <= source[s]
                 PROVE  r \in Held \cup batch'[u]
      BY <1>3 DEF BatchUpTo, RunSelect, data
    <3>1. CASE u = w
      BY <1>4, <2>6, <3>1
    <3>2. CASE u # w
      BY <1>4, <2>2, <3>2 DEF BatchUpTo
    <3> QED
      BY <3>1, <3>2
  <2> QED
    BY <2>3, <2>4, <2>7
<1>8. ~overlapped' => OneRun'
  BY <1>6, OneRunStays DEF RunSelect
<1>9. LoadedOnce'
  <2>1. SUFFICES ASSUME NamedDatabase, strategy = "incremental", ~overlapped
                 PROVE  /\ \A r \in Rows : target'[r] <= 1 + losses'
                        /\ (\A u \in Workers : pc'[u] # "record") => FreshAbove(mark)'
                        /\ \A u \in Workers : RunIsAbove(u)'
    BY DEF LoadedOnce, RunSelect
  <2>2. \A u \in Workers \ {w} : pc'[u] = "idle"
    BY <1>6, <2>1, OthersAreIdle DEF RunSelect
  <2>3. /\ \A r \in Rows : target[r] <= 1 + losses
        /\ FreshAbove(mark) /\ FreshAbove(from[w])
    BY <1>6, <2>1, <2>2 DEF IInv, LoadedOnce, RunIsAbove, RunSelect
  <2>4. source' = source /\ target' = target /\ mark' = mark /\ losses' = losses /\ from' = from
    BY DEF RunSelect, data
  <2>5. FreshAbove(mark)' /\ FreshAbove(from[w])'
    BY <2>3, <2>4 DEF FreshAbove
  <2>6. \A r \in Selected(from[w]) : source[r] > from[w]
    BY <2>1 DEF Selected, Present, NoMark, IInv, TypeOK
  <2>7. RunIsAbove(w)'
    BY <1>4, <1>6, <2>4, <2>5, <2>6 DEF RunIsAbove, BatchAbove
  <2>8. \A u \in Workers : RunIsAbove(u)'
    BY <2>2, <2>7 DEF RunIsAbove
  <2> QED
    BY <2>3, <2>4, <2>5, <2>8
<1>10. ReloadIsExact'
  BY DEF IInv, ReloadIsExact, NoDuplicateRows, RunSelect, data
<1> QED
  BY <1>2, <1>5, <1>7, <1>8, <1>9, <1>10 DEF IInv

\* Steps that leave both databases and every batch in use: a failed run, a
\* watermark that is not recorded.
LEMMA FailKeeps ==
  ASSUME IInv, NEW w \in Workers, RunFail(w)
  PROVE  IInv'
<1>1. TypeOK'
  BY DEF IInv, TypeOK, RunFail, data
<1>2. Held' = Held /\ Present' = Present /\ \A m : Reached(m)' <=> Reached(m)
  BY DataStays DEF RunFail
<1>3. batch'[w] = {} /\ \A u \in Workers : u # w => batch'[u] = batch[u]
  BY DEF IInv, TypeOK, RunFail
<1>4. pc'[w] = "idle" /\ \A u \in Workers : u # w => pc'[u] = pc[u]
  BY DEF IInv, TypeOK, RunFail
<1>5. Known'
  BY <1>2, <1>3 DEF IInv, Known, RunFail, data
<1>6. NothingIsSkipped'
  <2>1. SUFFICES ASSUME strategy = "incremental" PROVE (HeldUpTo /\ BatchUpTo /\ MarksReached)'
    BY DEF NothingIsSkipped, RunFail
  <2>2. HeldUpTo /\ BatchUpTo /\ MarksReached
    BY <2>1 DEF IInv, NothingIsSkipped
  <2>3. HeldUpTo'
    BY <1>2, <2>2 DEF HeldUpTo, RunFail, data
  <2>4. MarksReached'
    BY <1>2, <1>4, <2>2 DEF MarksReached, RunFail, data
  <2>5. BatchUpTo'
    BY <1>2, <1>3, <2>2 DEF BatchUpTo, RunFail, data
  <2> QED
    BY <2>3, <2>4, <2>5
<1>7. ~overlapped' => OneRun'
  BY <1>4, OneRunStays DEF RunFail
<1>8. LoadedOnce'
  <2>1. SUFFICES ASSUME NamedDatabase, strategy = "incremental", ~overlapped
                 PROVE  /\ \A r \in Rows : target'[r] <= 1 + losses'
                        /\ (\A u \in Workers : pc'[u] # "record") => FreshAbove(mark)'
                        /\ \A u \in Workers : RunIsAbove(u)'
    BY DEF LoadedOnce, RunFail
  <2>2. \A u \in Workers : pc'[u] = "idle"
    BY <1>4, <2>1, OthersAreIdle DEF RunFail
  <2>3. \A u \in Workers : pc[u] # "record"
    BY <1>4, <2>2 DEF RunFail
  <2>4. (\A r \in Rows : target[r] <= 1 + losses) /\ FreshAbove(mark)
    BY <2>1, <2>3 DEF IInv, LoadedOnce
  <2>5. FreshAbove(mark)' /\ target' = target /\ losses' = losses
    BY <2>4 DEF FreshAbove, RunFail, data
  <2> QED
    BY <2>2, <2>4, <2>5 DEF RunIsAbove
<1>9. ReloadIsExact'
  BY DEF IInv, ReloadIsExact, NoDuplicateRows, RunFail, data
<1> QED
  BY <1>1, <1>5, <1>6, <1>7, <1>8, <1>9 DEF IInv

LEMMA UpsertKeeps ==
  ASSUME IInv, NEW w \in Workers, RunUpsert(w)
  PROVE  IInv'
<1>1. TypeOK'
  BY DEF IInv, TypeOK, RunUpsert
<1>2. Held' = Held /\ Present' = Present /\ \A m : Reached(m)' <=> Reached(m)
  BY DEF Held, Present, Reached, RunUpsert
<1>3. pc'[w] = "idle" /\ \A u \in Workers : u # w => pc'[u] = pc[u]
  BY DEF IInv, TypeOK, RunUpsert
<1>4. Known'
  BY <1>2 DEF IInv, Known, RunUpsert
<1>5. NothingIsSkipped'
  <2>1. SUFFICES ASSUME strategy = "incremental" PROVE (HeldUpTo /\ BatchUpTo /\ MarksReached)'
    BY DEF NothingIsSkipped, RunUpsert
  <2>2. HeldUpTo /\ BatchUpTo /\ MarksReached
    BY <2>1 DEF IInv, NothingIsSkipped
  <2>3. HeldUpTo' /\ BatchUpTo'
    BY <1>2, <2>2 DEF HeldUpTo, BatchUpTo, RunUpsert
  <2>4. Reached(mark')
    BY <2>2 DEF MarksReached, RunUpsert
  <2>5. Reached(mark)'
    BY <2>4 DEF Reached, Held, RunUpsert
  <2>6. MarksReached'
    BY <1>2, <1>3, <2>2, <2>5 DEF MarksReached, RunUpsert
  <2> QED
    BY <2>3, <2>6
<1>6. ~overlapped' => OneRun'
  BY <1>3, OneRunStays DEF RunUpsert
<1>7. LoadedOnce'
  <2>1. SUFFICES ASSUME NamedDatabase, strategy = "incremental", ~overlapped
                 PROVE  /\ \A r \in Rows : target'[r] <= 1 + losses'
                        /\ (\A u \in Workers : pc'[u] # "record") => FreshAbove(mark)'
                        /\ \A u \in Workers : RunIsAbove(u)'
    BY DEF LoadedOnce, RunUpsert
  <2>2. \A u \in Workers : pc'[u] = "idle"
    BY <1>3, <2>1, OthersAreIdle DEF RunUpsert
  <2>3. (\A r \in Rows : target[r] <= 1 + losses) /\ \A r \in Held : source[r] <= mark'
    BY <2>1 DEF IInv, LoadedOnce, RunIsAbove, RunUpsert
  <2>4. source' = source /\ target' = target /\ losses' = losses
    BY DEF RunUpsert
  <2>5. FreshAbove(mark)'
    <3> SUFFICES ASSUME NEW r \in Rows, source[r] > mark' PROVE target[r] <= losses
      BY <2>4 DEF FreshAbove
    <3>1. target[r] \in Nat /\ losses \in Nat /\ source[r] \in Nat /\ mark' \in Nat
      BY <1>1 DEF IInv, TypeOK
    <3>2. r \notin Held
      BY <2>3, <3>1
    <3> QED
      BY <3>1, <3>2 DEF Held
  <2> QED
    BY <2>2, <2>3, <2>4, <2>5 DEF RunIsAbove
<1>8. ReloadIsExact'
  BY DEF IInv, ReloadIsExact, NoDuplicateRows, RunUpsert
<1> QED
  BY <1>1, <1>4, <1>5, <1>6, <1>7, <1>8 DEF IInv

LEMMA LostKeeps ==
  ASSUME IInv, NEW w \in Workers, RunLost(w)
  PROVE  IInv'
<1>1. TypeOK'
  BY MaterializationAssumption DEF IInv, TypeOK, RunLost, data
<1>2. Held' = Held /\ Present' = Present /\ \A m : Reached(m)' <=> Reached(m)
  BY DataStays DEF RunLost
<1>3. pc'[w] = "idle" /\ \A u \in Workers : u # w => pc'[u] = pc[u]
  BY DEF IInv, TypeOK, RunLost
<1>4. Known'
  BY <1>2 DEF IInv, Known, RunLost, data
<1>5. NothingIsSkipped'
  <2>1. SUFFICES ASSUME strategy = "incremental" PROVE (HeldUpTo /\ BatchUpTo /\ MarksReached)'
    BY DEF NothingIsSkipped, RunLost
  <2>2. HeldUpTo /\ BatchUpTo /\ MarksReached
    BY <2>1 DEF IInv, NothingIsSkipped
  <2>3. HeldUpTo' /\ BatchUpTo'
    BY <1>2, <2>2 DEF HeldUpTo, BatchUpTo, RunLost, data
  <2>4. MarksReached'
    BY <1>2, <1>3, <2>2 DEF MarksReached, RunLost, data
  <2> QED
    BY <2>3, <2>4
<1>6. ~overlapped' => OneRun'
  BY <1>3, OneRunStays DEF RunLost
<1>7. LoadedOnce'
  <2>1. SUFFICES ASSUME NamedDatabase, strategy = "incremental", ~overlapped
                 PROVE  /\ \A r \in Rows : target'[r] <= 1 + losses'
                        /\ (\A u \in Workers : pc'[u] # "record") => FreshAbove(mark)'
                        /\ \A u \in Workers : RunIsAbove(u)'
    BY DEF LoadedOnce, RunLost
  <2>2. \A u \in Workers : pc'[u] = "idle"
    BY <1>3, <2>1, OthersAreIdle DEF RunLost
  <2>3. \A r \in Rows : target[r] <= 1 + losses
    BY <2>1 DEF IInv, LoadedOnce
  <2>4. target' = target /\ losses' = losses + 1
    BY DEF RunLost, data
  <2>5. losses \in Nat /\ \A r \in Rows : target[r] \in Nat
    BY DEF IInv, TypeOK
  <2>6. \A r \in Rows : target'[r] <= losses' /\ target'[r] <= 1 + losses'
    BY <2>3, <2>4, <2>5
  <2> QED
    BY <2>2, <2>6 DEF RunIsAbove, FreshAbove
<1>8. ReloadIsExact'
  BY DEF IInv, ReloadIsExact, NoDuplicateRows, RunLost, data
<1> QED
  BY <1>1, <1>4, <1>5, <1>6, <1>7, <1>8 DEF IInv

\* The commit adds the batch to what is held, unless the table is written
\* anew, and its MAX is that of the rows then held.
LEMMA CommitKeeps ==
  ASSUME IInv, NEW w \in Workers, RunCommit(w)
  PROVE  IInv'
<1> DEFINE new == batch[w]
<1>1. new \in SUBSET Rows /\ Written(new) \in [Rows -> Nat]
  BY WrittenIs DEF IInv, TypeOK
<1>2. target' = Written(new) /\ exists' = TRUE /\ source' = source /\ mark' = mark /\ from' = from
      /\ strategy' = strategy /\ late' = late /\ overlapped' = overlapped
  BY DEF RunCommit
<1>3. Held' = {r \in Rows : Written(new)[r] > 0} /\ Present' = Present
  BY <1>2 DEF Held, Present
<1>4. /\ ResultMark(w) \in 0 .. MaxValue
      /\ \A r \in Held' : source[r] <= ResultMark(w)
      /\ ResultMark(w) = NoMark \/ \E s \in Held' : source[s] = ResultMark(w)
  BY <1>3, MaxMarkIs DEF ResultMark, IInv
<1>5. batch'[w] = {} /\ \A u \in Workers : u # w => batch'[u] = batch[u]
  BY DEF IInv, TypeOK, RunCommit
<1>6. \A u \in Workers : u # w => pc'[u] = pc[u] /\ result'[u] = result[u]
  BY DEF IInv, TypeOK, RunCommit
<1>7. \/ pc'[w] = "record" /\ result'[w] = ResultMark(w) /\ losses' = losses
      \/ pc'[w] = "idle" /\ losses' = losses + 1
  BY DEF IInv, TypeOK, RunCommit
<1>8. TypeOK'
  <2>1. crashes' \in 0 .. MaxCrashes /\ losses' \in 0 .. crashes'
    BY MaterializationAssumption DEF IInv, TypeOK, RunCommit
  <2>2. result' \in [Workers -> 0 .. MaxValue] /\ pc' \in [Workers -> {"idle", "select", "commit", "record"}]
    BY <1>4 DEF IInv, TypeOK, RunCommit
  <2>3. batch' \in [Workers -> SUBSET Rows]
    BY DEF IInv, TypeOK, RunCommit
  <2> HIDE DEF new
  <2> QED
    BY <1>1, <1>2, <2>1, <2>2, <2>3 DEF IInv, TypeOK
<1>9. /\ strategy # "incremental" => \A r \in Rows : Written(new)[r] <= 1 \/ Written(new)[r] = target[r]
      /\ strategy = "incremental" => \A r \in Rows : Written(new)[r] = target[r] + Once(new)[r]
  BY WrittenIs DEF IInv, Known, TypeOK
<1>10. Held' \subseteq Held \cup new
  <2>1. CASE strategy = "incremental"
    <3>1. \A r \in Rows \ new : Written(new)[r] = target[r] + 0
      BY <1>9, <2>1 DEF Once
    <3>2. \A r \in Rows : target[r] \in Nat
      BY DEF IInv, TypeOK
    <3> HIDE DEF new
    <3> QED
      BY <1>3, <3>1, <3>2 DEF Held
  <2>2. CASE strategy # "incremental"
    <3> HIDE DEF new
    <3>1. Written(new) = Once(new) \/ Written(new) = target
      BY <2>2 DEF Written, IInv, TypeOK, Strategies
    <3>2. \A r \in Rows \ new : Once(new)[r] = 0
      BY DEF Once
    <3> QED
      BY <1>3, <3>1, <3>2 DEF Held
  <2> QED
    BY <2>1, <2>2
<1>11. strategy = "incremental" => Held' = Held \cup new
  BY <1>1, <1>3, <1>9 DEF Held, Once, IInv, TypeOK
<1>12. Known'
  BY <1>2, <1>3, <1>5, <1>10 DEF IInv, Known
<1>13. NothingIsSkipped'
  <2>1. SUFFICES ASSUME strategy = "incremental" PROVE (HeldUpTo /\ BatchUpTo /\ MarksReached)'
    BY <1>2 DEF NothingIsSkipped
  <2>2. HeldUpTo /\ BatchUpTo /\ MarksReached
    BY <2>1 DEF IInv, NothingIsSkipped
  <2>3. Held' = Held \cup new
    BY <2>1, <1>11
  <2>4. HeldUpTo'
    BY <1>2, <1>3, <2>2, <2>3 DEF HeldUpTo, BatchUpTo
  <2>5. BatchUpTo'
    BY <1>2, <1>3, <1>5, <2>2, <2>3 DEF BatchUpTo
  <2>6. \A m : Reached(m) => Reached(m)'
    BY <1>2, <2>3 DEF Reached
  <2>7. Reached(result[w])' \/ pc'[w] = "idle"
    <3>1. CASE pc'[w] = "idle"
      BY <3>1
    <3>2. CASE result'[w] = ResultMark(w)
      <4>1. ASSUME NEW s \in Held', source[s] = ResultMark(w)
            PROVE  result'[w] <= source'[s]
        BY <1>2, <1>4, <3>2, <4>1
      <4> QED
        BY <1>4, <3>2, <4>1 DEF Reached
    <3> QED
      BY <1>7, <3>1, <3>2
  <2>8. MarksReached'
    BY <1>2, <1>6, <1>7, <2>2, <2>6, <2>7 DEF MarksReached
  <2> QED
    BY <2>4, <2>5, <2>8
<1>14. ~overlapped' => OneRun'
  BY <1>2, <1>6, OneRunStays DEF RunCommit
<1>15. LoadedOnce'
  <2>1. SUFFICES ASSUME NamedDatabase, strategy = "incremental", ~overlapped
                 PROVE  /\ \A r \in Rows : target'[r] <= 1 + losses'
                        /\ (\A u \in Workers : pc'[u] # "record") => FreshAbove(mark)'
                        /\ \A u \in Workers : RunIsAbove(u)'
    BY <1>2 DEF LoadedOnce
  <2>2. \A u \in Workers \ {w} : pc'[u] = "idle"
    BY <1>6, <2>1, OthersAreIdle DEF RunCommit
  <2>3. /\ \A r \in Rows : target[r] <= 1 + losses
        /\ \A r \in new : source[r] > from[w]
        /\ FreshAbove(from[w])
    BY <2>1 DEF IInv, LoadedOnce, RunIsAbove, BatchAbove, RunCommit
  <2>4. \A r \in new : target[r] <= losses
    BY <1>1, <2>3 DEF FreshAbove
  <2>5. losses \in Nat /\ \A r \in Rows : target[r] \in Nat
    BY DEF IInv, TypeOK
  <2>6. \A r \in Rows : target'[r] <= 1 + losses
    <3> HIDE DEF new
    <3> SUFFICES ASSUME NEW r \in Rows PROVE target'[r] <= 1 + losses
      OBVIOUS
    <3>1. CASE r \in new
      <4>1. target'[r] = target[r] + 1
        BY <1>2, <1>9, <2>1, <3>1 DEF Once
      <4> QED
        BY <2>4, <2>5, <3>1, <4>1
    <3>2. CASE r \notin new
      <4>1. target'[r] = target[r] + 0
        BY <1>2, <1>9, <2>1, <3>2 DEF Once
      <4> QED
        BY <2>3, <2>5, <4>1
    <3> QED
      BY <3>1, <3>2
  <2>7. \A r \in Rows : target'[r] \in Nat
    BY <1>8 DEF TypeOK
  <2>8. CASE pc'[w] = "record" /\ result'[w] = ResultMark(w) /\ losses' = losses
    <3>1. RunIsAbove(w)'
      BY <1>2, <1>4, <2>8 DEF RunIsAbove
    <3> QED
      BY <2>2, <2>6, <2>8, <3>1 DEF RunIsAbove
  <2>9. CASE pc'[w] = "idle" /\ losses' = losses + 1
    <3>1. \A r \in Rows : target'[r] <= losses' /\ target'[r] <= 1 + losses'
      BY <2>5, <2>6, <2>7, <2>9
    <3> QED
      BY <2>2, <2>9, <3>1 DEF RunIsAbove, FreshAbove
  <2> QED
    BY <1>7, <2>8, <2>9
<1>16. ReloadIsExact'
  BY <1>2, <1>9 DEF IInv, ReloadIsExact, NoDuplicateRows
<1> QED
  BY <1>8, <1>12, <1>13, <1>14, <1>15, <1>16 DEF IInv

----------------------------------------------------------------------------
LEMMA InductiveInvariant == Spec => []IInv
<1>1. Init => IInv
  <2> SUFFICES ASSUME Init PROVE IInv
    OBVIOUS
  <2>1. TypeOK
    <3>1. 0 \in 0 .. MaxValue /\ 0 \in 0 .. MaxCrashes
      BY MaterializationAssumption
    <3>2. source \in [Rows -> 0 .. MaxValue] /\ target \in [Rows -> Nat]
      BY <3>1 DEF Init, NoMark
    <3>3. /\ pc \in [Workers -> {"idle", "select", "commit", "record"}]
          /\ from \in [Workers -> 0 .. MaxValue] /\ result \in [Workers -> 0 .. MaxValue]
          /\ batch \in [Workers -> SUBSET Rows]
      BY <3>1 DEF Init, NoMark
    <3>4. strategy \in Strategies /\ exists \in BOOLEAN /\ overlapped \in BOOLEAN /\ late \subseteq Rows
      BY DEF Init
    <3>5. mark \in 0 .. MaxValue /\ crashes \in 0 .. MaxCrashes /\ losses \in 0 .. crashes
      BY <3>1 DEF Init, NoMark
    <3> QED
      BY <3>2, <3>3, <3>4, <3>5 DEF TypeOK
  <2>2. Held = {} /\ Present = {}
    BY DEF Init, Held, Present
  <2>3. Known
    BY <2>2 DEF Init, Known
  <2>4. NothingIsSkipped
    BY <2>2 DEF Init, NothingIsSkipped, HeldUpTo, BatchUpTo, MarksReached, Reached
  <2>5. ~overlapped => OneRun
    BY DEF Init, OneRun
  <2>6. LoadedOnce
    BY DEF Init, LoadedOnce, FreshAbove, RunIsAbove
  <2>7. ReloadIsExact
    BY DEF Init, ReloadIsExact, NoDuplicateRows
  <2> QED
    BY <2>1, <2>3, <2>4, <2>5, <2>6, <2>7 DEF IInv
<1>2. IInv /\ [Next]_vars => IInv'
  <2> SUFFICES ASSUME IInv, [Next]_vars PROVE IInv'
    OBVIOUS
  <2>1. ASSUME NEW r \in Rows, NEW v \in 1 .. MaxValue, Arrive(r, v) PROVE IInv'
    BY <2>1, ArriveKeeps
  <2>2. ASSUME NEW w \in Workers, Run(w) \/ RunLost(w) PROVE IInv'
    BY <2>2, ReadKeeps, SelectKeeps, CommitKeeps, FailKeeps, UpsertKeeps, LostKeeps DEF Run
  <2>3. CASE UNCHANGED vars
    BY <2>3 DEF vars, IInv, TypeOK, Known, NothingIsSkipped, HeldUpTo, BatchUpTo, MarksReached,
                Reached, OneRun, LoadedOnce, FreshAbove, RunIsAbove, BatchAbove, ReloadIsExact,
                NoDuplicateRows, Held, Present
  <2> QED
    BY <2>1, <2>2, <2>3 DEF Next
<1> QED
  BY <1>1, <1>2, PTL DEF Spec

\* A watermark hides only rows that came too late, whatever overlaps and
\* whatever is lost, and also when the schedule does not name its database.
THEOREM NothingInTimeIsSkipped == Spec => []SkippedOnlyIfLate
<1>1. IInv => SkippedOnlyIfLate
  <2> SUFFICES ASSUME IInv, strategy = "incremental",
                      NEW r \in Present, source[r] <= mark, target[r] = 0, r \notin late
               PROVE  FALSE
    BY DEF SkippedOnlyIfLate
  <2>1. HeldUpTo /\ Reached(mark)
    BY DEF IInv, NothingIsSkipped, MarksReached
  <2>2. r \notin Held /\ source[r] \in 1 .. MaxValue
    BY DEF Held, Present, IInv, TypeOK, NoMark
  <2>3. PICK s \in Held : mark <= source[s]
    BY <2>1, <2>2 DEF Reached, NoMark
  <2>4. source[s] \in Nat /\ mark \in Nat
    BY DEF IInv, TypeOK, Held
  <2>5. source[r] <= source[s]
    BY <2>2, <2>3, <2>4
  <2> QED
    BY <2>1, <2>2, <2>3, <2>5 DEF HeldUpTo
<1> QED
  BY <1>1, InductiveInvariant, PTL

\* The target of a schedule that names its database holds what its runs were
\* to load: once, and once more for each watermark that was lost.
THEOREM TargetHoldsWhatWasLoaded == NamedDatabase /\ Spec => []TargetIsExact
<1> SUFFICES ASSUME NamedDatabase PROVE Spec => []TargetIsExact
  OBVIOUS
<1>1. IInv => DuplicatesOnlyAfterLoss
  <2> SUFFICES ASSUME IInv, ~overlapped, NEW r \in Rows
               PROVE  target[r] <= 1 + losses
    BY DEF DuplicatesOnlyAfterLoss
  <2>1. CASE strategy = "incremental"
    BY <2>1 DEF IInv, LoadedOnce
  <2>2. CASE strategy # "incremental"
    BY <2>2 DEF IInv, TypeOK, ReloadIsExact, NoDuplicateRows
  <2> QED
    BY <2>1, <2>2
<1>2. IInv /\ SkippedOnlyIfLate => TargetIsExact
  BY <1>1 DEF IInv, TargetIsExact
<1> QED
  BY <1>2, InductiveInvariant, NothingInTimeIsSkipped, PTL
=============================================================================
