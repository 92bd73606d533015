--------------------------- MODULE SeedScript_proofs ---------------------------
(* Proofs about SeedScript, for any number of fixtures, starts, stops and     *)
(* other studies, whoever reads the lists.                                    *)
EXTENDS SeedScript, SequenceTheorems, FiniteSetTheorems, TLAPS

-----------------------------------------------------------------------------
(* Tables: sequences of rows with ids of their own. *)

\* A row that is inserted is among the rows, and the others still are, in their order.
LEMMA Places ==
    ASSUME NEW S, NEW rows \in Seq(S), NEW row \in S, NEW i \in 1 .. (Len(rows) + 1),
           NEW new, new = InsertAt(rows, i, row)
    PROVE  /\ new \in Seq(S) /\ Len(new) = Len(rows) + 1
           /\ ToSet(new) = ToSet(rows) \cup {row}
           /\ \A k \in 1 .. (i - 1) : new[k] = rows[k]
           /\ new[i] = row
           /\ \A k \in (i + 1) .. (Len(rows) + 1) : new[k] = rows[k - 1]
<1>. DEFINE left  == SubSeq(rows, 1, i - 1)
            right == SubSeq(rows, i, Len(rows))
<1>1. /\ left \in Seq(S) /\ Len(left) = i - 1
      /\ \A k \in 1 .. (i - 1) : left[k] = rows[k]
  OBVIOUS
<1>2. /\ right \in Seq(S) /\ Len(right) = Len(rows) + 1 - i
      /\ \A k \in 1 .. (Len(rows) + 1 - i) : right[k] = rows[i + k - 1]
  OBVIOUS
<1>. DEFINE mid == left \o <<row>>
<1>3. new = mid \o right
  BY DEF InsertAt
<1>. HIDE DEF left, right
<1>a. mid \in Seq(S) /\ Len(mid) = i
  BY <1>1
<1>b. /\ \A k \in 1 .. (i - 1) : mid[k] = rows[k]
      /\ mid[i] = row
  BY <1>1
<1>. HIDE DEF mid
<1>4. new \in Seq(S) /\ Len(new) = Len(rows) + 1
  <2>1. (mid \o right) \in Seq(S) /\ Len(mid \o right) = Len(mid) + Len(right)
    BY <1>a, <1>2, ConcatProperties
  <2>. QED
    BY <1>a, <1>2, <1>3, <2>1
<1>c. \A k \in 1 .. Len(new) : new[k] = IF k <= i THEN mid[k] ELSE right[k - i]
  <2>1. Len(mid) + Len(right) = Len(rows) + 1 /\ i \in Nat
    BY <1>a, <1>2
  <2>2. ASSUME NEW k \in 1 .. (Len(mid) + Len(right))
        PROVE  (mid \o right)[k] = IF k <= Len(mid) THEN mid[k] ELSE right[k - Len(mid)]
    BY <1>a, <1>2, ConcatProperties
  <2>. QED
    BY <1>3, <1>4, <1>a, <2>1, <2>2
<1>5. /\ \A k \in 1 .. (i - 1) : new[k] = rows[k]
      /\ new[i] = row
      /\ \A k \in (i + 1) .. (Len(rows) + 1) : new[k] = rows[k - 1]
  <2>1. ASSUME NEW k \in (i + 1) .. (Len(rows) + 1) PROVE new[k] = rows[k - 1]
    <3>1. k - i \in 1 .. (Len(rows) + 1 - i) /\ i + (k - i) - 1 = k - 1
      OBVIOUS
    <3>2. right[k - i] = rows[k - 1]
      BY <1>2, <3>1
    <3>. QED
      BY <1>c, <1>4, <3>2
  <2>. QED
    BY <1>b, <1>c, <1>4, <2>1
<1>6. ASSUME NEW k \in 1 .. Len(rows) PROVE \E m \in 1 .. (Len(rows) + 1) : new[m] = rows[k]
  <2>1. CASE k < i
    BY <1>5, <2>1
  <2>2. CASE k >= i
    <3>1. k + 1 \in (i + 1) .. (Len(rows) + 1) /\ (k + 1) - 1 = k /\ k + 1 \in 1 .. (Len(rows) + 1)
      BY <2>2
    <3>2. new[k + 1] = rows[(k + 1) - 1]
      BY <1>5, <3>1
    <3>. QED
      BY <3>1, <3>2
  <2>. QED
    BY <2>1, <2>2
<1>7. ASSUME NEW k \in 1 .. (Len(rows) + 1) PROVE new[k] = row \/ \E m \in 1 .. Len(rows) : new[k] = rows[m]
  BY <1>5
<1>d. ToSet(new) = {new[k] : k \in 1 .. (Len(rows) + 1)} /\ ToSet(rows) = {rows[k] : k \in 1 .. Len(rows)}
  BY <1>4 DEF ToSet
<1>8. ToSet(new) = ToSet(rows) \cup {row}
  <2>1. ASSUME NEW x \in ToSet(new) PROVE x \in ToSet(rows) \cup {row}
    <3>1. PICK k \in 1 .. (Len(rows) + 1) : x = new[k]
      BY <1>d
    <3>2. x = row \/ \E m \in 1 .. Len(rows) : x = rows[m]
      BY <3>1, <1>7
    <3>. QED
      BY <3>2, <1>d
  <2>2. ASSUME NEW x \in ToSet(rows) PROVE x \in ToSet(new)
    <3>1. PICK k \in 1 .. Len(rows) : x = rows[k]
      BY <1>d
    <3>2. PICK m \in 1 .. (Len(rows) + 1) : new[m] = x
      BY <3>1, <1>6
    <3>. QED
      BY <3>2, <1>d
  <2>3. row \in ToSet(new)
    BY <1>5, <1>d
  <2>. QED
    BY <2>1, <2>2, <2>3
<1>. QED
  BY <1>4, <1>5, <1>8

LEMMA Inserted ==
    ASSUME NEW S, NEW rows \in Seq(S), NEW row \in S, NEW i \in 1 .. (Len(rows) + 1)
    PROVE  /\ InsertAt(rows, i, row) \in Seq(S)
           /\ Len(InsertAt(rows, i, row)) = Len(rows) + 1
           /\ ToSet(InsertAt(rows, i, row)) = ToSet(rows) \cup {row}
BY Places

\* A table of rows of a set, each with an id of its own.
TableOK(rows, S) ==
    /\ rows \in Seq(S)
    /\ \A a \in ToSet(rows) : a.id \in 1 .. Len(rows)
    /\ \A a, b \in ToSet(rows) : a.id = b.id => a = b
    /\ \A i, j \in 1 .. Len(rows) : rows[i].id = rows[j].id => i = j

LEMMA RowsAreTyped == ASSUME NEW S, NEW rows \in Seq(S) PROVE ToSet(rows) \subseteq S
BY DEF ToSet

LEMMA NewRow ==
    ASSUME NEW S, NEW rows, TableOK(rows, S), NEW row \in S, row.id = NewId(rows),
           NEW new \in Insertions(rows, row)
    PROVE  /\ TableOK(new, S)
           /\ ToSet(new) = ToSet(rows) \cup {row}
           /\ \A a \in ToSet(rows) : a.id # row.id
<1>1. PICK k \in 0 .. Overtaken : k <= Len(rows) /\ new = InsertAt(rows, Len(rows) + 1 - k, row)
  BY DEF Insertions
<1>2. rows \in Seq(S) /\ Len(rows) + 1 - k \in 1 .. (Len(rows) + 1)
  BY <1>1, PageAssumption DEF TableOK
<1>3. new \in Seq(S) /\ Len(new) = Len(rows) + 1 /\ ToSet(new) = ToSet(rows) \cup {row}
  BY <1>1, <1>2, Inserted
<1>4. row.id = Len(rows) + 1 /\ Len(rows) \in Nat
  BY <1>2 DEF NewId
<1>5. \A a \in ToSet(rows) : a.id # row.id
  BY <1>4 DEF TableOK
<1>6. \A i, j \in 1 .. Len(new) : new[i].id = new[j].id => i = j
  <2>1. PICK p \in 1 .. (Len(rows) + 1) : p = Len(rows) + 1 - k
    BY <1>2
  <2>2. /\ \A m \in 1 .. (p - 1) : new[m] = rows[m]
        /\ new[p] = row
        /\ \A m \in (p + 1) .. (Len(rows) + 1) : new[m] = rows[m - 1]
    <3>1. new = InsertAt(rows, p, row) /\ rows \in Seq(S)
      BY <1>1, <1>2, <2>1
    <3>2. row \in S /\ p \in 1 .. (Len(rows) + 1)
      BY <2>1
    <3>3. \A m \in 1 .. (p - 1) : new[m] = rows[m]
      BY <3>1, <3>2, Places
    <3>4. new[p] = row
      BY <3>1, <3>2, Places
    <3>5. \A m \in (p + 1) .. (Len(rows) + 1) : new[m] = rows[m - 1]
      BY <3>1, <3>2, Places
    <3>. QED
      BY <3>3, <3>4, <3>5
  <2>3. rows \in Seq(S) /\ \A m, n \in 1 .. Len(rows) : rows[m].id = rows[n].id => m = n
    BY DEF TableOK
  <2>4. ASSUME NEW m \in 1 .. Len(new), m # p
        PROVE  \E at \in 1 .. Len(rows) :
                    new[m] = rows[at] /\ (m < p => at = m) /\ (m > p => at = m - 1)
    <3>1. CASE m < p
      BY <1>3, <1>4, <2>2, <3>1
    <3>2. CASE m > p
      <4>1. m \in (p + 1) .. (Len(rows) + 1) /\ m - 1 \in 1 .. Len(rows)
        BY <1>3, <1>4, <3>2
      <4>. QED
        BY <2>2, <3>2, <4>1
    <3>. QED
      BY <1>3, <1>4, <2>4, <3>1, <3>2
  <2>5. ASSUME NEW i \in 1 .. Len(new), NEW j \in 1 .. Len(new), i < j PROVE new[i].id # new[j].id
    <3>1. CASE i = p \/ j = p
      <4>1. PICK other \in {i, j} : other # p
        BY <1>3, <1>4, <2>5
      <4>2. PICK at \in 1 .. Len(rows) : new[other] = rows[at]
        BY <2>4, <4>1
      <4>3. rows[at] \in ToSet(rows)
        BY <2>3 DEF ToSet
      <4>. QED
        BY <1>5, <2>2, <3>1, <4>1, <4>2, <4>3
    <3>2. CASE i # p /\ j # p
      <4>1. PICK at \in 1 .. Len(rows) : new[i] = rows[at] /\ (i < p => at = i) /\ (i > p => at = i - 1)
        BY <2>4, <3>2
      <4>2. PICK to \in 1 .. Len(rows) : new[j] = rows[to] /\ (j < p => to = j) /\ (j > p => to = j - 1)
        BY <2>4, <3>2
      <4>3. at # to
        BY <1>3, <1>4, <2>5, <3>2, <4>1, <4>2
      <4>. QED
        BY <2>3, <4>1, <4>2, <4>3
    <3>. QED
      BY <3>1, <3>2
  <2>. QED
    BY <1>3, <1>4, <2>5
<1>. QED
  BY <1>3, <1>4, <1>5, <1>6 DEF TableOK

\* A row of a table is found by its id.
LEMMA FoundRow ==
    ASSUME NEW S, NEW rows, TableOK(rows, S), NEW a \in ToSet(rows)
    PROVE  RowOf(rows, a.id) = a
BY DEF TableOK, RowOf

LEMMA UpdatedRow ==
    ASSUME NEW S, NEW rows, TableOK(rows, S), NEW a \in ToSet(rows), NEW row \in S, row.id = a.id
    PROVE  /\ TableOK(Updated(rows, a.id, row), S)
           /\ ToSet(Updated(rows, a.id, row)) = (ToSet(rows) \ {a}) \cup {row}
<1>. DEFINE new == Updated(rows, a.id, row)
<1>1. rows \in Seq(S) /\ DOMAIN rows = 1 .. Len(rows) /\ Len(rows) \in Nat
  BY DEF TableOK
<1>2. new = [i \in 1 .. Len(rows) |-> IF rows[i].id = a.id THEN row ELSE rows[i]]
  BY <1>1 DEF Updated
<1>3. new \in Seq(S) /\ Len(new) = Len(rows) /\ DOMAIN new = 1 .. Len(rows)
  BY <1>1, <1>2
<1>4. \A i \in 1 .. Len(rows) : rows[i].id = a.id <=> rows[i] = a
  BY <1>1 DEF TableOK, ToSet
<1>5. \A i \in 1 .. Len(rows) : new[i] = IF rows[i] = a THEN row ELSE rows[i]
  BY <1>2, <1>4
<1>6. \E i \in 1 .. Len(rows) : rows[i] = a
  BY <1>1 DEF ToSet
<1>7. ToSet(new) = (ToSet(rows) \ {a}) \cup {row}
  BY <1>1, <1>3, <1>5, <1>6 DEF ToSet
<1>. HIDE DEF new
<1>8. \A i, j \in 1 .. Len(new) : new[i].id = new[j].id => i = j
  BY <1>3, <1>5 DEF TableOK
<1>9. TableOK(new, S)
  BY <1>3, <1>7, <1>8 DEF TableOK
<1>. QED
  BY <1>7, <1>9 DEF new

-----------------------------------------------------------------------------
(* The invariant. *)

Statuses == {"UPLOADED", "PROCESSING", "PROCESSED", "FAILED", "RUNNING", "SUCCEEDED"}

Titles   == {Title, "forced", "other"}

StudyRow    == [id : Nat, title : Titles]
SourceRow   == [id : Nat, study : Nat, fixture : FixtureIds, status : Statuses]
RunRow      == [id : Nat, study : Nat, source : Nat, status : Statuses, steps : 0 .. Steps]
EvidenceRow == [id : Nat, study : Nat, source : Nat]
StateType   == [study : Nat, source : [FixtureIds -> Nat], processed : SUBSET FixtureIds]
Call        == [by : Nat, op : {"create", "upload", "process"},
                phase : {"sent", "running", "done", "conflict", "error"}, answer : Nat, run : Nat,
                fixture : FixtureIds, source : Nat, study : Nat, title : Titles]

ScriptTypes ==
    /\ file \in StateType /\ state \in StateType
    /\ force \in BOOLEAN
    /\ pc \in {"off", "resume", "discover", "create", "creating", "fixtures", "uploading",
               "processing", "process", "saving"}
    /\ after \in {"off", "fixtures", "process"}
    /\ fixture \in 1 .. (Fixtures + 1)
    /\ starts \in Nat

TablesInv ==
    /\ TableOK(studies, StudyRow) /\ TableOK(sources, SourceRow)
    /\ TableOK(runs, RunRow) /\ TableOK(evidence, EvidenceRow)

\* The source of an id is of a study and a fixture; it has been processed.
SourceKnown(id, study, f) ==
    \E row \in ToSet(sources) : row.id = id /\ row.study = study /\ row.fixture = f

Done(id) ==
    \E row \in ToSet(sources) :
        /\ row.id = id /\ row.status = "PROCESSED"
        /\ \E e \in ToSet(evidence) : e.source = row.id /\ e.study = row.study

Active(run) == run.status \in {"RUNNING", "SUCCEEDED"}

\* A source has one active run at most, which is what its status and its evidence say.
RunsInv ==
    /\ \A a, b \in ToSet(runs) : Active(a) /\ Active(b) /\ a.source = b.source => a = b
    /\ \A run \in ToSet(runs) : run.status = "SUCCEEDED" => Done(run.source)
    /\ \A row \in ToSet(sources) : row.status = "PROCESSED" =>
            \E run \in ToSet(runs) : run.source = row.id /\ run.status = "SUCCEEDED"

\* What a call is about, and what it is answered, is so.
CallKnown(call) ==
    /\ call.by <= starts
    /\ call.op = "process" => SourceKnown(call.source, call.study, call.fixture)
    /\ call.op = "upload" /\ call.phase = "done" => SourceKnown(call.answer, call.study, call.fixture)
    /\ call.op = "process" /\ call.phase = "done" => Done(call.source)

CallRuns(call) ==
    call.phase = "running" =>
        /\ call.op = "process"
        /\ \E run \in ToSet(runs) : run.id = call.run /\ run.source = call.source /\ run.status = "RUNNING"

CallsInv ==
    /\ calls \subseteq Call
    /\ \A call \in calls : CallKnown(call) /\ CallRuns(call)
    /\ \A a, b \in calls : a.phase = "running" /\ b.phase = "running" /\ a.run = b.run => a = b

\* The call that the script waits for.
Awaited(call) ==
    /\ call.op = CASE pc = "creating" -> "create" [] pc = "uploading" -> "upload" [] OTHER -> "process"
    /\ call.fixture = fixture /\ call.study = state.study /\ call.source = state.source[fixture]

WaitingInv ==
    /\ \A call \in calls : call.by = starts => Waiting \/ pc = "off"
    /\ Waiting => /\ \A call \in calls : call.by = starts => Awaited(call)
                  /\ \A a, b \in calls : a.by = starts /\ b.by = starts => a = b

ScriptInv ==
    /\ \A f \in FixtureIds : f < fixture => f \in state.processed
    /\ pc \in {"off", "resume", "discover", "create", "creating"} => fixture = 1
    /\ pc = "saving" => after \in {"fixtures", "process"}
    /\ pc = "process" \/ (pc = "saving" /\ after = "process") =>
            fixture \in FixtureIds /\ state.source[fixture] # 0
    /\ pc \in {"uploading", "processing"} => fixture \in FixtureIds
    /\ pc = "uploading" => state.source[fixture] = 0

\* What a state says of the sources is so.
Knowledge(s) ==
    \A f \in FixtureIds :
        /\ s.source[f] # 0 => SourceKnown(s.source[f], s.study, f)
        /\ f \in s.processed => s.source[f] # 0 /\ Done(s.source[f])

ReadyKnown ==
    ready.how = "seeded" =>
        \A f \in FixtureIds : \E id \in Nat : SourceKnown(id, ready.study, f) /\ Done(id)

MemoryInv == Knowledge(state) /\ Knowledge(file) /\ ReadyKnown

IInv == ScriptTypes /\ TablesInv /\ RunsInv /\ CallsInv /\ WaitingInv /\ ScriptInv /\ MemoryInv

-----------------------------------------------------------------------------
(* What is known stays so while the tables grow. *)

Keeps ==
    /\ \A row \in ToSet(sources) : \E new \in ToSet(sources') :
            /\ new.id = row.id /\ new.study = row.study /\ new.fixture = row.fixture
            /\ row.status = "PROCESSED" => new.status = "PROCESSED"
    /\ ToSet(evidence) \subseteq ToSet(evidence')

LEMMA Kept ==
    ASSUME Keeps
    PROVE  /\ \A id, study, f : SourceKnown(id, study, f) => SourceKnown(id, study, f)'
           /\ \A id : Done(id) => Done(id)'
<1>1. ASSUME NEW id, NEW study, NEW f, SourceKnown(id, study, f) PROVE SourceKnown(id, study, f)'
  BY <1>1 DEF SourceKnown, Keeps
<1>2. ASSUME NEW id, Done(id) PROVE Done(id)'
  <2>1. PICK row \in ToSet(sources) :
            /\ row.id = id /\ row.status = "PROCESSED"
            /\ \E e \in ToSet(evidence) : e.source = row.id /\ e.study = row.study
    BY <1>2 DEF Done
  <2>2. PICK new \in ToSet(sources') :
            new.id = row.id /\ new.study = row.study /\ new.status = "PROCESSED"
    BY <2>1 DEF Keeps
  <2>. QED
    BY <2>1, <2>2 DEF Done, Keeps
<1>. QED
  BY <1>1, <1>2

LEMMA MemoryKept ==
    ASSUME MemoryInv, Keeps, UNCHANGED <<state, file, ready>>
    PROVE  MemoryInv'
<1>1. ASSUME NEW s, Knowledge(s) PROVE Knowledge(s)'
  BY <1>1, Kept DEF Knowledge
<1>2. ReadyKnown'
  BY Kept DEF MemoryInv, ReadyKnown
<1>. QED
  BY <1>1, <1>2 DEF MemoryInv

LEMMA ReadyImplied ==
    ASSUME TablesInv, MemoryInv
    PROVE  ReadyMeansProcessed
<1>. SUFFICES ASSUME ready.how = "seeded", NEW f \in FixtureIds
              PROVE  \E row \in SourcesOf(ready.study) :
                        /\ row.fixture = f /\ row.status = "PROCESSED"
                        /\ \E e \in EvidenceOf(ready.study) : e.source = row.id
  BY DEF ReadyMeansProcessed
<1>1. PICK id \in Nat : SourceKnown(id, ready.study, f) /\ Done(id)
  BY DEF MemoryInv, ReadyKnown
<1>2. PICK row \in ToSet(sources) : row.id = id /\ row.study = ready.study /\ row.fixture = f
  BY <1>1 DEF SourceKnown
<1>3. PICK same \in ToSet(sources) :
        /\ same.id = id /\ same.status = "PROCESSED"
        /\ \E e \in ToSet(evidence) : e.source = same.id /\ e.study = same.study
  BY <1>1 DEF Done
<1>4. same = row
  BY <1>2, <1>3 DEF TablesInv, TableOK
<1>. QED
  BY <1>2, <1>3, <1>4 DEF SourcesOf, EvidenceOf

LEMMA Known ==
    /\ \A study : Knowledge(NewState(study)) /\ Knowledge(NewState(study))'
    /\ UNCHANGED tables => \A s : Knowledge(s) => Knowledge(s)'
<1>1. \A study : Knowledge(NewState(study)) /\ Knowledge(NewState(study))'
  BY DEF Knowledge, NewState
<1>2. ASSUME UNCHANGED tables, NEW s, Knowledge(s) PROVE Knowledge(s)'
  BY <1>2 DEF Knowledge, SourceKnown, Done, tables
<1>. QED
  BY <1>1, <1>2

\* Steps of the script leave the tables alone, and drop a call at most.
LEMMA TablesStay ==
    ASSUME IInv, UNCHANGED tables, calls' \subseteq calls, starts' \in Nat, starts <= starts'
    PROVE  TablesInv' /\ RunsInv' /\ CallsInv'
<1>1. TablesInv'
  BY DEF IInv, TablesInv, TableOK, tables
<1>2. RunsInv'
  BY DEF IInv, RunsInv, Done, Active, tables
<1>3. ASSUME NEW call \in calls' PROVE (CallKnown(call) /\ CallRuns(call))'
  <2>1. call \in Call /\ starts \in Nat /\ CallKnown(call) /\ CallRuns(call)
    BY DEF IInv, CallsInv, ScriptTypes
  <2>2. CallKnown(call)'
    BY <2>1 DEF CallKnown, SourceKnown, Done, tables, Call
  <2>3. CallRuns(call)'
    BY <2>1 DEF CallRuns, tables
  <2>. QED
    BY <2>2, <2>3
<1>4. CallsInv'
  BY <1>3 DEF IInv, CallsInv
<1>. QED
  BY <1>1, <1>2, <1>4

\* The end of the process.
LEMMA GoneIsFine ==
    ASSUME IInv, Gone, UNCHANGED <<tables, starts>>, calls' \subseteq calls,
           file' \in {file, Nothing}, ready' = ready \/ ReadyKnown'
    PROVE  IInv'
<1>1. starts \in Nat
  BY DEF IInv, ScriptTypes
<1>2. TablesInv' /\ RunsInv' /\ CallsInv'
  BY <1>1, TablesStay
<1>3. Nothing \in StateType
  BY DEF Nothing, NewState, StateType
<1>4. ScriptTypes'
  <2>1. 1 \in 1 .. (Fixtures + 1)
    BY SeedAssumption
  <2>2. file' \in StateType /\ state' \in StateType
    BY <1>3 DEF IInv, ScriptTypes, Gone
  <2>. QED
    BY <1>1, <2>1, <2>2 DEF ScriptTypes, Gone
<1>5. WaitingInv' /\ ScriptInv'
  BY DEF WaitingInv, ScriptInv, Gone, Waiting, FixtureIds
<1>6. Knowledge(Nothing) /\ Knowledge(Nothing)'
  BY Known DEF Nothing
<1>7. Knowledge(state)'
  BY <1>6 DEF Gone
<1>8. Knowledge(file)'
  <2>1. CASE file' = file
    BY <2>1, Known DEF IInv, MemoryInv
  <2>2. CASE file' = Nothing
    BY <2>2, <1>6
  <2>. QED
    BY <2>1, <2>2
<1>9. ReadyKnown'
  <2>1. CASE ready' = ready
    BY <2>1 DEF IInv, MemoryInv, ReadyKnown, SourceKnown, Done, tables
  <2>. QED
    BY <2>1
<1>. QED
  BY <1>2, <1>4, <1>5, <1>7, <1>8, <1>9 DEF IInv, MemoryInv

LEMMA SameReady ==
    ASSUME IInv, UNCHANGED <<tables, ready>>
    PROVE  ReadyKnown'
BY DEF IInv, MemoryInv, ReadyKnown, SourceKnown, Done, tables

-----------------------------------------------------------------------------
(* The steps of the script. *)

LEMMA DieStep == IInv /\ Die => IInv'
<1>. SUFFICES ASSUME IInv, Die PROVE IInv'
  OBVIOUS
<1>1. calls' \subseteq calls /\ file' \in {file, Nothing}
  BY DEF Die
<1>. QED
  BY <1>1, GoneIsFine DEF Die

LEMMA StartStep == \A forced \in BOOLEAN : IInv /\ Start(forced) => IInv'
<1>. SUFFICES ASSUME NEW forced \in BOOLEAN, IInv, Start(forced) PROVE IInv'
  OBVIOUS
<1>1. starts \in Nat /\ starts' = starts + 1
  BY DEF IInv, ScriptTypes, Start
<1>2. TablesInv' /\ RunsInv' /\ CallsInv'
  BY <1>1, TablesStay DEF Start
<1>3. Nothing \in StateType /\ state' \in {file, Nothing}
  BY DEF Nothing, NewState, StateType, Start
<1>4. pc = "off" /\ fixture = 1 /\ pc' \in {"resume", "create", "discover"}
  BY DEF IInv, ScriptInv, Start
<1>5. ScriptTypes'
  BY <1>1, <1>3, <1>4 DEF IInv, ScriptTypes, Start
<1>6. WaitingInv'
  <2>1. \A call \in calls : call.by # starts'
    BY <1>1 DEF IInv, CallsInv, CallKnown, Call
  <2>. QED
    BY <1>4, <2>1 DEF WaitingInv, Waiting, Start
<1>7. ScriptInv'
  BY <1>4 DEF ScriptInv, FixtureIds, Start
<1>8. Knowledge(file)'
  BY Known DEF IInv, MemoryInv, Start
<1>9. Knowledge(state)'
  BY <1>3, <1>8, Known DEF Nothing, Start
<1>. QED
  BY <1>2, <1>5, <1>6, <1>7, <1>8, <1>9, SameReady DEF IInv, MemoryInv, Start

LEMMA ResumeStep == IInv /\ Resume => IInv'
<1>. SUFFICES ASSUME IInv, Resume PROVE IInv'
  OBVIOUS
<1>1. starts \in Nat /\ UNCHANGED tables /\ calls' = calls /\ starts' = starts
  BY DEF IInv, ScriptTypes, Resume, Unserved
<1>2. TablesInv' /\ RunsInv' /\ CallsInv'
  BY <1>1, TablesStay
<1>3. Nothing \in StateType /\ state' \in {state, Nothing} /\ pc' \in {"fixtures", "discover"}
  BY DEF Nothing, NewState, StateType, Resume
<1>4. ScriptTypes'
  BY <1>1, <1>3 DEF IInv, ScriptTypes, Resume
<1>5. WaitingInv'
  BY <1>1, <1>3 DEF IInv, WaitingInv, Waiting, Resume
<1>6. ScriptInv'
  BY <1>3 DEF IInv, ScriptInv, FixtureIds, Resume
<1>7. Knowledge(file)' /\ Knowledge(state)'
  BY <1>1, <1>3, Known DEF IInv, MemoryInv, Nothing, Resume
<1>. QED
  BY <1>1, <1>2, <1>4, <1>5, <1>6, <1>7, SameReady DEF IInv, MemoryInv, Resume

LEMMA DiscoverStep == IInv /\ Discover => IInv'
<1>. SUFFICES ASSUME IInv, Discover PROVE IInv'
  OBVIOUS
<1>1. /\ starts \in Nat /\ UNCHANGED tables /\ calls' = calls /\ starts' = starts /\ file' = file
      /\ pc = "discover" /\ fixture = 1
  BY DEF IInv, ScriptTypes, ScriptInv, Discover, Unserved
<1>2. TablesInv' /\ RunsInv' /\ CallsInv'
  BY <1>1, TablesStay
<1>3. Knowledge(file)'
  BY <1>1, Known DEF IInv, MemoryInv
<1>4. CASE CreateNext
  <2>1. ScriptTypes' /\ WaitingInv' /\ ScriptInv'
    BY <1>1, <1>4 DEF IInv, ScriptTypes, WaitingInv, Waiting, ScriptInv, FixtureIds, CreateNext
  <2>2. Knowledge(state)' /\ ready' = ready
    BY <1>1, <1>4, Known DEF IInv, MemoryInv, CreateNext
  <2>. QED
    BY <1>1, <1>2, <1>3, <2>1, <2>2, SameReady DEF IInv, MemoryInv
<1>5. ASSUME NEW study \in Found, Adopt(study) PROVE IInv'
  <2>1. studies \in Seq(StudyRow)
    BY DEF IInv, TablesInv, TableOK
  <2>2. PICK i \in DOMAIN studies : study = studies[i].id
    BY DEF Found
  <2>3. study \in Nat
    <3>1. studies[i] \in StudyRow
      BY <2>1
    <3>. QED
      BY <2>2, <3>1 DEF StudyRow
  <2>4. NewState(study) \in StateType
    BY <2>3 DEF NewState, StateType
  <2>5. ScriptTypes' /\ WaitingInv' /\ ScriptInv'
    BY <1>1, <1>5, <2>4 DEF IInv, ScriptTypes, WaitingInv, Waiting, ScriptInv, FixtureIds, Adopt
  <2>6. Knowledge(state)' /\ ready' = ready
    BY <1>5, Known DEF Adopt
  <2>. QED
    BY <1>1, <1>2, <1>3, <2>5, <2>6, SameReady DEF IInv, MemoryInv
<1>6. CASE Gone /\ (ready' = ready \/ ready'.how = "found")
  <2>1. ready' = ready \/ ReadyKnown'
    BY <1>6 DEF ReadyKnown
  <2>. QED
    BY <1>1, <1>6, <2>1, GoneIsFine
<1>. QED
  BY <1>4, <1>5, <1>6 DEF Discover

\* The script sends a call, and waits for it.
LEMMA SendStep ==
    ASSUME IInv, NEW at, NEW op, Send(at, op), pc \notin {"off", "creating", "uploading", "processing"},
           fixture \in FixtureIds,
           \/ at = "creating" /\ op = "create" /\ fixture = 1
           \/ at = "uploading" /\ op = "upload" /\ state.source[fixture] = 0
           \/ at = "processing" /\ op = "process" /\ state.source[fixture] # 0
    PROVE  IInv'
<1>0. PICK call : call = [by |-> starts, op |-> op, phase |-> "sent", answer |-> 0, run |-> 0,
                          fixture |-> fixture, source |-> state.source[fixture], study |-> state.study,
                          title |-> IF force THEN "forced" ELSE Title]
  OBVIOUS
<1>1. /\ starts \in Nat /\ state \in StateType /\ force \in BOOLEAN
      /\ UNCHANGED <<tables, starts, file, state, after, fixture, ready>>
      /\ calls' = calls \cup {call} /\ pc' = at
  BY <1>0 DEF IInv, ScriptTypes, Send
<1>2. call \in Call
  <2>1. state.source[fixture] \in Nat /\ state.study \in Nat
    BY <1>1 DEF StateType
  <2>2. (IF force THEN "forced" ELSE Title) \in Titles
    BY DEF Titles
  <2>3. op \in {"create", "upload", "process"}
    OBVIOUS
  <2>. QED
    BY <1>0, <1>1, <2>1, <2>2, <2>3 DEF Call
<1>3. call.op = "process" => SourceKnown(call.source, call.study, call.fixture)
  BY <1>0 DEF IInv, MemoryInv, Knowledge
<1>4. /\ call.by = starts /\ call.phase = "sent" /\ call.op = op /\ call.fixture = fixture
      /\ call.source = state.source[fixture] /\ call.study = state.study
  BY <1>0
<1>5. TablesInv' /\ RunsInv'
  <2>1. TablesInv'
    BY <1>1 DEF IInv, TablesInv, TableOK, tables
  <2>2. RunsInv'
    BY <1>1 DEF IInv, RunsInv, Done, Active, tables
  <2>. QED
    BY <2>1, <2>2
<1>6. CallsInv'
  <2>1. ASSUME NEW c \in calls PROVE CallKnown(c)' /\ CallRuns(c)'
    <3>1. CallKnown(c) /\ CallRuns(c)
      BY DEF IInv, CallsInv
    <3>. QED
      BY <1>1, <3>1 DEF CallKnown, CallRuns, SourceKnown, Done, tables
  <2>2. CallKnown(call)' /\ CallRuns(call)'
    BY <1>1, <1>3, <1>4 DEF CallKnown, CallRuns, SourceKnown, tables
  <2>. QED
    BY <1>1, <1>2, <1>4, <2>1, <2>2 DEF IInv, CallsInv
<1>7. WaitingInv'
  <2>1. \A c \in calls : c.by # starts
    BY DEF IInv, WaitingInv, Waiting
  <2>2. Awaited(call)'
    BY <1>1, <1>4 DEF Awaited
  <2>. QED
    BY <1>1, <2>1, <2>2 DEF WaitingInv, Waiting
<1>8. ScriptTypes'
  BY <1>1 DEF IInv, ScriptTypes, Send
<1>9. ScriptInv'
  BY <1>1 DEF IInv, ScriptInv
<1>10. MemoryInv'
  BY <1>1, Known, SameReady DEF IInv, MemoryInv
<1>. QED
  BY <1>5, <1>6, <1>7, <1>8, <1>9, <1>10 DEF IInv

LEMMA CallingSteps == IInv /\ (CreateStudy \/ Upload \/ Process) => IInv'
<1>. SUFFICES ASSUME IInv, CreateStudy \/ Upload \/ Process PROVE IInv'
  OBVIOUS
<1>1. 1 \in FixtureIds
  BY SeedAssumption DEF FixtureIds
<1>2. fixture <= Fixtures => fixture \in FixtureIds
  BY SeedAssumption DEF IInv, ScriptTypes, FixtureIds
<1>3. CASE CreateStudy
  BY <1>1, <1>3, SendStep DEF IInv, ScriptInv, CreateStudy
<1>4. CASE Upload
  BY <1>2, <1>4, SendStep DEF Upload
<1>5. CASE Process
  BY <1>2, <1>5, SendStep DEF IInv, ScriptInv, Process
<1>. QED
  BY <1>3, <1>4, <1>5

LEMMA SkipFixtureStep == IInv /\ SkipFixture => IInv'
<1>. SUFFICES ASSUME IInv, SkipFixture PROVE IInv'
  OBVIOUS
<1>1. /\ starts \in Nat /\ UNCHANGED tables /\ calls' = calls /\ starts' = starts
      /\ UNCHANGED <<file, state, ready, pc, force, after>> /\ pc = "fixtures"
  BY DEF IInv, ScriptTypes, SkipFixture, Unserved
<1>2. TablesInv' /\ RunsInv' /\ CallsInv'
  BY <1>1, TablesStay
<1>3. fixture \in 1 .. (Fixtures + 1) /\ fixture <= Fixtures /\ fixture' = fixture + 1 /\ Fixtures \in Nat
  BY SeedAssumption DEF IInv, ScriptTypes, SkipFixture
<1>4. ScriptTypes'
  BY <1>1, <1>3 DEF IInv, ScriptTypes
<1>5. WaitingInv'
  BY <1>1 DEF IInv, WaitingInv, Waiting
<1>6. ScriptInv'
  BY <1>1, <1>3 DEF IInv, ScriptInv, FixtureIds, SkipFixture
<1>7. MemoryInv'
  BY <1>1, Known, SameReady DEF IInv, MemoryInv
<1>. QED
  BY <1>2, <1>4, <1>5, <1>6, <1>7 DEF IInv

\* The answers.
LEMMA AnswerSteps ==
    ASSUME IInv, NEW call \in calls, StudyCreated(call) \/ Uploaded(call) \/ Processed(call)
    PROVE  IInv'
<1>1. /\ starts \in Nat /\ UNCHANGED tables /\ calls' \subseteq calls /\ starts' = starts
      /\ UNCHANGED <<file, ready, force, fixture>> /\ pc' = "saving" /\ Waiting
      /\ call.by = starts /\ call.phase = "done" /\ call \notin calls'
      /\ call \in Call /\ Awaited(call) /\ CallKnown(call) /\ state \in StateType
  BY DEF IInv, ScriptTypes, CallsInv, WaitingInv, StudyCreated, Uploaded, Processed, Answered, Waiting
<1>2. TablesInv' /\ RunsInv' /\ CallsInv'
  BY <1>1, TablesStay
<1>3. WaitingInv'
  BY <1>1 DEF IInv, WaitingInv, Waiting
<1>4. Knowledge(file)' /\ ReadyKnown'
  BY <1>1, Known, SameReady DEF IInv, MemoryInv
<1>. SUFFICES ScriptTypes' /\ ScriptInv' /\ Knowledge(state)'
  BY <1>2, <1>3, <1>4 DEF IInv, MemoryInv
<1>5. CASE StudyCreated(call)
  <2>1. state' = NewState(call.answer) /\ after' = "fixtures" /\ fixture = 1
    BY <1>5 DEF IInv, ScriptInv, StudyCreated, Answered
  <2>2. NewState(call.answer) \in StateType
    BY <1>1 DEF NewState, StateType, Call
  <2>3. ScriptTypes' /\ ScriptInv'
    BY <1>1, <2>1, <2>2 DEF IInv, ScriptTypes, ScriptInv, FixtureIds
  <2>. QED
    BY <2>1, <2>3, Known
<1>6. CASE Uploaded(call)
  <2>1. /\ pc = "uploading" /\ after' = "process" /\ fixture \in FixtureIds
        /\ state' = [state EXCEPT !.source[fixture] = call.answer]
        /\ state.source[fixture] = 0
    BY <1>6 DEF IInv, ScriptInv, Uploaded, Answered
  <2>2. call.op = "upload" /\ call.fixture = fixture /\ call.study = state.study
    BY <1>1, <2>1 DEF Awaited
  <2>3. SourceKnown(call.answer, state.study, fixture)
    BY <1>1, <2>2 DEF CallKnown
  <2>4. call.answer # 0 /\ call.answer \in Nat
    BY <1>1, <2>3 DEF SourceKnown, IInv, TablesInv, TableOK, Call
  <2>5. /\ state' \in StateType /\ state'.study = state.study /\ state'.processed = state.processed
        /\ state'.source[fixture] = call.answer
        /\ \A f \in FixtureIds : f # fixture => state'.source[f] = state.source[f]
    BY <1>1, <2>1, <2>4 DEF StateType
  <2>6. ScriptTypes' /\ ScriptInv'
    BY <1>1, <2>1, <2>4, <2>5 DEF IInv, ScriptTypes, ScriptInv
  <2>7. Knowledge(state')
    BY <2>1, <2>3, <2>4, <2>5 DEF Knowledge, IInv, MemoryInv
  <2>8. Knowledge(state)'
    BY <1>1, <2>7 DEF Knowledge, SourceKnown, Done, tables
  <2>. QED
    BY <2>6, <2>8
<1>7. CASE Processed(call)
  <2>1. /\ pc = "processing" /\ after' = "fixtures" /\ fixture \in FixtureIds
        /\ state' = [state EXCEPT !.processed = @ \cup {fixture}]
    BY <1>7 DEF IInv, ScriptInv, Processed, Answered
  <2>2. call.op = "process" /\ call.source = state.source[fixture]
    BY <1>1, <2>1 DEF Awaited
  <2>3. Done(state.source[fixture])
    BY <1>1, <2>2 DEF CallKnown
  <2>4. state.source[fixture] # 0
    BY <2>3 DEF Done, IInv, TablesInv, TableOK
  <2>5. /\ state' \in StateType /\ state'.study = state.study /\ state'.source = state.source
        /\ state'.processed = state.processed \cup {fixture}
    BY <1>1, <2>1 DEF StateType
  <2>6. ScriptTypes' /\ ScriptInv'
    BY <1>1, <2>1, <2>5 DEF IInv, ScriptTypes, ScriptInv
  <2>7. Knowledge(state')
    BY <2>3, <2>4, <2>5 DEF Knowledge, IInv, MemoryInv
  <2>8. Knowledge(state)'
    BY <1>1, <2>7 DEF Knowledge, SourceKnown, Done, tables
  <2>. QED
    BY <2>6, <2>8
<1>. QED
  BY <1>5, <1>6, <1>7

LEMMA SaveStep == IInv /\ Save => IInv'
<1>. SUFFICES ASSUME IInv, Save PROVE IInv'
  OBVIOUS
<1>1. /\ starts \in Nat /\ UNCHANGED tables /\ calls' = calls /\ starts' = starts
      /\ UNCHANGED <<state, ready, force, after, fixture>> /\ file' = state
      /\ pc = "saving" /\ pc' = after /\ after \in {"fixtures", "process"}
  BY DEF IInv, ScriptTypes, ScriptInv, Save, Unserved
<1>2. TablesInv' /\ RunsInv' /\ CallsInv'
  BY <1>1, TablesStay
<1>3. ScriptTypes' /\ ScriptInv' /\ WaitingInv'
  BY <1>1 DEF IInv, ScriptTypes, ScriptInv, WaitingInv, Waiting
<1>4. Knowledge(state)'
  BY <1>1, Known DEF IInv, MemoryInv
<1>5. Knowledge(file)'
  BY <1>1, <1>4 DEF Knowledge, SourceKnown, Done, tables
<1>. QED
  BY <1>1, <1>2, <1>3, <1>4, <1>5, SameReady DEF IInv, MemoryInv

LEMMA SummarizeStep == IInv /\ Summarize => IInv'
<1>. SUFFICES ASSUME IInv, Summarize PROVE IInv'
  OBVIOUS
<1>1. /\ UNCHANGED <<tables, starts>> /\ calls' = calls /\ file' = file /\ Gone
      /\ ready'.study = state.study /\ fixture > Fixtures /\ fixture \in Nat
  BY SeedAssumption DEF IInv, ScriptTypes, Summarize, Unserved
<1>2. ASSUME NEW f \in FixtureIds
      PROVE  \E id \in Nat : SourceKnown(id, state.study, f) /\ Done(id)
  <2>1. f \in state.processed
    BY <1>1, SeedAssumption DEF IInv, ScriptInv, FixtureIds
  <2>2. SourceKnown(state.source[f], state.study, f) /\ Done(state.source[f])
    BY <2>1 DEF IInv, MemoryInv, Knowledge
  <2>3. state.source[f] \in Nat
    BY DEF IInv, ScriptTypes, StateType
  <2>. QED
    BY <2>2, <2>3
<1>3. ReadyKnown'
  BY <1>1, <1>2 DEF ReadyKnown, SourceKnown, Done, tables
<1>. QED
  BY <1>1, <1>3, GoneIsFine

-----------------------------------------------------------------------------
(* The steps of the API. *)

\* A call that is being served is replaced by one that is further, or is over.
LEMMA ServedCalls ==
    ASSUME IInv, Elsewhere, Keeps, NEW call \in calls, NEW new \in Call,
           calls' = (calls \ {call}) \cup {new} \/ calls' = calls \ {call},
           new.by = call.by, new.op = call.op, new.fixture = call.fixture,
           new.source = call.source, new.study = call.study,
           CallKnown(new)', CallRuns(new)',
           \A c \in calls \ {call} : CallRuns(c)',
           new.phase = "running" => \A c \in calls \ {call} : c.phase = "running" => c.run # new.run
    PROVE  CallsInv' /\ WaitingInv' /\ ScriptTypes' /\ ScriptInv' /\ MemoryInv'
<1>1. UNCHANGED <<starts, file, state, force, pc, after, fixture, ready>>
  BY DEF Elsewhere, script
<1>2. ASSUME NEW c \in calls PROVE CallKnown(c)'
  <2>1. CallKnown(c)
    BY DEF IInv, CallsInv
  <2>. QED
    BY <1>1, <2>1, Kept DEF CallKnown
<1>3. \A c \in calls' : CallKnown(c)' /\ CallRuns(c)'
  BY <1>2
<1>4. \A a, b \in calls' : a.phase = "running" /\ b.phase = "running" /\ a.run = b.run => a = b
  BY DEF IInv, CallsInv
<1>5. CallsInv'
  BY <1>3, <1>4 DEF IInv, CallsInv
<1>6. \A c \in calls' : c \in calls \/ c = new
  OBVIOUS
<1>7. WaitingInv'
  <2>1. \A c \in calls' : c.by = starts' => (Waiting \/ pc = "off")'
    BY <1>1, <1>6 DEF IInv, WaitingInv, Waiting
  <2>2. ASSUME Waiting' PROVE \A c \in calls' : c.by = starts' => Awaited(c)'
    <3>1. \A c \in calls : c.by = starts => Awaited(c)
      BY <1>1, <2>2 DEF IInv, WaitingInv, Waiting
    <3>. QED
      BY <1>1, <1>6, <3>1 DEF Awaited
  <2>3. ASSUME Waiting' PROVE \A a, b \in calls' : a.by = starts' /\ b.by = starts' => a = b
    <3>1. \A a, b \in calls : a.by = starts /\ b.by = starts => a = b
      BY <1>1, <2>3 DEF IInv, WaitingInv, Waiting
    <3>. QED
      BY <1>1, <3>1
  <2>. QED
    BY <2>1, <2>2, <2>3 DEF WaitingInv
<1>8. ScriptTypes' /\ ScriptInv'
  BY <1>1 DEF IInv, ScriptTypes, ScriptInv
<1>9. MemoryInv'
  BY <1>1, MemoryKept DEF IInv
<1>. QED
  BY <1>5, <1>7, <1>8, <1>9

LEMMA ReplyCalls ==
    ASSUME IInv, Elsewhere, Keeps, NEW call \in calls,
           NEW phase \in {"done", "conflict", "error"}, NEW answer \in Nat,
           Reply(call, phase, answer),
           call.op = "upload" /\ phase = "done" => SourceKnown(answer, call.study, call.fixture)',
           call.op = "process" /\ phase = "done" => Done(call.source)',
           \A c \in calls \ {call} : CallRuns(c)'
    PROVE  CallsInv' /\ WaitingInv' /\ ScriptTypes' /\ ScriptInv' /\ MemoryInv'
<1>1. call \in Call /\ CallKnown(call)
  BY DEF IInv, CallsInv
<1>2. PICK new : new = [call EXCEPT !.phase = phase, !.answer = answer]
  OBVIOUS
<1>3. PICK mid : mid = [call EXCEPT !.phase = phase]
  OBVIOUS
<1>4. new = [mid EXCEPT !.answer = answer]
  BY <1>1, <1>2, <1>3 DEF Call
<1>5. /\ mid \in Call /\ mid.phase = phase /\ mid.by = call.by /\ mid.op = call.op
      /\ mid.fixture = call.fixture /\ mid.source = call.source /\ mid.study = call.study
  BY <1>1, <1>3 DEF Call
<1>6. /\ new \in Call /\ new.phase = phase /\ new.by = call.by /\ new.op = call.op
      /\ new.fixture = call.fixture /\ new.source = call.source /\ new.study = call.study
      /\ new.answer = answer
  BY <1>4, <1>5 DEF Call
<1>7. calls' = (calls \ {call}) \cup {new} \/ calls' = calls \ {call}
  BY <1>2 DEF Reply
<1>8. CallKnown(new)' /\ CallRuns(new)'
  <2>1. call.op = "process" => SourceKnown(call.source, call.study, call.fixture)'
    BY <1>1, Kept DEF CallKnown
  <2>2. starts' = starts
    BY DEF Elsewhere
  <2>. QED
    BY <1>1, <1>6, <2>1, <2>2 DEF CallKnown, CallRuns
<1>. QED
  BY <1>6, <1>7, <1>8, ServedCalls

LEMMA ServeCreateStep == \A call \in calls : IInv /\ ServeCreate(call) => IInv'
<1>. SUFFICES ASSUME NEW call \in calls, IInv, ServeCreate(call) PROVE IInv'
  OBVIOUS
<1>. DEFINE row == [id |-> NewId(studies), title |-> call.title]
<1>1. call \in Call /\ UNCHANGED <<sources, runs, evidence>>
      /\ studies' \in Insertions(studies, row) /\ TableOK(studies, StudyRow)
  BY DEF IInv, CallsInv, TablesInv, ServeCreate
<1>2. NewId(studies) \in Nat /\ row \in StudyRow /\ row.id = NewId(studies)
  BY <1>1 DEF TableOK, NewId, StudyRow, Call
<1>. HIDE DEF row
<1>3. TableOK(studies', StudyRow)
  BY <1>1, <1>2, NewRow
<1>4. TablesInv'
  BY <1>1, <1>3 DEF IInv, TablesInv, TableOK
<1>5. RunsInv'
  BY <1>1 DEF IInv, RunsInv, Done, Active
<1>6. Keeps
  BY <1>1 DEF Keeps
<1>7. \A c \in calls \ {call} : CallRuns(c)'
  BY <1>1 DEF IInv, CallsInv, CallRuns
<1>. QED
  BY <1>2, <1>4, <1>5, <1>6, <1>7, ReplyCalls DEF ServeCreate, IInv

LEMMA ServeUploadStep == \A call \in calls : IInv /\ ServeUpload(call) => IInv'
<1>. SUFFICES ASSUME NEW call \in calls, IInv, ServeUpload(call) PROVE IInv'
  OBVIOUS
<1>0. PICK row : row = [id |-> NewId(sources), study |-> call.study,
                        fixture |-> call.fixture, status |-> "UPLOADED"]
  OBVIOUS
<1>1. call \in Call /\ UNCHANGED <<studies, runs, evidence>>
      /\ sources' \in Insertions(sources, row) /\ TableOK(sources, SourceRow)
  BY <1>0 DEF IInv, CallsInv, TablesInv, ServeUpload
<1>2. NewId(sources) \in Nat /\ row \in SourceRow /\ row.id = NewId(sources)
      /\ row.status = "UPLOADED" /\ row.study = call.study /\ row.fixture = call.fixture
  BY <1>0, <1>1 DEF TableOK, NewId, SourceRow, Call, Statuses
<1>3. TableOK(sources', SourceRow) /\ ToSet(sources') = ToSet(sources) \cup {row}
  BY <1>1, <1>2, NewRow
<1>4. TablesInv'
  BY <1>1, <1>3 DEF IInv, TablesInv, TableOK
<1>5. Keeps
  BY <1>1, <1>3 DEF Keeps
<1>6. RunsInv'
  <2>1. \A run \in ToSet(runs') : run.status = "SUCCEEDED" => Done(run.source)'
    BY <1>1, <1>5, Kept DEF IInv, RunsInv
  <2>. QED
    BY <1>1, <1>2, <1>3, <2>1 DEF IInv, RunsInv, Active
<1>7. \A c \in calls \ {call} : CallRuns(c)'
  BY <1>1 DEF IInv, CallsInv, CallRuns
<1>8. PICK id \in Nat : id = NewId(sources)
  BY <1>2
<1>9. SourceKnown(id, call.study, call.fixture)'
  BY <1>2, <1>3, <1>8 DEF SourceKnown
<1>10. Reply(call, "done", id) /\ Elsewhere /\ call.op = "upload"
  BY <1>8 DEF ServeUpload
<1>11. CallsInv' /\ WaitingInv' /\ ScriptTypes' /\ ScriptInv' /\ MemoryInv'
  BY <1>5, <1>7, <1>9, <1>10, ReplyCalls
<1>. QED
  BY <1>4, <1>6, <1>11 DEF IInv

LEMMA ServeProcessStep == \A call \in calls : IInv /\ ServeProcess(call) => IInv'
<1>. SUFFICES ASSUME NEW call \in calls, IInv, ServeProcess(call) PROVE IInv'
  OBVIOUS
<1>1. /\ call \in Call /\ CallKnown(call) /\ call.op = "process" /\ call.phase = "sent" /\ Elsewhere
      /\ TableOK(sources, SourceRow) /\ TableOK(runs, RunRow)
  BY DEF IInv, CallsInv, TablesInv, ServeProcess
<1>2. PICK source \in ToSet(sources) : source.id = call.source
  BY <1>1 DEF CallKnown, SourceKnown
<1>3. RowOf(sources, call.source) = source
  BY <1>1, <1>2, FoundRow
<1>4. source \in SourceRow
  BY <1>1, RowsAreTyped DEF TableOK
<1>5. CASE UNCHANGED tables /\ (\/ RunsOf(source.id, "SUCCEEDED") # {} /\ Reply(call, "done", 0)
                                \/ Reply(call, "conflict", 0))
  <2>1. TablesInv' /\ RunsInv' /\ Keeps
    BY <1>5 DEF IInv, TablesInv, TableOK, RunsInv, Done, Active, Keeps, tables
  <2>2. \A c \in calls \ {call} : CallRuns(c)'
    BY <1>5 DEF IInv, CallsInv, CallRuns, tables
  <2>3. RunsOf(source.id, "SUCCEEDED") # {} => Done(call.source)
    BY <1>2 DEF IInv, RunsInv, RunsOf
  <2>4. RunsOf(source.id, "SUCCEEDED") # {} => Done(call.source)'
    BY <2>1, <2>3, Kept
  <2>5. CASE Reply(call, "conflict", 0)
    BY <1>1, <2>1, <2>2, <2>5, ReplyCalls DEF IInv
  <2>6. CASE RunsOf(source.id, "SUCCEEDED") # {} /\ Reply(call, "done", 0)
    BY <1>1, <2>1, <2>2, <2>4, <2>6, ReplyCalls DEF IInv
  <2>. QED
    BY <1>5, <2>5, <2>6
<1>6. CASE /\ RunsOf(source.id, "SUCCEEDED") = {} /\ RunsOf(source.id, "RUNNING") = {}
           /\ runs' \in Insertions(runs, [id |-> NewId(runs), study |-> source.study,
                        source |-> source.id, status |-> "RUNNING", steps |-> 0])
           /\ sources' = Updated(sources, source.id, [source EXCEPT !.status = "PROCESSING"])
           /\ calls' = (calls \ {call}) \cup {[call EXCEPT !.phase = "running", !.run = NewId(runs)]}
           /\ UNCHANGED <<studies, evidence>>
  <2>1. PICK run : run = [id |-> NewId(runs), study |-> source.study,
                          source |-> source.id, status |-> "RUNNING", steps |-> 0]
    OBVIOUS
  <2>2. /\ run \in RunRow /\ run.id = NewId(runs) /\ run.status = "RUNNING" /\ run.source = source.id
        /\ NewId(runs) \in Nat
    <3>1. source.study \in Nat /\ source.id \in Nat
      BY <1>4 DEF SourceRow
    <3>2. NewId(runs) \in Nat
      BY <1>1 DEF TableOK, NewId
    <3>3. 0 \in 0 .. Steps
      BY DEF Steps
    <3>. QED
      BY <2>1, <3>1, <3>2, <3>3 DEF RunRow, Statuses
  <2>3. /\ TableOK(runs', RunRow) /\ ToSet(runs') = ToSet(runs) \cup {run}
        /\ \A a \in ToSet(runs) : a.id # run.id
    BY <1>1, <1>6, <2>1, <2>2, NewRow
  <2>4. PICK row : row = [source EXCEPT !.status = "PROCESSING"]
    OBVIOUS
  <2>5. /\ row \in SourceRow /\ row.id = source.id /\ row.study = source.study
        /\ row.fixture = source.fixture /\ row.status = "PROCESSING"
    BY <1>4, <2>4 DEF SourceRow, Statuses
  <2>6. TableOK(sources', SourceRow) /\ ToSet(sources') = (ToSet(sources) \ {source}) \cup {row}
    <3>1. sources' = Updated(sources, source.id, row)
      BY <1>6, <2>4
    <3>. QED
      BY <1>1, <2>5, <3>1, UpdatedRow
  <2>7. TablesInv'
    BY <1>6, <2>3, <2>6 DEF IInv, TablesInv, TableOK
  <2>8. source.status # "PROCESSED"
    BY <1>6 DEF IInv, RunsInv, RunsOf
  <2>9. Keeps
    BY <1>6, <2>5, <2>6, <2>8 DEF Keeps
  <2>10. RunsInv'
    <3>1. \A a \in ToSet(runs) : Active(a) => a.source # source.id
      BY <1>6 DEF RunsOf, Active
    <3>2. \A a, b \in ToSet(runs') : Active(a) /\ Active(b) /\ a.source = b.source => a = b
      BY <2>2, <2>3, <3>1 DEF IInv, RunsInv, Active
    <3>3. \A a \in ToSet(runs') : a.status = "SUCCEEDED" => Done(a.source)'
      BY <2>2, <2>3, <2>9, Kept DEF IInv, RunsInv
    <3>4. \A a \in ToSet(sources') : a.status = "PROCESSED" =>
            \E b \in ToSet(runs') : b.source = a.id /\ b.status = "SUCCEEDED"
      BY <2>3, <2>5, <2>6 DEF IInv, RunsInv
    <3>. QED
      BY <3>2, <3>3, <3>4 DEF RunsInv, Active
  <2>11. PICK new : new = [call EXCEPT !.phase = "running", !.run = run.id]
    OBVIOUS
  <2>12. PICK mid : mid = [call EXCEPT !.phase = "running"]
    OBVIOUS
  <2>13. /\ mid \in Call /\ mid.phase = "running" /\ mid.by = call.by /\ mid.op = call.op
         /\ mid.fixture = call.fixture /\ mid.source = call.source /\ mid.study = call.study
    BY <1>1, <2>12 DEF Call
  <2>14. new = [mid EXCEPT !.run = run.id]
    BY <1>1, <2>11, <2>12 DEF Call
  <2>15. /\ new \in Call /\ new.phase = "running" /\ new.by = call.by /\ new.op = call.op
         /\ new.fixture = call.fixture /\ new.source = call.source /\ new.study = call.study
         /\ new.run = run.id
    BY <2>2, <2>13, <2>14 DEF Call
  <2>16. calls' = (calls \ {call}) \cup {new}
    BY <1>6, <2>2, <2>11
  <2>17. CallKnown(new)' /\ CallRuns(new)'
    <3>1. SourceKnown(call.source, call.study, call.fixture)'
      BY <1>1, <2>9, Kept DEF CallKnown
    <3>2. starts' = starts
      BY <1>1 DEF Elsewhere
    <3>. QED
      BY <1>1, <1>2, <2>2, <2>3, <2>15, <3>1, <3>2 DEF CallKnown, CallRuns
  <2>18. \A c \in calls \ {call} : CallRuns(c)'
    BY <2>3 DEF IInv, CallsInv, CallRuns
  <2>19. \A c \in calls \ {call} : c.phase = "running" => c.run # new.run
    BY <2>3, <2>15 DEF IInv, CallsInv, CallRuns
  <2>20. CallsInv' /\ WaitingInv' /\ ScriptTypes' /\ ScriptInv' /\ MemoryInv'
    BY <1>1, <2>9, <2>15, <2>16, <2>17, <2>18, <2>19, ServedCalls
  <2>. QED
    BY <2>7, <2>10, <2>20 DEF IInv
<1>. QED
  BY <1>3, <1>5, <1>6 DEF ServeProcess

\* The row of a run that is being served, and of its source.
LEMMA RunningCall ==
    ASSUME IInv, NEW call \in calls, call.phase = "running"
    PROVE  /\ call \in Call /\ call.op = "process"
           /\ \E source \in ToSet(sources), run \in ToSet(runs) :
                /\ source.id = call.source /\ run.id = call.run /\ run.source = source.id
                /\ run.status = "RUNNING"
                /\ RowOf(sources, call.source) = source /\ RowOf(runs, call.run) = run
                /\ source \in SourceRow /\ run \in RunRow
<1>1. call \in Call /\ call.op = "process" /\ CallKnown(call)
      /\ TableOK(sources, SourceRow) /\ TableOK(runs, RunRow)
  BY DEF IInv, CallsInv, CallRuns, TablesInv
<1>2. PICK source \in ToSet(sources) : source.id = call.source
  BY <1>1 DEF CallKnown, SourceKnown
<1>3. PICK run \in ToSet(runs) : run.id = call.run /\ run.source = call.source /\ run.status = "RUNNING"
  BY DEF IInv, CallsInv, CallRuns
<1>4. RowOf(sources, call.source) = source /\ RowOf(runs, call.run) = run
  BY <1>1, <1>2, <1>3, FoundRow
<1>5. source \in SourceRow /\ run \in RunRow
  BY <1>1, RowsAreTyped DEF TableOK
<1>. QED
  BY <1>1, <1>2, <1>3, <1>4, <1>5

\* The other calls that are being served are about other runs.
LEMMA OtherRuns ==
    ASSUME IInv, NEW call \in calls, call.phase = "running", NEW run, run.id = call.run, NEW new,
           ToSet(runs') = (ToSet(runs) \ {run}) \cup {new}
    PROVE  \A c \in calls \ {call} : CallRuns(c)'
<1>. SUFFICES ASSUME NEW c \in calls \ {call}, c.phase = "running" PROVE CallRuns(c)'
  BY DEF CallRuns
<1>1. c.run # call.run /\ CallRuns(c)
  BY DEF IInv, CallsInv
<1>. QED
  BY <1>1 DEF CallRuns

LEMMA PublishStep == \A call \in calls : IInv /\ Publish(call) => IInv'
<1>. SUFFICES ASSUME NEW call \in calls, IInv, Publish(call) PROVE IInv'
  OBVIOUS
<1>1. /\ call.phase = "running" /\ Elsewhere /\ studies' = studies /\ Reply(call, "done", 0)
      /\ TableOK(sources, SourceRow) /\ TableOK(runs, RunRow) /\ TableOK(evidence, EvidenceRow)
  BY DEF IInv, TablesInv, Publish
<1>2. PICK source \in ToSet(sources), run \in ToSet(runs) :
        /\ source.id = call.source /\ run.id = call.run /\ run.source = source.id
        /\ run.status = "RUNNING"
        /\ RowOf(sources, call.source) = source /\ RowOf(runs, call.run) = run
        /\ source \in SourceRow /\ run \in RunRow
  BY <1>1, RunningCall
<1>3. PICK over : over = [run EXCEPT !.status = "SUCCEEDED", !.steps = Steps]
  OBVIOUS
<1>4. PICK row : row = [source EXCEPT !.status = "PROCESSED"]
  OBVIOUS
<1>5. PICK item : item = [id |-> NewId(evidence), study |-> source.study, source |-> source.id]
  OBVIOUS
<1>6. /\ runs' = Updated(runs, run.id, over) /\ sources' = Updated(sources, source.id, row)
      /\ evidence' \in Insertions(evidence, item)
  BY <1>2, <1>3, <1>4, <1>5 DEF Publish
<1>7. /\ over \in RunRow /\ over.id = run.id /\ over.source = source.id /\ over.status = "SUCCEEDED"
  <2>1. PICK mid : mid = [run EXCEPT !.status = "SUCCEEDED"]
    OBVIOUS
  <2>2. mid \in RunRow /\ mid.id = run.id /\ mid.source = source.id /\ mid.status = "SUCCEEDED"
    BY <1>2, <2>1 DEF RunRow, Statuses
  <2>3. over = [mid EXCEPT !.steps = Steps]
    BY <1>2, <1>3, <2>1 DEF RunRow
  <2>4. Steps \in 0 .. Steps
    BY DEF Steps
  <2>. QED
    BY <2>2, <2>3, <2>4 DEF RunRow
<1>8. /\ row \in SourceRow /\ row.id = source.id /\ row.study = source.study
      /\ row.fixture = source.fixture /\ row.status = "PROCESSED"
  BY <1>2, <1>4 DEF SourceRow, Statuses
<1>9. item \in EvidenceRow /\ item.id = NewId(evidence) /\ item.source = source.id /\ item.study = source.study
  <2>1. source.study \in Nat /\ source.id \in Nat
    BY <1>2 DEF SourceRow
  <2>2. NewId(evidence) \in Nat
    BY <1>1 DEF TableOK, NewId
  <2>. QED
    BY <1>5, <2>1, <2>2 DEF EvidenceRow
<1>10. TableOK(runs', RunRow) /\ ToSet(runs') = (ToSet(runs) \ {run}) \cup {over}
  BY <1>1, <1>2, <1>6, <1>7, UpdatedRow
<1>11. TableOK(sources', SourceRow) /\ ToSet(sources') = (ToSet(sources) \ {source}) \cup {row}
  BY <1>1, <1>2, <1>6, <1>8, UpdatedRow
<1>12. TableOK(evidence', EvidenceRow) /\ ToSet(evidence') = ToSet(evidence) \cup {item}
  BY <1>1, <1>6, <1>9, NewRow
<1>13. TablesInv'
  BY <1>1, <1>10, <1>11, <1>12 DEF IInv, TablesInv, TableOK
<1>14. Keeps
  BY <1>8, <1>11, <1>12 DEF Keeps
<1>15. Done(source.id)'
  BY <1>8, <1>9, <1>11, <1>12 DEF Done
<1>16. RunsInv'
  <2>1. \A a, b \in ToSet(runs') : Active(a) /\ Active(b) /\ a.source = b.source => a = b
    BY <1>2, <1>7, <1>10 DEF IInv, RunsInv, Active
  <2>2. \A a \in ToSet(runs') : a.status = "SUCCEEDED" => Done(a.source)'
    BY <1>7, <1>10, <1>14, <1>15, Kept DEF IInv, RunsInv
  <2>3. \A a \in ToSet(sources') : a.status = "PROCESSED" =>
            \E b \in ToSet(runs') : b.source = a.id /\ b.status = "SUCCEEDED"
    BY <1>2, <1>7, <1>8, <1>10, <1>11 DEF IInv, RunsInv
  <2>. QED
    BY <2>1, <2>2, <2>3 DEF RunsInv, Active
<1>17. \A c \in calls \ {call} : CallRuns(c)'
  BY <1>1, <1>2, <1>10, OtherRuns
<1>18. call.op = "process" /\ Done(call.source)'
  BY <1>1, <1>2, <1>15, RunningCall
<1>19. CallsInv' /\ WaitingInv' /\ ScriptTypes' /\ ScriptInv' /\ MemoryInv'
  BY <1>1, <1>14, <1>17, <1>18, ReplyCalls
<1>. QED
  BY <1>13, <1>16, <1>19 DEF IInv

LEMMA FailRunStep == \A call \in calls : IInv /\ FailRun(call) => IInv'
<1>. SUFFICES ASSUME NEW call \in calls, IInv, FailRun(call) PROVE IInv'
  OBVIOUS
<1>1. /\ call.phase = "running" /\ Elsewhere /\ UNCHANGED <<studies, evidence>> /\ Reply(call, "error", 0)
      /\ TableOK(sources, SourceRow) /\ TableOK(runs, RunRow)
  BY DEF IInv, TablesInv, FailRun
<1>2. PICK source \in ToSet(sources), run \in ToSet(runs) :
        /\ source.id = call.source /\ run.id = call.run /\ run.source = source.id
        /\ run.status = "RUNNING"
        /\ RowOf(sources, call.source) = source /\ RowOf(runs, call.run) = run
        /\ source \in SourceRow /\ run \in RunRow
  BY <1>1, RunningCall
<1>3. PICK done \in FailedAfter :
        /\ runs' = Updated(runs, run.id, [run EXCEPT !.status = "FAILED", !.steps = done])
        /\ sources' = Updated(sources, source.id, [source EXCEPT !.status = "FAILED"])
  BY <1>2 DEF FailRun
<1>4. PICK over : over = [run EXCEPT !.status = "FAILED", !.steps = done]
  OBVIOUS
<1>5. PICK row : row = [source EXCEPT !.status = "FAILED"]
  OBVIOUS
<1>6. over \in RunRow /\ over.id = run.id /\ over.source = source.id /\ over.status = "FAILED"
  <2>1. PICK mid : mid = [run EXCEPT !.status = "FAILED"]
    OBVIOUS
  <2>2. mid \in RunRow /\ mid.id = run.id /\ mid.source = source.id /\ mid.status = "FAILED"
    BY <1>2, <2>1 DEF RunRow, Statuses
  <2>3. over = [mid EXCEPT !.steps = done]
    BY <1>2, <1>4, <2>1 DEF RunRow
  <2>4. done \in 0 .. Steps
    BY SeedAssumption DEF Steps
  <2>. QED
    BY <2>2, <2>3, <2>4 DEF RunRow
<1>7. /\ row \in SourceRow /\ row.id = source.id /\ row.study = source.study
      /\ row.fixture = source.fixture /\ row.status = "FAILED"
  BY <1>2, <1>5 DEF SourceRow, Statuses
<1>8. TableOK(runs', RunRow) /\ ToSet(runs') = (ToSet(runs) \ {run}) \cup {over}
  <2>1. runs' = Updated(runs, run.id, over)
    BY <1>3, <1>4
  <2>. QED
    BY <1>1, <1>2, <1>6, <2>1, UpdatedRow
<1>9. TableOK(sources', SourceRow) /\ ToSet(sources') = (ToSet(sources) \ {source}) \cup {row}
  <2>1. sources' = Updated(sources, source.id, row)
    BY <1>3, <1>5
  <2>. QED
    BY <1>1, <1>2, <1>7, <2>1, UpdatedRow
<1>10. TablesInv'
  BY <1>1, <1>8, <1>9 DEF IInv, TablesInv, TableOK
<1>11. source.status # "PROCESSED"
  BY <1>2 DEF IInv, RunsInv, Active
<1>12. Keeps
  BY <1>1, <1>7, <1>9, <1>11 DEF Keeps
<1>13. RunsInv'
  <2>1. \A a, b \in ToSet(runs') : Active(a) /\ Active(b) /\ a.source = b.source => a = b
    BY <1>6, <1>8 DEF IInv, RunsInv, Active
  <2>2. \A a \in ToSet(runs') : a.status = "SUCCEEDED" => Done(a.source)'
    BY <1>6, <1>8, <1>12, Kept DEF IInv, RunsInv
  <2>3. \A a \in ToSet(sources') : a.status = "PROCESSED" =>
            \E b \in ToSet(runs') : b.source = a.id /\ b.status = "SUCCEEDED"
    BY <1>2, <1>7, <1>8, <1>9 DEF IInv, RunsInv
  <2>. QED
    BY <2>1, <2>2, <2>3 DEF RunsInv, Active
<1>14. \A c \in calls \ {call} : CallRuns(c)'
  BY <1>1, <1>2, <1>8, OtherRuns
<1>15. CallsInv' /\ WaitingInv' /\ ScriptTypes' /\ ScriptInv' /\ MemoryInv'
  BY <1>1, <1>12, <1>14, ReplyCalls
<1>. QED
  BY <1>10, <1>13, <1>15 DEF IInv

LEMMA ApiStopsStep == IInv /\ ApiStops => IInv'
<1>. SUFFICES ASSUME IInv, ApiStops PROVE IInv'
  OBVIOUS
<1>1. /\ UNCHANGED tables
      /\ UNCHANGED <<starts, file, state, force, pc, after, fixture, ready>>
  BY DEF ApiStops, script
<1>2. TablesInv' /\ RunsInv' /\ Keeps
  BY <1>1 DEF IInv, TablesInv, TableOK, RunsInv, Done, Active, Keeps, tables
<1>3. ASSUME NEW new \in calls'
      PROVE  \E call \in calls :
                /\ call.by = starts /\ Waiting
                /\ new = [call EXCEPT !.phase = "error"]
                /\ new \in Call /\ new.phase = "error" /\ new.by = call.by /\ new.op = call.op
                /\ new.fixture = call.fixture /\ new.source = call.source /\ new.study = call.study
                /\ CallKnown(call)
  <2>1. PICK call \in calls : call.by = starts /\ Waiting /\ new = [call EXCEPT !.phase = "error"]
    BY DEF ApiStops
  <2>2. call \in Call /\ CallKnown(call)
    BY DEF IInv, CallsInv
  <2>. QED
    BY <2>1, <2>2 DEF Call
<1>4. CallsInv'
  <2>1. ASSUME NEW new \in calls' PROVE new \in Call /\ CallKnown(new)' /\ CallRuns(new)' /\ new.phase # "running"
    BY <1>1, <1>2, <1>3, Kept DEF CallKnown, CallRuns
  <2>. QED
    BY <2>1 DEF CallsInv
<1>5. WaitingInv'
  <2>1. \A new \in calls' : Waiting
    BY <1>3
  <2>2. ASSUME NEW new \in calls' PROVE Awaited(new)'
    BY <1>1, <1>3 DEF IInv, WaitingInv, Awaited
  <2>3. ASSUME NEW a \in calls', NEW b \in calls' PROVE a = b
    <3>1. PICK c \in calls : c.by = starts /\ Waiting /\ a = [c EXCEPT !.phase = "error"]
      BY <1>3
    <3>2. PICK d \in calls : d.by = starts /\ b = [d EXCEPT !.phase = "error"]
      BY <1>3
    <3>3. c = d
      BY <3>1, <3>2 DEF IInv, WaitingInv
    <3>. QED
      BY <3>1, <3>2, <3>3
  <2>4. Waiting' = Waiting
    BY <1>1 DEF Waiting
  <2>. QED
    BY <2>1, <2>2, <2>3, <2>4 DEF WaitingInv
<1>6. ScriptTypes' /\ ScriptInv'
  BY <1>1 DEF IInv, ScriptTypes, ScriptInv
<1>7. MemoryInv'
  BY <1>1, <1>2, MemoryKept DEF IInv
<1>. QED
  BY <1>2, <1>4, <1>5, <1>6, <1>7 DEF IInv

LEMMA OtherStudyStep == IInv /\ OtherStudy => IInv'
<1>. SUFFICES ASSUME IInv, OtherStudy PROVE IInv'
  OBVIOUS
<1>1. PICK row : row = [id |-> NewId(studies), title |-> "other"]
  OBVIOUS
<1>2. /\ UNCHANGED <<sources, runs, evidence, calls>> /\ Elsewhere
      /\ studies' \in Insertions(studies, row) /\ TableOK(studies, StudyRow)
  BY <1>1 DEF IInv, TablesInv, OtherStudy
<1>3. row \in StudyRow /\ row.id = NewId(studies)
  BY <1>1, <1>2 DEF TableOK, NewId, StudyRow, Titles
<1>4. TableOK(studies', StudyRow)
  BY <1>2, <1>3, NewRow
<1>5. TablesInv'
  BY <1>2, <1>4 DEF IInv, TablesInv, TableOK
<1>6. RunsInv' /\ Keeps
  BY <1>2 DEF IInv, RunsInv, Done, Active, Keeps
<1>7. UNCHANGED <<starts, file, state, force, pc, after, fixture, ready>>
  BY <1>2 DEF Elsewhere, script
<1>8. MemoryInv'
  BY <1>6, <1>7, MemoryKept DEF IInv
<1>9. CallsInv'
  BY <1>2, <1>7 DEF IInv, CallsInv, CallKnown, CallRuns, SourceKnown, Done
<1>10. WaitingInv' /\ ScriptTypes' /\ ScriptInv'
  BY <1>2, <1>7 DEF IInv, WaitingInv, Waiting, Awaited, ScriptTypes, ScriptInv
<1>. QED
  BY <1>5, <1>6, <1>8, <1>9, <1>10 DEF IInv

-----------------------------------------------------------------------------
(* Every step, and the first theorem. *)

\* Whoever reads the lists meanwhile changes nothing.
LEMMA QuietStep == IInv /\ UNCHANGED <<tables, script, calls, starts, ready>> => IInv'
<1>. SUFFICES ASSUME IInv, UNCHANGED <<tables, script, calls, starts, ready>> PROVE IInv'
  OBVIOUS
<1>1. /\ UNCHANGED tables
      /\ UNCHANGED <<starts, calls, file, state, force, pc, after, fixture, ready>> /\ starts \in Nat
  BY DEF script, IInv, ScriptTypes
<1>2. TablesInv' /\ RunsInv' /\ CallsInv'
  BY <1>1, TablesStay
<1>3. ScriptTypes' /\ ScriptInv' /\ WaitingInv'
  BY <1>1 DEF IInv, ScriptTypes, ScriptInv, WaitingInv, Waiting, Awaited
<1>4. MemoryInv'
  BY <1>1, Known, SameReady DEF IInv, MemoryInv
<1>. QED
  BY <1>2, <1>3, <1>4 DEF IInv

LEMMA InitiallyInv == Init => IInv
<1>. SUFFICES ASSUME Init PROVE IInv
  OBVIOUS
<1>1. /\ studies = << >> /\ sources = << >> /\ runs = << >> /\ evidence = << >>
      /\ file = Nothing /\ state = Nothing /\ force = FALSE /\ pc = "off" /\ after = "off"
      /\ fixture = 1 /\ calls = {} /\ starts = 0 /\ ready.how = "never"
  BY DEF Init
<1>2. \A S : << >> \in Seq(S)
  OBVIOUS
<1>3. ToSet(<< >>) = {}
  BY DEF ToSet
<1>4. TablesInv /\ RunsInv /\ CallsInv
  BY <1>1, <1>2, <1>3 DEF TablesInv, TableOK, RunsInv, CallsInv
<1>5. Nothing \in StateType
  BY DEF Nothing, NewState, StateType
<1>6. 1 \in 1 .. (Fixtures + 1)
  BY SeedAssumption
<1>7. ScriptTypes
  BY <1>1, <1>5, <1>6 DEF ScriptTypes
<1>8. ScriptInv /\ WaitingInv
  BY <1>1 DEF ScriptInv, WaitingInv, Waiting, FixtureIds
<1>9. MemoryInv
  BY <1>1, Known DEF MemoryInv, ReadyKnown, Nothing
<1>. QED
  BY <1>4, <1>7, <1>8, <1>9 DEF IInv

LEMMA EveryStep == IInv /\ [Next]_vars => IInv'
<1>. SUFFICES ASSUME IInv, [Next]_vars PROVE IInv'
  OBVIOUS
<1>1. CASE Script
  BY <1>1, ResumeStep, DiscoverStep, CallingSteps, SkipFixtureStep, AnswerSteps, SaveStep, SummarizeStep
     DEF Script
<1>2. CASE Die
  BY <1>2, DieStep
<1>3. CASE Api
  BY <1>3, ServeCreateStep, ServeUploadStep, ServeProcessStep, PublishStep, FailRunStep,
     ApiStopsStep, OtherStudyStep DEF Api
<1>4. CASE Reading
  BY <1>4, QuietStep DEF Reading
<1>5. CASE \E forced \in BOOLEAN : Start(forced)
  BY <1>5, StartStep
<1>6. CASE UNCHANGED vars
  BY <1>6, QuietStep DEF vars
<1>. QED
  BY <1>1, <1>2, <1>3, <1>4, <1>5, <1>6 DEF Next

\* The inductive invariant of the script and the API together, on which the
\* theorems below rest.
LEMMA TypesHold == Spec => []IInv
<1>. QED
  BY InitiallyInv, EveryStep, PTL DEF Spec

\* When the script reports a study it has seeded as ready, every fixture of it has been
\* processed and its evidence is there: for any number of fixtures, however often the
\* script and the API stop, and whatever runs fail.
THEOREM ReadyIsReady == Spec => []ReadyMeansProcessed
<1>1. IInv => ReadyMeansProcessed
  BY ReadyImplied DEF IInv
<1>. QED
  BY <1>1, TypesHold, PTL

-----------------------------------------------------------------------------
(* How often a study has a fixture.  An upload that the API has yet to serve  *)
(* will add to the sources, whether or not the start that sent it still waits. *)

Owned(rows, study, f) ==
    {id \in Nat : \E row \in ToSet(rows) : row.id = id /\ row.study = study /\ row.fixture = f}

Sent(cs, study, f) ==
    {call \in cs : call.op = "upload" /\ call.phase = "sent" /\ call.study = study /\ call.fixture = f}

Load(rows, cs, study, f) == Cardinality(Owned(rows, study, f)) + Cardinality(Sent(cs, study, f))

\* The uploads of a fixture that nobody waits for any more.
CutOff(cs, start, at, f) ==
    {call \in cs : /\ call.op = "upload" /\ call.phase = "sent" /\ call.fixture = f
                   /\ ~(call.by = start /\ at = "uploading")}

\* The source of a fixture is not in the file yet.
Unfiled(f) == fixture = f /\ (pc = "uploading" \/ (pc = "saving" /\ after = "process"))

Counted == lost \in [FixtureIds -> Nat] /\ IsFiniteSet(calls)

Made(study) == study \in 1 .. Len(studies)

MadeInv ==
    /\ \A row \in ToSet(sources) : Made(row.study)
    /\ \A call \in calls : call.op = "upload" => Made(call.study)
    /\ \A call \in calls : call.op = "create" /\ call.phase = "done" => Made(call.answer)

FileInv ==
    /\ pc \in {"resume", "fixtures", "uploading", "processing", "process"} => file = state
    /\ pc = "saving" /\ after = "process" =>
            /\ file.study = state.study
            /\ \A f \in FixtureIds : f # fixture => file.source[f] = state.source[f]
            /\ file.source[fixture] = 0
    /\ pc \notin {"off", "discover", "create", "creating"} => Made(state.study)
    /\ file = Nothing \/ Made(file.study)

NoneTwice == \A study \in Nat, f \in FixtureIds : Load(sources, calls, study, f) <= 1 + lost[f]
CutsInv   == \A f \in FixtureIds : Cardinality(CutOff(calls, starts, pc, f)) <= lost[f]

\* What is not in the file has been uploaded for its study only by uploads that were cut
\* off, but for the one that is going on.
FileLoads ==
    file # Nothing => \A f \in FixtureIds : file.source[f] = 0 =>
        Load(sources, calls, file.study, f) <= lost[f] + (IF Unfiled(f) THEN 1 ELSE 0)

SavingLoads ==
    pc = "saving" /\ after = "fixtures" => \A f \in FixtureIds : state.source[f] = 0 =>
        Load(sources, calls, state.study, f) <= lost[f]

CreatedLoads ==
    pc = "creating" => \A call \in calls : call.by = starts /\ call.phase = "done" =>
        \A f \in FixtureIds : Load(sources, calls, call.answer, f) <= lost[f]

LoadInv ==
    Counted /\ MadeInv /\ FileInv /\ NoneTwice /\ CutsInv /\ FileLoads /\ SavingLoads /\ CreatedLoads

LEMMA OneMore ==
    ASSUME NEW S, IsFiniteSet(S), NEW x
    PROVE  /\ IsFiniteSet(S \cup {x}) /\ Cardinality(S \cup {x}) \in Nat
           /\ Cardinality(S \cup {x}) <= Cardinality(S) + 1
<1>1. Cardinality(S) \in Nat
  BY FS_CardinalityType
<1>2. /\ IsFiniteSet(S \cup {x})
      /\ Cardinality(S \cup {x}) = IF x \in S THEN Cardinality(S) ELSE Cardinality(S) + 1
  BY FS_AddElement
<1>. QED
  BY <1>1, <1>2

LEMMA LoadType ==
    ASSUME NEW S, NEW rows, TableOK(rows, S), NEW cs, IsFiniteSet(cs), NEW study, NEW f
    PROVE  /\ IsFiniteSet(Owned(rows, study, f)) /\ Cardinality(Owned(rows, study, f)) \in Nat
           /\ IsFiniteSet(Sent(cs, study, f)) /\ Cardinality(Sent(cs, study, f)) \in Nat
           /\ Load(rows, cs, study, f) \in Nat
<1>1. Owned(rows, study, f) \subseteq 1 .. Len(rows) /\ Len(rows) \in Nat
  BY DEF Owned, TableOK
<1>2. IsFiniteSet(1 .. Len(rows))
  BY <1>1, FS_Interval
<1>3. IsFiniteSet(Owned(rows, study, f))
  BY <1>1, <1>2, FS_Subset
<1>4. IsFiniteSet(Sent(cs, study, f))
  BY FS_Subset DEF Sent
<1>5. Cardinality(Owned(rows, study, f)) \in Nat /\ Cardinality(Sent(cs, study, f)) \in Nat
  BY <1>3, <1>4, FS_CardinalityType
<1>. QED
  BY <1>3, <1>4, <1>5 DEF Load

LEMMA CutType ==
    ASSUME NEW cs, IsFiniteSet(cs), NEW start, NEW at, NEW f
    PROVE  IsFiniteSet(CutOff(cs, start, at, f)) /\ Cardinality(CutOff(cs, start, at, f)) \in Nat
<1>1. IsFiniteSet(CutOff(cs, start, at, f))
  BY FS_Subset DEF CutOff
<1>. QED
  BY <1>1, FS_CardinalityType

\* Calls that end, and rows that keep their study and fixture, make it no worse.
LEMMA Lighter ==
    ASSUME NEW S, NEW old, TableOK(old, S), NEW rows, TableOK(rows, S),
           NEW cs, IsFiniteSet(cs), NEW left, \A c \in left : c.op = "upload" /\ c.phase = "sent" => c \in cs,
           NEW study, NEW f, Owned(rows, study, f) = Owned(old, study, f)
    PROVE  /\ Load(rows, left, study, f) <= Load(old, cs, study, f)
           /\ Load(rows, left, study, f) \in Nat /\ Load(old, cs, study, f) \in Nat
<1>1. Sent(left, study, f) \subseteq Sent(cs, study, f)
  BY DEF Sent
<1>2. /\ IsFiniteSet(Sent(cs, study, f)) /\ Cardinality(Sent(cs, study, f)) \in Nat
      /\ Cardinality(Owned(old, study, f)) \in Nat
  BY LoadType
<1>3. Cardinality(Sent(left, study, f)) <= Cardinality(Sent(cs, study, f)) /\ IsFiniteSet(Sent(left, study, f))
  BY <1>1, <1>2, FS_Subset
<1>4. Cardinality(Sent(left, study, f)) \in Nat
  BY <1>3, FS_CardinalityType
<1>. QED
  BY <1>2, <1>3, <1>4 DEF Load

LEMMA FewerCuts ==
    ASSUME NEW cs, IsFiniteSet(cs), NEW left, NEW start, NEW at, NEW s2, NEW at2, NEW f,
           CutOff(left, s2, at2, f) \subseteq CutOff(cs, start, at, f)
    PROVE  /\ Cardinality(CutOff(left, s2, at2, f)) <= Cardinality(CutOff(cs, start, at, f))
           /\ Cardinality(CutOff(left, s2, at2, f)) \in Nat
           /\ Cardinality(CutOff(cs, start, at, f)) \in Nat
<1>1. IsFiniteSet(CutOff(cs, start, at, f)) /\ Cardinality(CutOff(cs, start, at, f)) \in Nat
  BY CutType
<1>2. /\ IsFiniteSet(CutOff(left, s2, at2, f))
      /\ Cardinality(CutOff(left, s2, at2, f)) <= Cardinality(CutOff(cs, start, at, f))
  BY <1>1, FS_Subset
<1>. QED
  BY <1>1, <1>2, FS_CardinalityType

\* Steps that leave the tables alone and begin no upload.
LEMMA LoadsStay ==
    ASSUME IInv, IInv', LoadInv, UNCHANGED tables,
           \A c \in calls' : c \in calls \/ (c.phase = "sent" /\ c.op # "upload"), IsFiniteSet(calls'),
           lost' \in [FixtureIds -> Nat], \A f \in FixtureIds : lost[f] <= lost'[f]
    PROVE  /\ Counted' /\ MadeInv' /\ NoneTwice'
           /\ (pc = "uploading" => \A c \in calls' : c.by = starts => c.phase # "sent") => CutsInv'
           /\ \A study, f : /\ Load(sources', calls', study, f) <= Load(sources, calls, study, f)
                            /\ Load(sources', calls', study, f) \in Nat
                            /\ Load(sources, calls, study, f) \in Nat
           /\ \A study : Made(study) <=> Made(study)'
<1>1. /\ IsFiniteSet(calls) /\ lost \in [FixtureIds -> Nat]
      /\ sources' = sources /\ studies' = studies
  BY DEF LoadInv, Counted, tables
<1>2. Counted'
  BY <1>1 DEF Counted
<1>3. \A study : Made(study) <=> Made(study)'
  BY <1>1 DEF Made
<1>4. MadeInv'
  BY <1>1, <1>3 DEF LoadInv, MadeInv
<1>5. TableOK(sources, SourceRow)
  BY DEF IInv, TablesInv
<1>6. ASSUME NEW study, NEW f
      PROVE  /\ Load(sources', calls', study, f) <= Load(sources, calls, study, f)
             /\ Load(sources', calls', study, f) \in Nat
             /\ Load(sources, calls, study, f) \in Nat
  BY <1>1, <1>5, Lighter
<1>7. NoneTwice'
  <2>. SUFFICES ASSUME NEW study \in Nat, NEW f \in FixtureIds
                PROVE  Load(sources', calls', study, f) <= 1 + lost'[f]
    BY <1>1 DEF NoneTwice
  <2>1. Load(sources, calls, study, f) <= 1 + lost[f] /\ lost[f] \in Nat /\ lost'[f] \in Nat
    BY <1>1 DEF LoadInv, NoneTwice
  <2>. QED
    BY <1>6, <2>1
<1>8. ASSUME pc = "uploading" => \A c \in calls' : c.by = starts => c.phase # "sent" PROVE CutsInv'
  <2>. SUFFICES ASSUME NEW f \in FixtureIds
                PROVE  Cardinality(CutOff(calls', starts', pc', f)) <= lost'[f]
    BY <1>1 DEF CutsInv
  <2>1. CutOff(calls', starts', pc', f) \subseteq CutOff(calls, starts, pc, f)
    BY <1>8 DEF CutOff
  <2>2. Cardinality(CutOff(calls, starts, pc, f)) <= lost[f] /\ lost[f] \in Nat /\ lost'[f] \in Nat
    BY <1>1 DEF LoadInv, CutsInv
  <2>. QED
    BY <1>1, <2>1, <2>2, FewerCuts
<1>. QED
  BY <1>2, <1>3, <1>4, <1>6, <1>7, <1>8

\* The end of the process: what it did not get into its file counts as lost.
LEMMA GoneLoads ==
    ASSUME IInv, IInv', LoadInv, Gone, file' \in {file, Nothing}, UNCHANGED tables,
           calls' \subseteq calls, IsFiniteSet(calls'),
           lost' \in [FixtureIds -> Nat], \A f \in FixtureIds : lost[f] <= lost'[f],
           \A f \in FixtureIds : Unfiled(f) => lost[f] + 1 <= lost'[f],
           CutsInv'
    PROVE  LoadInv'
<1>1. /\ Counted' /\ MadeInv' /\ NoneTwice'
      /\ \A study, f : /\ Load(sources', calls', study, f) <= Load(sources, calls, study, f)
                       /\ Load(sources', calls', study, f) \in Nat
                       /\ Load(sources, calls, study, f) \in Nat
      /\ \A study : Made(study) <=> Made(study)'
  BY LoadsStay
<1>2. pc' = "off" /\ lost \in [FixtureIds -> Nat]
  BY DEF Gone, LoadInv, Counted
<1>3. FileInv'
  BY <1>1, <1>2 DEF LoadInv, FileInv, Nothing, NewState
<1>4. FileLoads'
  <2>. SUFFICES ASSUME file' # Nothing, NEW f \in FixtureIds, file'.source[f] = 0
                PROVE  Load(sources', calls', file'.study, f) <= lost'[f]
    BY <1>2 DEF FileLoads, Unfiled, Nothing, NewState, FixtureIds
  <2>1. file' = file
    OBVIOUS
  <2>2. /\ Load(sources, calls, file.study, f) <= lost[f] + (IF Unfiled(f) THEN 1 ELSE 0)
        /\ lost[f] \in Nat /\ lost'[f] \in Nat
    BY <1>2, <2>1 DEF LoadInv, FileLoads
  <2>3. Load(sources, calls, file.study, f) <= lost'[f]
    BY <1>1, <2>2
  <2>. QED
    BY <1>1, <2>1, <2>2, <2>3
<1>5. SavingLoads' /\ CreatedLoads'
  BY <1>2 DEF SavingLoads, CreatedLoads
<1>. QED
  BY <1>1, <1>3, <1>4, <1>5 DEF LoadInv

LEMMA DieLoads == IInv /\ IInv' /\ LoadInv /\ Die => LoadInv'
<1>. SUFFICES ASSUME IInv, IInv', LoadInv, Die PROVE LoadInv'
  OBVIOUS
<1>1. /\ Gone /\ file' \in {file, Nothing} /\ UNCHANGED tables /\ starts' = starts /\ calls' \subseteq calls
      /\ lost \in [FixtureIds -> Nat] /\ IsFiniteSet(calls) /\ IsFiniteSet(calls')
      /\ pc = "uploading" \/ (pc = "saving" /\ after = "process") => fixture \in FixtureIds
  BY FS_Subset DEF Die, LoadInv, Counted, IInv, ScriptInv
<1>2. lost' = IF pc = "uploading" \/ (pc = "saving" /\ after = "process")
              THEN [lost EXCEPT ![fixture] = @ + 1] ELSE lost
  BY DEF Die
<1>3. lost' \in [FixtureIds -> Nat]
  BY <1>1, <1>2
<1>4. ASSUME NEW f \in FixtureIds
      PROVE  lost'[f] = IF Unfiled(f) THEN lost[f] + 1 ELSE lost[f]
  BY <1>1, <1>2 DEF Unfiled
<1>5. ASSUME NEW f \in FixtureIds
      PROVE  lost[f] \in Nat /\ lost'[f] \in Nat /\ lost[f] <= lost'[f] /\ (Unfiled(f) => lost[f] + 1 <= lost'[f])
  BY <1>1, <1>3, <1>4
<1>6. CASE pc # "uploading"
  <2>1. CutsInv'
    BY <1>1, <1>3, <1>5, <1>6, LoadsStay
  <2>. QED
    BY <1>1, <1>3, <1>5, <2>1, GoneLoads
<1>7. CASE pc = "uploading"
  <2>1. CutsInv'
    <3>. SUFFICES ASSUME NEW f \in FixtureIds
                  PROVE  Cardinality(CutOff(calls', starts', pc', f)) <= lost'[f]
      BY DEF CutsInv
    <3>. PICK now : now = CutOff(calls', starts', pc', f)
      OBVIOUS
    <3>. PICK then : then = CutOff(calls, starts, pc, f)
      OBVIOUS
    <3>1. IsFiniteSet(then) /\ Cardinality(then) \in Nat /\ Cardinality(then) <= lost[f]
      BY <1>1, CutType DEF LoadInv, CutsInv
    <3>2. CASE \E c \in calls : c.by = starts
      <4>1. PICK c \in calls : c.by = starts
        BY <3>2
      <4>2. \A d \in calls : d.by = starts => d = c
        BY <1>7, <4>1 DEF IInv, WaitingInv, Waiting
      <4>3. c.fixture = fixture
        BY <1>7, <4>1 DEF IInv, WaitingInv, Waiting, Awaited
      <4>4. now \subseteq then \cup {c} /\ (f # fixture => now \subseteq then)
        BY <1>1, <4>2, <4>3 DEF CutOff
      <4>5. IsFiniteSet(then \cup {c}) /\ Cardinality(then \cup {c}) <= Cardinality(then) + 1
            /\ Cardinality(then \cup {c}) \in Nat
        BY <3>1, OneMore
      <4>6. IsFiniteSet(now) /\ Cardinality(now) <= Cardinality(then) + 1
            /\ (f # fixture => Cardinality(now) <= Cardinality(then))
        <5>1. IsFiniteSet(now) /\ Cardinality(now) <= Cardinality(then \cup {c})
          BY <4>4, <4>5, FS_Subset
        <5>2. Cardinality(now) \in Nat
          BY <5>1, FS_CardinalityType
        <5>3. f # fixture => Cardinality(now) <= Cardinality(then)
          BY <3>1, <4>4, FS_Subset
        <5>. QED
          BY <3>1, <4>5, <5>1, <5>2, <5>3
      <4>7. Cardinality(now) \in Nat
        BY <4>6, FS_CardinalityType
      <4>8. f = fixture => lost[f] + 1 <= lost'[f]
        BY <1>5, <1>7 DEF Unfiled
      <4>. QED
        BY <1>5, <3>1, <4>6, <4>7, <4>8
    <3>3. CASE ~ \E c \in calls : c.by = starts
      <4>1. now \subseteq then
        BY <1>1, <3>3 DEF CutOff
      <4>2. IsFiniteSet(now) /\ Cardinality(now) <= Cardinality(then)
        BY <3>1, <4>1, FS_Subset
      <4>3. Cardinality(now) \in Nat
        BY <4>2, FS_CardinalityType
      <4>. QED
        BY <1>5, <3>1, <4>2, <4>3
    <3>. QED
      BY <3>2, <3>3
  <2>. QED
    BY <1>1, <1>3, <1>5, <2>1, GoneLoads
<1>. QED
  BY <1>6, <1>7

LEMMA StartLoads == \A forced \in BOOLEAN : IInv /\ IInv' /\ LoadInv /\ Start(forced) => LoadInv'
<1>. SUFFICES ASSUME NEW forced \in BOOLEAN, IInv, IInv', LoadInv, Start(forced) PROVE LoadInv'
  OBVIOUS
<1>1. /\ UNCHANGED tables /\ UNCHANGED <<calls, lost, file>> /\ pc = "off"
      /\ lost \in [FixtureIds -> Nat] /\ IsFiniteSet(calls)
      /\ pc' \in {"resume", "discover", "create"} /\ (pc' = "resume" => state' = file /\ file # Nothing)
  BY DEF Start, LoadInv, Counted
<1>2. ASSUME NEW f \in FixtureIds PROVE lost[f] <= lost'[f]
  BY <1>1
<1>3. /\ Counted' /\ MadeInv' /\ NoneTwice' /\ CutsInv'
      /\ \A study : Made(study) <=> Made(study)'
  BY <1>1, <1>2, LoadsStay
<1>4. FileInv'
  BY <1>1, <1>3 DEF LoadInv, FileInv, Nothing, NewState
<1>5. FileLoads' /\ SavingLoads' /\ CreatedLoads'
  BY <1>1 DEF LoadInv, FileLoads, SavingLoads, CreatedLoads, Unfiled, Nothing, NewState, FixtureIds, tables
<1>. QED
  BY <1>3, <1>4, <1>5 DEF LoadInv

LEMMA ResumeLoads == IInv /\ IInv' /\ LoadInv /\ Resume => LoadInv'
<1>. SUFFICES ASSUME IInv, IInv', LoadInv, Resume PROVE LoadInv'
  OBVIOUS
<1>1. /\ UNCHANGED tables /\ UNCHANGED <<calls, lost, file>> /\ pc = "resume"
      /\ lost \in [FixtureIds -> Nat] /\ IsFiniteSet(calls)
      /\ pc' \in {"fixtures", "discover"} /\ (pc' = "fixtures" => state' = state)
  BY DEF Resume, Unserved, LoadInv, Counted
<1>2. ASSUME NEW f \in FixtureIds PROVE lost[f] <= lost'[f]
  BY <1>1
<1>3. /\ Counted' /\ MadeInv' /\ NoneTwice' /\ CutsInv'
      /\ \A study : Made(study) <=> Made(study)'
  BY <1>1, <1>2, LoadsStay
<1>4. FileInv'
  BY <1>1, <1>3 DEF LoadInv, FileInv, Nothing, NewState
<1>5. FileLoads' /\ SavingLoads' /\ CreatedLoads'
  BY <1>1 DEF LoadInv, FileLoads, SavingLoads, CreatedLoads, Unfiled, Nothing, NewState, FixtureIds, tables
<1>. QED
  BY <1>3, <1>4, <1>5 DEF LoadInv

LEMMA SkipFixtureLoads == IInv /\ IInv' /\ LoadInv /\ SkipFixture => LoadInv'
<1>. SUFFICES ASSUME IInv, IInv', LoadInv, SkipFixture PROVE LoadInv'
  OBVIOUS
<1>1. /\ UNCHANGED tables /\ UNCHANGED <<calls, lost, file, state, pc, after>> /\ pc = "fixtures"
      /\ lost \in [FixtureIds -> Nat] /\ IsFiniteSet(calls)
  BY DEF SkipFixture, Unserved, LoadInv, Counted
<1>2. ASSUME NEW f \in FixtureIds PROVE lost[f] <= lost'[f]
  BY <1>1
<1>3. /\ Counted' /\ MadeInv' /\ NoneTwice' /\ CutsInv'
      /\ \A study : Made(study) <=> Made(study)'
  BY <1>1, <1>2, LoadsStay
<1>4. FileInv'
  BY <1>1, <1>3 DEF LoadInv, FileInv
<1>5. FileLoads' /\ SavingLoads' /\ CreatedLoads'
  BY <1>1 DEF LoadInv, FileLoads, SavingLoads, CreatedLoads, Unfiled, tables
<1>. QED
  BY <1>3, <1>4, <1>5 DEF LoadInv

\* A study that has no sources yet is not the study of a source, and what is still
\* being uploaded to it has been cut off.
LEMMA DiscoverLoads == IInv /\ IInv' /\ LoadInv /\ Discover => LoadInv'
<1>. SUFFICES ASSUME IInv, IInv', LoadInv, Discover PROVE LoadInv'
  OBVIOUS
<1>1. /\ UNCHANGED tables /\ UNCHANGED <<calls, lost, file>> /\ pc = "discover"
      /\ lost \in [FixtureIds -> Nat] /\ IsFiniteSet(calls)
  BY DEF Discover, Unserved, LoadInv, Counted
<1>2. ASSUME NEW f \in FixtureIds PROVE lost[f] <= lost'[f] /\ lost[f] \in Nat
  BY <1>1
<1>3. /\ Counted' /\ MadeInv' /\ NoneTwice' /\ CutsInv'
      /\ \A study : Made(study) <=> Made(study)'
  BY <1>1, <1>2, LoadsStay
<1>4. CASE CreateNext
  <2>1. FileInv'
    BY <1>1, <1>3, <1>4 DEF LoadInv, FileInv, CreateNext
  <2>2. FileLoads' /\ SavingLoads' /\ CreatedLoads'
    BY <1>1, <1>4 DEF LoadInv, FileLoads, SavingLoads, CreatedLoads, Unfiled, tables, CreateNext
  <2>. QED
    BY <1>3, <2>1, <2>2 DEF LoadInv
<1>5. CASE Gone
  <2>1. ASSUME NEW f \in FixtureIds PROVE ~Unfiled(f)
    BY <1>1 DEF Unfiled
  <2>. QED
    BY <1>1, <1>2, <1>3, <1>5, <2>1, GoneLoads
<1>6. ASSUME NEW study \in Found, SourcesOf(study) = {}, Adopt(study) PROVE LoadInv'
  <2>1. PICK i \in DOMAIN studies : study = studies[i].id
    BY DEF Found
  <2>2. Made(study)
    BY <2>1 DEF Made, IInv, TablesInv, TableOK, ToSet
  <2>3. ASSUME NEW f \in FixtureIds PROVE Load(sources, calls, study, f) <= lost[f]
    <3>1. Owned(sources, study, f) = {}
      BY <1>6 DEF Owned, SourcesOf
    <3>2. Sent(calls, study, f) \subseteq CutOff(calls, starts, pc, f)
      BY <1>1 DEF Sent, CutOff
    <3>3. /\ IsFiniteSet(CutOff(calls, starts, pc, f)) /\ Cardinality(CutOff(calls, starts, pc, f)) \in Nat
          /\ Cardinality(CutOff(calls, starts, pc, f)) <= lost[f]
      BY <1>1, CutType DEF LoadInv, CutsInv
    <3>4. /\ IsFiniteSet(Sent(calls, study, f))
          /\ Cardinality(Sent(calls, study, f)) <= Cardinality(CutOff(calls, starts, pc, f))
      BY <3>2, <3>3, FS_Subset
    <3>5. Cardinality(Sent(calls, study, f)) \in Nat /\ Cardinality(Owned(sources, study, f)) = 0
      BY <3>1, <3>4, FS_CardinalityType, FS_EmptySet
    <3>. QED
      BY <1>2, <3>3, <3>4, <3>5 DEF Load
  <2>4. state' = NewState(study) /\ pc' = "saving" /\ after' = "fixtures" /\ state'.study = study
    BY <1>6 DEF Adopt, NewState
  <2>5. FileInv'
    BY <1>1, <1>3, <2>2, <2>4 DEF LoadInv, FileInv
  <2>6. FileLoads' /\ CreatedLoads'
    BY <1>1, <2>4 DEF LoadInv, FileLoads, CreatedLoads, Unfiled, tables
  <2>7. SavingLoads'
    BY <1>1, <2>3, <2>4 DEF SavingLoads, tables
  <2>. QED
    BY <1>3, <2>5, <2>6, <2>7 DEF LoadInv
<1>. QED
  BY <1>4, <1>5, <1>6 DEF Discover

LEMMA CallLoads == IInv /\ IInv' /\ LoadInv /\ (CreateStudy \/ Process) => LoadInv'
<1>. SUFFICES ASSUME IInv, IInv', LoadInv, CreateStudy \/ Process PROVE LoadInv'
  OBVIOUS
<1>1. PICK call :
        /\ call.phase = "sent" /\ call.op # "upload" /\ calls' = calls \cup {call}
        /\ pc' = "creating" \/ (pc' = "processing" /\ pc \in {"fixtures", "process"})
  BY DEF CreateStudy, Process, Send
<1>2. /\ UNCHANGED tables /\ UNCHANGED <<lost, file, state, after, fixture>>
      /\ pc \in {"create", "fixtures", "process"}
      /\ lost \in [FixtureIds -> Nat] /\ IsFiniteSet(calls)
  BY DEF CreateStudy, Process, Send, LoadInv, Counted
<1>3. IsFiniteSet(calls')
  BY <1>1, <1>2, OneMore
<1>4. ASSUME NEW f \in FixtureIds PROVE lost[f] <= lost'[f] /\ lost[f] \in Nat
  BY <1>2
<1>5. /\ Counted' /\ MadeInv' /\ NoneTwice' /\ CutsInv'
      /\ \A study, f : /\ Load(sources', calls', study, f) <= Load(sources, calls, study, f)
                       /\ Load(sources', calls', study, f) \in Nat
                       /\ Load(sources, calls, study, f) \in Nat
      /\ \A study : Made(study) <=> Made(study)'
  BY <1>1, <1>2, <1>3, <1>4, LoadsStay
<1>6. FileInv'
  BY <1>1, <1>2, <1>5 DEF LoadInv, FileInv
<1>7. FileLoads'
  <2>. SUFFICES ASSUME file # Nothing, NEW f \in FixtureIds, file.source[f] = 0
                PROVE  Load(sources', calls', file.study, f) <= lost[f]
    BY <1>1, <1>2 DEF FileLoads, Unfiled
  <2>1. Load(sources, calls, file.study, f) <= lost[f]
    BY <1>2, <1>4 DEF LoadInv, FileLoads, Unfiled
  <2>. QED
    BY <1>4, <1>5, <2>1
<1>8. SavingLoads' /\ CreatedLoads'
  <2>1. pc' = "creating" => \A c \in calls' : c.by = starts' => c = call
    BY <1>1, <1>2 DEF CreateStudy, Process, Send, IInv, WaitingInv, Waiting
  <2>. QED
    BY <1>1, <2>1 DEF SavingLoads, CreatedLoads
<1>. QED
  BY <1>5, <1>6, <1>7, <1>8 DEF LoadInv

\* A fixture is uploaded only if the file knows no source of it.
LEMMA UploadLoads == IInv /\ IInv' /\ LoadInv /\ Upload => LoadInv'
<1>. SUFFICES ASSUME IInv, IInv', LoadInv, Upload PROVE LoadInv'
  OBVIOUS
<1>1. PICK call :
        /\ call.phase = "sent" /\ call.op = "upload" /\ call.by = starts
        /\ call.study = state.study /\ call.fixture = fixture
        /\ calls' = calls \cup {call} /\ pc' = "uploading"
  BY DEF Upload, Send
<1>2. /\ UNCHANGED tables /\ UNCHANGED <<lost, file, state, after, fixture, starts>>
      /\ pc = "fixtures" /\ state.source[fixture] = 0
      /\ lost \in [FixtureIds -> Nat] /\ IsFiniteSet(calls)
      /\ sources' = sources /\ studies' = studies
  BY DEF Upload, Send, LoadInv, Counted, tables
<1>3. Made(state.study) /\ file = state /\ file # Nothing /\ file.study \in Nat
  BY <1>2 DEF LoadInv, FileInv, Made, Nothing, NewState
<1>4. Counted'
  BY <1>1, <1>2, OneMore DEF Counted
<1>5. MadeInv' /\ FileInv'
  BY <1>1, <1>2, <1>3 DEF LoadInv, MadeInv, FileInv, Made
<1>6. TableOK(sources, SourceRow)
  BY DEF IInv, TablesInv
<1>7. ASSUME NEW study, NEW f
      PROVE  /\ Load(sources', calls', study, f)
                    <= Load(sources, calls, study, f) + (IF study = state.study /\ f = fixture THEN 1 ELSE 0)
             /\ Load(sources', calls', study, f) \in Nat
             /\ Load(sources, calls, study, f) \in Nat
  <2>1. PICK now : now = Sent(calls', study, f)
    OBVIOUS
  <2>2. PICK then : then = Sent(calls, study, f)
    OBVIOUS
  <2>3. now = IF study = state.study /\ f = fixture THEN then \cup {call} ELSE then
    BY <1>1, <2>1, <2>2 DEF Sent
  <2>4. /\ IsFiniteSet(then) /\ Cardinality(then) \in Nat
        /\ Cardinality(Owned(sources, study, f)) \in Nat
    BY <1>2, <1>6, <2>2, LoadType
  <2>5. /\ Cardinality(now) \in Nat
        /\ Cardinality(now) <= Cardinality(then) + (IF study = state.study /\ f = fixture THEN 1 ELSE 0)
    <3>1. CASE study = state.study /\ f = fixture
      BY <2>3, <2>4, <3>1, OneMore
    <3>2. CASE ~(study = state.study /\ f = fixture)
      BY <2>3, <2>4, <3>2
    <3>. QED
      BY <3>1, <3>2
  <2>. QED
    BY <1>2, <2>1, <2>2, <2>4, <2>5 DEF Load
<1>8. ASSUME NEW f \in FixtureIds, file.source[f] = 0
      PROVE  Load(sources, calls, file.study, f) <= lost[f] /\ lost[f] \in Nat
  BY <1>2, <1>3, <1>8 DEF LoadInv, FileLoads, Unfiled
<1>9. NoneTwice'
  <2>. SUFFICES ASSUME NEW study \in Nat, NEW f \in FixtureIds
                PROVE  Load(sources', calls', study, f) <= 1 + lost[f]
    BY <1>2 DEF NoneTwice
  <2>1. CASE study = state.study /\ f = fixture
    BY <1>2, <1>3, <1>7, <1>8, <2>1
  <2>2. CASE ~(study = state.study /\ f = fixture)
    <3>1. Load(sources, calls, study, f) <= 1 + lost[f] /\ lost[f] \in Nat
      BY <1>2 DEF LoadInv, NoneTwice
    <3>. QED
      BY <1>7, <2>2, <3>1
  <2>. QED
    BY <2>1, <2>2
<1>10. CutsInv'
  <2>. SUFFICES ASSUME NEW f \in FixtureIds
                PROVE  Cardinality(CutOff(calls', starts', pc', f)) <= lost[f]
    BY <1>2 DEF CutsInv
  <2>1. CutOff(calls', starts', pc', f) \subseteq CutOff(calls, starts, pc, f)
    BY <1>1, <1>2 DEF CutOff
  <2>2. Cardinality(CutOff(calls, starts, pc, f)) <= lost[f] /\ lost[f] \in Nat
    BY <1>2 DEF LoadInv, CutsInv
  <2>. QED
    BY <1>2, <2>1, <2>2, FewerCuts
<1>11. FileLoads'
  <2>. SUFFICES ASSUME NEW f \in FixtureIds, file.source[f] = 0
                PROVE  Load(sources', calls', file.study, f) <= lost[f] + (IF f = fixture THEN 1 ELSE 0)
    BY <1>1, <1>2 DEF FileLoads, Unfiled
  <2>. QED
    BY <1>3, <1>7, <1>8
<1>12. SavingLoads' /\ CreatedLoads'
  BY <1>1 DEF SavingLoads, CreatedLoads
<1>. QED
  BY <1>4, <1>5, <1>9, <1>10, <1>11, <1>12 DEF LoadInv

LEMMA AnswerLoads ==
    ASSUME IInv, IInv', LoadInv, NEW call \in calls, StudyCreated(call) \/ Uploaded(call) \/ Processed(call)
    PROVE  LoadInv'
<1>1. /\ UNCHANGED tables /\ UNCHANGED <<lost, file, fixture, starts>>
      /\ calls' \subseteq calls /\ call \notin calls' /\ pc' = "saving"
      /\ lost \in [FixtureIds -> Nat] /\ IsFiniteSet(calls)
      /\ sources' = sources /\ studies' = studies
      /\ call.by = starts /\ call.phase = "done" /\ Awaited(call) /\ pc \in {"creating", "uploading", "processing"}
      /\ \A c \in calls' : c.by # starts
  BY DEF StudyCreated, Uploaded, Processed, Answered, LoadInv, Counted, IInv, WaitingInv, Waiting, tables
<1>2. IsFiniteSet(calls')
  BY <1>1, FS_Subset
<1>3. ASSUME NEW f \in FixtureIds PROVE lost[f] <= lost'[f] /\ lost[f] \in Nat
  BY <1>1
<1>4. /\ Counted' /\ MadeInv' /\ NoneTwice' /\ CutsInv'
      /\ \A study, f : /\ Load(sources', calls', study, f) <= Load(sources, calls, study, f)
                       /\ Load(sources', calls', study, f) \in Nat
                       /\ Load(sources, calls, study, f) \in Nat
      /\ \A study : Made(study) <=> Made(study)'
  BY <1>1, <1>2, <1>3, LoadsStay
<1>5. CreatedLoads'
  BY <1>1 DEF CreatedLoads
<1>6. CASE StudyCreated(call)
  <2>1. state' = NewState(call.answer) /\ after' = "fixtures" /\ pc = "creating" /\ call.op = "create"
    BY <1>1, <1>6 DEF StudyCreated, Answered, Awaited
  <2>2. FileInv'
    BY <1>1, <1>4, <2>1 DEF LoadInv, FileInv, MadeInv, NewState
  <2>3. FileLoads'
    <3>. SUFFICES ASSUME file # Nothing, NEW f \in FixtureIds, file.source[f] = 0
                  PROVE  Load(sources', calls', file.study, f) <= lost[f]
      BY <1>1, <2>1 DEF FileLoads, Unfiled
    <3>1. Load(sources, calls, file.study, f) <= lost[f]
      BY <1>3, <2>1 DEF LoadInv, FileLoads, Unfiled
    <3>. QED
      BY <1>3, <1>4, <3>1
  <2>4. SavingLoads'
    <3>. SUFFICES ASSUME NEW f \in FixtureIds
                  PROVE  Load(sources', calls', call.answer, f) <= lost[f]
      BY <1>1, <2>1 DEF SavingLoads, NewState
    <3>1. Load(sources, calls, call.answer, f) <= lost[f]
      BY <1>1, <2>1 DEF LoadInv, CreatedLoads
    <3>. QED
      BY <1>3, <1>4, <3>1
  <2>. QED
    BY <1>4, <1>5, <2>2, <2>3, <2>4 DEF LoadInv
<1>7. CASE Uploaded(call)
  <2>1. /\ pc = "uploading" /\ after' = "process" /\ fixture \in FixtureIds
        /\ state' = [state EXCEPT !.source[fixture] = call.answer]
        /\ state.source[fixture] = 0 /\ state \in StateType
    BY <1>7 DEF IInv, ScriptTypes, ScriptInv, Uploaded, Answered
  <2>2. /\ state'.study = state.study
        /\ \A f \in FixtureIds : f # fixture => state'.source[f] = state.source[f]
    BY <2>1 DEF StateType
  <2>3. FileInv'
    BY <1>1, <1>4, <2>1, <2>2 DEF LoadInv, FileInv
  <2>4. FileLoads'
    <3>. SUFFICES ASSUME file # Nothing, NEW f \in FixtureIds, file.source[f] = 0
                  PROVE  Load(sources', calls', file.study, f) <= lost[f] + (IF fixture = f THEN 1 ELSE 0)
      BY <1>1, <2>1 DEF FileLoads, Unfiled
    <3>1. Load(sources, calls, file.study, f) <= lost[f] + (IF fixture = f THEN 1 ELSE 0)
      BY <1>3, <2>1 DEF LoadInv, FileLoads, Unfiled
    <3>. QED
      BY <1>3, <1>4, <3>1
  <2>5. SavingLoads'
    BY <2>1 DEF SavingLoads
  <2>. QED
    BY <1>4, <1>5, <2>3, <2>4, <2>5 DEF LoadInv
<1>8. CASE Processed(call)
  <2>1. /\ pc = "processing" /\ after' = "fixtures"
        /\ state' = [state EXCEPT !.processed = @ \cup {fixture}] /\ state \in StateType
    BY <1>8 DEF IInv, ScriptTypes, Processed, Answered
  <2>2. state'.study = state.study /\ state'.source = state.source
    BY <2>1 DEF StateType
  <2>3. file = state /\ Made(state.study) /\ file # Nothing
    BY <2>1 DEF LoadInv, FileInv, Made, Nothing, NewState
  <2>4. FileInv'
    BY <1>1, <1>4, <2>1, <2>2 DEF LoadInv, FileInv
  <2>5. ASSUME NEW f \in FixtureIds, file.source[f] = 0
        PROVE  Load(sources', calls', file.study, f) <= lost[f]
    <3>1. Load(sources, calls, file.study, f) <= lost[f]
      BY <1>3, <2>1, <2>3, <2>5 DEF LoadInv, FileLoads, Unfiled
    <3>. QED
      BY <1>3, <1>4, <3>1
  <2>6. FileLoads'
    BY <1>1, <2>1, <2>5 DEF FileLoads, Unfiled
  <2>7. SavingLoads'
    BY <1>1, <2>2, <2>3, <2>5 DEF SavingLoads
  <2>. QED
    BY <1>4, <1>5, <2>4, <2>6, <2>7 DEF LoadInv
<1>. QED
  BY <1>6, <1>7, <1>8

LEMMA SaveLoads == IInv /\ IInv' /\ LoadInv /\ Save => LoadInv'
<1>. SUFFICES ASSUME IInv, IInv', LoadInv, Save PROVE LoadInv'
  OBVIOUS
<1>1. /\ UNCHANGED tables /\ UNCHANGED <<calls, lost, state, after, fixture, starts>>
      /\ lost \in [FixtureIds -> Nat] /\ IsFiniteSet(calls) /\ sources' = sources
      /\ pc = "saving" /\ pc' = after /\ file' = state /\ after \in {"fixtures", "process"}
  BY DEF Save, Unserved, LoadInv, Counted, IInv, ScriptInv, tables
<1>2. ASSUME NEW f \in FixtureIds PROVE lost[f] <= lost'[f] /\ lost[f] \in Nat
  BY <1>1
<1>3. /\ Counted' /\ MadeInv' /\ NoneTwice' /\ CutsInv'
      /\ \A study : Made(study) <=> Made(study)'
  BY <1>1, <1>2, LoadsStay
<1>4. FileInv'
  BY <1>1, <1>3 DEF LoadInv, FileInv
<1>5. FileLoads'
  <2>. SUFFICES ASSUME NEW f \in FixtureIds, state.source[f] = 0
                PROVE  Load(sources, calls, state.study, f) <= lost[f]
    BY <1>1 DEF FileLoads, Unfiled
  <2>1. CASE after = "fixtures"
    BY <1>1, <2>1 DEF LoadInv, SavingLoads
  <2>2. CASE after = "process"
    <3>1. state.source[fixture] # 0 /\ f # fixture
      BY <1>1, <2>2 DEF IInv, ScriptInv
    <3>2. file.study = state.study /\ file.source[f] = 0 /\ Made(state.study)
      BY <1>1, <2>2, <3>1 DEF LoadInv, FileInv
    <3>3. file # Nothing
      BY <3>2 DEF Made, Nothing, NewState
    <3>. QED
      BY <1>2, <3>1, <3>2, <3>3 DEF LoadInv, FileLoads, Unfiled
  <2>. QED
    BY <1>1, <2>1, <2>2
<1>6. SavingLoads' /\ CreatedLoads'
  BY <1>1 DEF SavingLoads, CreatedLoads
<1>. QED
  BY <1>3, <1>4, <1>5, <1>6 DEF LoadInv

LEMMA SummarizeLoads == IInv /\ IInv' /\ LoadInv /\ Summarize => LoadInv'
<1>. SUFFICES ASSUME IInv, IInv', LoadInv, Summarize PROVE LoadInv'
  OBVIOUS
<1>1. /\ UNCHANGED tables /\ UNCHANGED <<calls, lost, file>> /\ pc = "fixtures" /\ Gone
      /\ lost \in [FixtureIds -> Nat] /\ IsFiniteSet(calls)
  BY DEF Summarize, Unserved, LoadInv, Counted
<1>2. ASSUME NEW f \in FixtureIds PROVE lost[f] <= lost'[f] /\ ~Unfiled(f)
  BY <1>1 DEF Unfiled
<1>3. CutsInv'
  BY <1>1, <1>2, LoadsStay
<1>. QED
  BY <1>1, <1>2, <1>3, GoneLoads

\* A step that adds nothing to what any study has of any fixture.
Lightens ==
    \A study \in Nat, f \in FixtureIds :
        /\ Load(sources', calls', study, f) <= Load(sources, calls, study, f)
        /\ Load(sources', calls', study, f) \in Nat
        /\ Load(sources, calls, study, f) \in Nat

StudiesGrow == Len(studies) \in Nat /\ Len(studies') \in Nat /\ Len(studies) <= Len(studies')

\* Steps of the API: the script and its file stay as they are.
LEMMA ApiLoads ==
    ASSUME IInv, IInv', LoadInv, UNCHANGED <<file, state, pc, after, fixture, starts, lost>>,
           StudiesGrow, IsFiniteSet(calls'),
           \A row \in ToSet(sources') : Made(row.study),
           \A c \in calls' : c.op = "upload" => Made(c.study),
           \A c \in calls' : c.op = "upload" /\ c.phase = "sent" => c \in calls,
           \A c \in calls' : c.op = "create" /\ c.phase = "done" => c.answer \in 1 .. Len(studies'),
           Lightens, CreatedLoads'
    PROVE  LoadInv'
<1>1. /\ lost \in [FixtureIds -> Nat] /\ IsFiniteSet(calls) /\ lost' = lost
      /\ file \in StateType /\ state \in StateType
  BY DEF LoadInv, Counted, IInv, ScriptTypes
<1>2. \A study : Made(study) => Made(study)'
  BY DEF Made, StudiesGrow
<1>3. Counted' /\ MadeInv' /\ FileInv'
  <2>1. Counted' /\ FileInv'
    BY <1>1, <1>2 DEF LoadInv, Counted, FileInv
  <2>2. \A study : study \in 1 .. Len(studies') => Made(study)'
    BY DEF Made
  <2>3. MadeInv'
    BY <1>2, <2>2 DEF LoadInv, MadeInv
  <2>. QED
    BY <2>1, <2>3
<1>4. \A f \in FixtureIds : lost[f] \in Nat
  BY <1>1
<1>5. file.study \in Nat /\ state.study \in Nat
  BY <1>1 DEF StateType
<1>6. NoneTwice'
  <2>. SUFFICES ASSUME NEW study \in Nat, NEW f \in FixtureIds
                PROVE  Load(sources', calls', study, f) <= 1 + lost[f]
    BY <1>1 DEF NoneTwice
  <2>1. Load(sources, calls, study, f) <= 1 + lost[f] /\ lost[f] \in Nat
    BY <1>4 DEF LoadInv, NoneTwice
  <2>2. /\ Load(sources', calls', study, f) <= Load(sources, calls, study, f)
        /\ Load(sources', calls', study, f) \in Nat /\ Load(sources, calls, study, f) \in Nat
    BY DEF Lightens
  <2>. QED
    BY <2>1, <2>2
<1>7. CutsInv'
  <2>. SUFFICES ASSUME NEW f \in FixtureIds
                PROVE  Cardinality(CutOff(calls', starts', pc', f)) <= lost[f]
    BY <1>1 DEF CutsInv
  <2>1. CutOff(calls', starts', pc', f) \subseteq CutOff(calls, starts, pc, f)
    BY DEF CutOff
  <2>2. Cardinality(CutOff(calls, starts, pc, f)) <= lost[f] /\ lost[f] \in Nat
    BY <1>4 DEF LoadInv, CutsInv
  <2>3. /\ Cardinality(CutOff(calls', starts', pc', f)) <= Cardinality(CutOff(calls, starts, pc, f))
        /\ Cardinality(CutOff(calls', starts', pc', f)) \in Nat
        /\ Cardinality(CutOff(calls, starts, pc, f)) \in Nat
    BY <1>1, <2>1, FewerCuts
  <2>. QED
    BY <2>2, <2>3
<1>8. FileLoads'
  <2>. SUFFICES ASSUME file # Nothing, NEW f \in FixtureIds, file.source[f] = 0
                PROVE  Load(sources', calls', file.study, f) <= lost[f] + (IF Unfiled(f) THEN 1 ELSE 0)
    BY <1>1 DEF FileLoads, Unfiled, Nothing, NewState
  <2>1. Load(sources, calls, file.study, f) <= lost[f] + (IF Unfiled(f) THEN 1 ELSE 0) /\ lost[f] \in Nat
    BY <1>4 DEF LoadInv, FileLoads
  <2>2. /\ Load(sources', calls', file.study, f) <= Load(sources, calls, file.study, f)
        /\ Load(sources', calls', file.study, f) \in Nat /\ Load(sources, calls, file.study, f) \in Nat
    BY <1>5 DEF Lightens
  <2>. QED
    BY <2>1, <2>2
<1>9. SavingLoads'
  <2>. SUFFICES ASSUME pc = "saving", after = "fixtures", NEW f \in FixtureIds, state.source[f] = 0
                PROVE  Load(sources', calls', state.study, f) <= lost[f]
    BY <1>1 DEF SavingLoads
  <2>1. Load(sources, calls, state.study, f) <= lost[f] /\ lost[f] \in Nat
    BY <1>4 DEF LoadInv, SavingLoads
  <2>2. /\ Load(sources', calls', state.study, f) <= Load(sources, calls, state.study, f)
        /\ Load(sources', calls', state.study, f) \in Nat /\ Load(sources, calls, state.study, f) \in Nat
    BY <1>5 DEF Lightens
  <2>. QED
    BY <2>1, <2>2
<1>. QED
  BY <1>3, <1>6, <1>7, <1>8, <1>9 DEF LoadInv

\* No source comes, and no study is answered.
LEMMA ServedLoads ==
    ASSUME IInv, IInv', LoadInv, UNCHANGED <<file, state, pc, after, fixture, starts, lost>>,
           StudiesGrow, IsFiniteSet(calls'),
           \A study, f : Owned(sources', study, f) = Owned(sources, study, f),
           \A row \in ToSet(sources') : Made(row.study),
           \A c \in calls' : \/ c \in calls
                             \/ /\ c.phase # "sent" /\ ~(c.op = "create" /\ c.phase = "done")
                                /\ \E old \in calls : c.op = old.op /\ c.study = old.study
    PROVE  LoadInv'
<1>1. /\ lost \in [FixtureIds -> Nat] /\ IsFiniteSet(calls) /\ lost' = lost
      /\ TableOK(sources, SourceRow) /\ TableOK(sources', SourceRow)
  BY DEF LoadInv, Counted, IInv, TablesInv, TableOK
<1>2. \A c \in calls' : c.op = "upload" => Made(c.study)
  BY DEF LoadInv, MadeInv
<1>3. \A c \in calls' : c.op = "upload" /\ c.phase = "sent" => c \in calls
  OBVIOUS
<1>4. \A study : Made(study) => study \in 1 .. Len(studies')
  BY DEF Made, StudiesGrow
<1>5. \A c \in calls' : c.op = "create" /\ c.phase = "done" => c.answer \in 1 .. Len(studies')
  BY <1>4 DEF LoadInv, MadeInv
<1>6. ASSUME NEW study, NEW f
      PROVE  /\ Load(sources', calls', study, f) <= Load(sources, calls, study, f)
             /\ Load(sources', calls', study, f) \in Nat
             /\ Load(sources, calls, study, f) \in Nat
  BY <1>1, <1>3, Lighter
<1>7. CreatedLoads'
  <2>. SUFFICES ASSUME pc = "creating", NEW c \in calls', c.by = starts, c.phase = "done", NEW f \in FixtureIds
                PROVE  Load(sources', calls', c.answer, f) <= lost[f]
    BY <1>1 DEF CreatedLoads
  <2>1. c.op = "create" /\ c \in calls
    BY DEF IInv, WaitingInv, Waiting, Awaited
  <2>2. Load(sources, calls, c.answer, f) <= lost[f] /\ lost[f] \in Nat
    BY <1>1, <2>1 DEF LoadInv, CreatedLoads
  <2>. QED
    BY <1>6, <2>2
<1>8. Lightens
  BY <1>6 DEF Lightens
<1>. QED
  BY <1>2, <1>3, <1>5, <1>7, <1>8, ApiLoads

\* A reply ends the call, or hands it to the script that waits.
LEMMA Replied ==
    ASSUME IInv, LoadInv, NEW call \in calls, NEW phase \in {"done", "conflict", "error"}, NEW answer \in Nat,
           Reply(call, phase, answer)
    PROVE  /\ IsFiniteSet(calls')
           /\ \A c \in calls' : \/ c \in calls \ {call}
                                \/ /\ c.phase = phase /\ c.answer = answer /\ c.op = call.op
                                   /\ c.study = call.study /\ c.by = call.by
<1>1. call \in Call /\ IsFiniteSet(calls)
  BY DEF IInv, CallsInv, LoadInv, Counted
<1>2. PICK new : new = [call EXCEPT !.phase = phase, !.answer = answer]
  OBVIOUS
<1>3. PICK mid : mid = [call EXCEPT !.phase = phase]
  OBVIOUS
<1>4. new = [mid EXCEPT !.answer = answer]
  BY <1>1, <1>2, <1>3 DEF Call
<1>5. mid \in Call /\ mid.phase = phase /\ mid.by = call.by /\ mid.op = call.op /\ mid.study = call.study
  BY <1>1, <1>3 DEF Call
<1>6. /\ new.phase = phase /\ new.by = call.by /\ new.op = call.op /\ new.study = call.study
      /\ new.answer = answer
  BY <1>4, <1>5 DEF Call
<1>7. calls' = (calls \ {call}) \cup {new} \/ calls' = calls \ {call}
  BY <1>2 DEF Reply
<1>8. IsFiniteSet(calls \ {call})
  BY <1>1, FS_Subset
<1>9. IsFiniteSet(calls')
  BY <1>7, <1>8, OneMore
<1>. QED
  BY <1>6, <1>7, <1>9

\* The status of a source is nobody's study and no fixture.
LEMMA StatusChanged ==
    ASSUME IInv, LoadInv, NEW source \in ToSet(sources), NEW status \in Statuses,
           sources' = Updated(sources, source.id, [source EXCEPT !.status = status])
    PROVE  /\ \A study, f : Owned(sources', study, f) = Owned(sources, study, f)
           /\ \A row \in ToSet(sources') : Made(row.study)
<1>1. TableOK(sources, SourceRow)
  BY DEF IInv, TablesInv
<1>2. source \in SourceRow
  BY <1>1, RowsAreTyped DEF TableOK
<1>3. PICK row : row = [source EXCEPT !.status = status]
  OBVIOUS
<1>4. row \in SourceRow /\ row.id = source.id /\ row.study = source.study /\ row.fixture = source.fixture
  BY <1>2, <1>3 DEF SourceRow
<1>5. sources' = Updated(sources, source.id, row)
  BY <1>3
<1>6. ToSet(sources') = (ToSet(sources) \ {source}) \cup {row}
  BY <1>1, <1>4, <1>5, UpdatedRow
<1>7. \A study, f : Owned(sources', study, f) = Owned(sources, study, f)
  BY <1>4, <1>6 DEF Owned
<1>8. \A r \in ToSet(sources') : Made(r.study)
  BY <1>4, <1>6 DEF LoadInv, MadeInv
<1>. QED
  BY <1>7, <1>8

LEMMA ServeProcessLoads == \A call \in calls : IInv /\ IInv' /\ LoadInv /\ ServeProcess(call) => LoadInv'
<1>. SUFFICES ASSUME NEW call \in calls, IInv, IInv', LoadInv, ServeProcess(call) PROVE LoadInv'
  OBVIOUS
<1>1. /\ UNCHANGED <<file, state, pc, after, fixture, starts, lost, studies>> /\ StudiesGrow
      /\ call \in Call /\ CallKnown(call) /\ call.op = "process" /\ TableOK(sources, SourceRow)
      /\ IsFiniteSet(calls)
  BY DEF ServeProcess, Elsewhere, script, tables, IInv, CallsInv, TablesInv, TableOK, LoadInv, Counted, StudiesGrow
<1>2. PICK source \in ToSet(sources) : source.id = call.source
  BY <1>1 DEF CallKnown, SourceKnown
<1>3. RowOf(sources, call.source) = source
  BY <1>1, <1>2, FoundRow
<1>4. CASE /\ UNCHANGED tables
           /\ \E phase \in {"done", "conflict"} : Reply(call, phase, 0)
  <2>1. PICK phase \in {"done", "conflict"} : Reply(call, phase, 0)
    BY <1>4
  <2>2. /\ IsFiniteSet(calls')
        /\ \A c \in calls' : \/ c \in calls \ {call}
                             \/ c.phase = phase /\ c.op = call.op /\ c.study = call.study
    BY <2>1, Replied
  <2>3. sources' = sources
    BY <1>4 DEF tables
  <2>4. \A row \in ToSet(sources') : Made(row.study)
    BY <2>3 DEF LoadInv, MadeInv
  <2>5. \A c \in calls' : \/ c \in calls
                          \/ /\ c.phase # "sent" /\ ~(c.op = "create" /\ c.phase = "done")
                             /\ \E old \in calls : c.op = old.op /\ c.study = old.study
    BY <1>1, <2>2
  <2>. QED
    BY <1>1, <2>2, <2>3, <2>4, <2>5, ServedLoads
<1>5. CASE /\ sources' = Updated(sources, source.id, [source EXCEPT !.status = "PROCESSING"])
           /\ calls' = (calls \ {call}) \cup {[call EXCEPT !.phase = "running", !.run = NewId(runs)]}
  <2>1. PICK new : new = [call EXCEPT !.phase = "running", !.run = NewId(runs)]
    OBVIOUS
  <2>2. new.phase = "running" /\ new.op = call.op /\ new.study = call.study
    BY <1>1, <2>1 DEF Call
  <2>3. calls' = (calls \ {call}) \cup {new}
    BY <1>5, <2>1
  <2>4. IsFiniteSet(calls \ {call})
    BY <1>1, FS_Subset
  <2>5. IsFiniteSet(calls')
    BY <2>3, <2>4, OneMore
  <2>6. /\ \A study, f : Owned(sources', study, f) = Owned(sources, study, f)
        /\ \A row \in ToSet(sources') : Made(row.study)
    BY <1>5, StatusChanged DEF Statuses
  <2>7. \A c \in calls' : \/ c \in calls
                          \/ /\ c.phase # "sent" /\ ~(c.op = "create" /\ c.phase = "done")
                             /\ \E old \in calls : c.op = old.op /\ c.study = old.study
    BY <1>1, <2>2, <2>3
  <2>. QED
    BY <1>1, <2>5, <2>6, <2>7, ServedLoads
<1>. QED
  BY <1>2, <1>3, <1>4, <1>5 DEF ServeProcess

\* The end of a run, whichever.
LEMMA RunLoads == \A call \in calls : IInv /\ IInv' /\ LoadInv /\ (Publish(call) \/ FailRun(call)) => LoadInv'
<1>. SUFFICES ASSUME NEW call \in calls, IInv, IInv', LoadInv, Publish(call) \/ FailRun(call) PROVE LoadInv'
  OBVIOUS
<1>0. /\ call.phase = "running" /\ studies' = studies /\ Elsewhere
  BY DEF Publish, FailRun
<1>1. /\ UNCHANGED <<file, state, pc, after, fixture, starts, lost, studies>> /\ StudiesGrow
      /\ call.phase = "running" /\ call.op = "process"
  <2>1. UNCHANGED <<file, state, pc, after, fixture, starts, lost, studies>>
    BY <1>0 DEF Elsewhere, script
  <2>2. StudiesGrow
    BY <1>0 DEF IInv, TablesInv, TableOK, StudiesGrow
  <2>3. call.op = "process"
    BY <1>0 DEF IInv, CallsInv, CallRuns
  <2>. QED
    BY <1>0, <2>1, <2>2, <2>3
<1>2. PICK source \in ToSet(sources) : source.id = call.source /\ RowOf(sources, call.source) = source
  BY <1>1, RunningCall
<1>3. PICK status \in Statuses :
        sources' = Updated(sources, source.id, [source EXCEPT !.status = status])
  BY <1>2 DEF Publish, FailRun, Statuses
<1>4. /\ \A study, f : Owned(sources', study, f) = Owned(sources, study, f)
      /\ \A row \in ToSet(sources') : Made(row.study)
  BY <1>3, StatusChanged
<1>5. PICK phase \in {"done", "error"} : Reply(call, phase, 0)
  BY DEF Publish, FailRun
<1>6. /\ IsFiniteSet(calls')
      /\ \A c \in calls' : \/ c \in calls \ {call}
                           \/ c.phase = phase /\ c.op = call.op /\ c.study = call.study
  BY <1>5, Replied
<1>7. \A c \in calls' : \/ c \in calls
                        \/ /\ c.phase # "sent" /\ ~(c.op = "create" /\ c.phase = "done")
                           /\ \E old \in calls : c.op = old.op /\ c.study = old.study
  BY <1>1, <1>6
<1>. QED
  BY <1>1, <1>4, <1>6, <1>7, ServedLoads

\* A study that is created is new: nothing has been or will be uploaded to it so far.
LEMMA ServeCreateLoads == \A call \in calls : IInv /\ IInv' /\ LoadInv /\ ServeCreate(call) => LoadInv'
<1>. SUFFICES ASSUME NEW call \in calls, IInv, IInv', LoadInv, ServeCreate(call) PROVE LoadInv'
  OBVIOUS
<1>0. PICK row : row = [id |-> NewId(studies), title |-> call.title]
  OBVIOUS
<1>1. /\ UNCHANGED <<file, state, pc, after, fixture, starts, lost, sources>>
      /\ call.op = "create" /\ studies' \in Insertions(studies, row)
      /\ TableOK(studies, StudyRow) /\ TableOK(sources, SourceRow) /\ call \in Call
      /\ IsFiniteSet(calls) /\ lost \in [FixtureIds -> Nat]
  BY <1>0 DEF ServeCreate, Elsewhere, script, IInv, CallsInv, TablesInv, LoadInv, Counted
<1>2. PICK id : id = NewId(studies)
  OBVIOUS
<1>3. id \in Nat /\ id = Len(studies) + 1 /\ Len(studies) \in Nat
  BY <1>1, <1>2 DEF TableOK, NewId
<1>4. row \in StudyRow /\ row.id = NewId(studies)
  BY <1>0, <1>1, <1>2, <1>3 DEF StudyRow, Call
<1>5. ToSet(studies') = ToSet(studies) \cup {row} /\ TableOK(studies', StudyRow) /\ row.id = id
  BY <1>1, <1>2, <1>4, NewRow
<1>6. Len(studies') = id
  <2>1. PICK k \in 0 .. Overtaken : k <= Len(studies) /\ studies' = InsertAt(studies, Len(studies) + 1 - k, row)
    BY <1>1 DEF Insertions
  <2>2. studies \in Seq(StudyRow) /\ Len(studies) + 1 - k \in 1 .. (Len(studies) + 1)
    BY <1>1, <2>1, PageAssumption DEF TableOK
  <2>. QED
    BY <1>3, <1>4, <2>1, <2>2, Inserted
<1>7. StudiesGrow
  BY <1>3, <1>6 DEF StudiesGrow
<1>8. Reply(call, "done", id)
  BY <1>2 DEF ServeCreate
<1>9. /\ IsFiniteSet(calls')
      /\ \A c \in calls' : \/ c \in calls \ {call}
                           \/ /\ c.phase = "done" /\ c.answer = id /\ c.op = "create"
                              /\ c.study = call.study
  BY <1>1, <1>3, <1>8, Replied
<1>10. \A r \in ToSet(sources') : Made(r.study)
  BY <1>1 DEF LoadInv, MadeInv
<1>11. /\ \A c \in calls' : c.op = "upload" => Made(c.study)
       /\ \A c \in calls' : c.op = "upload" /\ c.phase = "sent" => c \in calls
  BY <1>9 DEF LoadInv, MadeInv
<1>12. \A c \in calls' : c.op = "create" /\ c.phase = "done" => c.answer \in 1 .. Len(studies')
  BY <1>3, <1>6, <1>9 DEF LoadInv, MadeInv, Made
<1>13. ASSUME NEW study, NEW f
       PROVE  /\ Load(sources', calls', study, f) <= Load(sources, calls, study, f)
              /\ Load(sources', calls', study, f) \in Nat
              /\ Load(sources, calls, study, f) \in Nat
  BY <1>1, <1>11, Lighter
<1>14. Lightens
  BY <1>13 DEF Lightens
<1>15. ASSUME NEW f PROVE Load(sources', calls', id, f) = 0
  <2>1. ~Made(id)
    BY <1>3 DEF Made
  <2>2. Owned(sources', id, f) = {}
    BY <1>10, <2>1 DEF Owned
  <2>3. Sent(calls', id, f) = {}
    BY <1>11, <2>1 DEF Sent
  <2>. QED
    BY <2>2, <2>3, FS_EmptySet DEF Load
<1>16. CreatedLoads'
  <2>. SUFFICES ASSUME pc = "creating", NEW c \in calls', c.by = starts, c.phase = "done", NEW f \in FixtureIds
                PROVE  Load(sources', calls', c.answer, f) <= lost[f]
    BY <1>1 DEF CreatedLoads
  <2>1. lost[f] \in Nat
    BY <1>1
  <2>2. CASE c \in calls
    <3>1. Load(sources, calls, c.answer, f) <= lost[f]
      BY <2>2 DEF LoadInv, CreatedLoads
    <3>. QED
      BY <1>13, <2>1, <3>1
  <2>3. CASE c.answer = id
    BY <1>15, <2>1, <2>3
  <2>. QED
    BY <1>9, <2>2, <2>3
<1>. QED
  BY <1>1, <1>7, <1>9, <1>10, <1>11, <1>12, <1>14, <1>16, ApiLoads

\* An upload that is served is a source, and no longer an upload to come.
LEMMA ServeUploadLoads == \A call \in calls : IInv /\ IInv' /\ LoadInv /\ ServeUpload(call) => LoadInv'
<1>. SUFFICES ASSUME NEW call \in calls, IInv, IInv', LoadInv, ServeUpload(call) PROVE LoadInv'
  OBVIOUS
<1>0. PICK row : row = [id |-> NewId(sources), study |-> call.study,
                        fixture |-> call.fixture, status |-> "UPLOADED"]
  OBVIOUS
<1>1. /\ UNCHANGED <<file, state, pc, after, fixture, starts, lost, studies>>
      /\ call.op = "upload" /\ call.phase = "sent" /\ sources' \in Insertions(sources, row)
      /\ TableOK(sources, SourceRow) /\ TableOK(sources', SourceRow) /\ call \in Call
      /\ IsFiniteSet(calls) /\ lost \in [FixtureIds -> Nat]
  BY <1>0 DEF ServeUpload, Elsewhere, script, IInv, CallsInv, TablesInv, LoadInv, Counted
<1>2. PICK id : id = NewId(sources)
  OBVIOUS
<1>3. id \in Nat
  BY <1>1, <1>2 DEF TableOK, NewId
<1>4. row \in SourceRow /\ row.id = NewId(sources) /\ row.study = call.study /\ row.fixture = call.fixture
  BY <1>0, <1>1, <1>2, <1>3 DEF SourceRow, Call, Statuses
<1>5. ToSet(sources') = ToSet(sources) \cup {row} /\ row.id = id
  BY <1>1, <1>2, <1>4, NewRow
<1>6. StudiesGrow
  BY <1>1 DEF StudiesGrow, IInv, TablesInv, TableOK
<1>7. Reply(call, "done", id)
  BY <1>2 DEF ServeUpload
<1>8. /\ IsFiniteSet(calls')
      /\ \A c \in calls' : \/ c \in calls \ {call}
                           \/ c.phase = "done" /\ c.op = "upload" /\ c.study = call.study
  BY <1>1, <1>3, <1>7, Replied
<1>9. Made(call.study)
  BY <1>1 DEF LoadInv, MadeInv
<1>10. \A r \in ToSet(sources') : Made(r.study)
  BY <1>4, <1>5, <1>9 DEF LoadInv, MadeInv
<1>11. /\ \A c \in calls' : c.op = "upload" => Made(c.study)
       /\ \A c \in calls' : c.op = "upload" /\ c.phase = "sent" => c \in calls \ {call}
       /\ \A c \in calls' : c.op = "create" /\ c.phase = "done" => c \in calls
  BY <1>8, <1>9 DEF LoadInv, MadeInv
<1>12. \A c \in calls' : c.op = "create" /\ c.phase = "done" => c.answer \in 1 .. Len(studies')
  BY <1>1, <1>11 DEF LoadInv, MadeInv, Made
<1>13. ASSUME NEW study, NEW f
       PROVE  /\ Load(sources', calls', study, f) <= Load(sources, calls, study, f)
              /\ Load(sources', calls', study, f) \in Nat
              /\ Load(sources, calls, study, f) \in Nat
  <2>1. CASE study = call.study /\ f = call.fixture
    <3>. PICK then : then = Sent(calls, study, f)
      OBVIOUS
    <3>. PICK now : now = Sent(calls', study, f)
      OBVIOUS
    <3>. PICK had : had = Owned(sources, study, f)
      OBVIOUS
    <3>. PICK has : has = Owned(sources', study, f)
      OBVIOUS
    <3>1. call \in then /\ now \subseteq then \ {call}
      BY <1>1, <1>11, <2>1 DEF Sent
    <3>2. has = had \cup {id}
      BY <1>3, <1>4, <1>5, <2>1 DEF Owned
    <3>3. /\ IsFiniteSet(then) /\ Cardinality(then) \in Nat
          /\ IsFiniteSet(had) /\ Cardinality(had) \in Nat
      BY <1>1, LoadType
    <3>4. IsFiniteSet(then \ {call}) /\ Cardinality(then \ {call}) = Cardinality(then) - 1
      BY <3>1, <3>3, FS_RemoveElement
    <3>5. IsFiniteSet(now) /\ Cardinality(now) <= Cardinality(then) - 1
      BY <3>1, <3>4, FS_Subset
    <3>6. Cardinality(now) \in Nat
      BY <3>5, FS_CardinalityType
    <3>7. Cardinality(has) \in Nat /\ Cardinality(has) <= Cardinality(had) + 1
      BY <3>2, <3>3, OneMore
    <3>. QED
      BY <3>3, <3>5, <3>6, <3>7 DEF Load
  <2>2. CASE ~(study = call.study /\ f = call.fixture)
    <3>1. Owned(sources', study, f) = Owned(sources, study, f)
      BY <1>4, <1>5, <2>2 DEF Owned
    <3>. QED
      BY <1>1, <1>11, <3>1, Lighter
  <2>. QED
    BY <2>1, <2>2
<1>14. Lightens
  BY <1>13 DEF Lightens
<1>15. CreatedLoads'
  <2>. SUFFICES ASSUME pc = "creating", NEW c \in calls', c.by = starts, c.phase = "done", NEW f \in FixtureIds
                PROVE  Load(sources', calls', c.answer, f) <= lost[f]
    BY <1>1 DEF CreatedLoads
  <2>1. c.op = "create"
    BY <1>1 DEF IInv, WaitingInv, Waiting, Awaited
  <2>2. Load(sources, calls, c.answer, f) <= lost[f] /\ lost[f] \in Nat
    BY <1>1, <1>11, <2>1 DEF LoadInv, CreatedLoads
  <2>. QED
    BY <1>13, <2>2
<1>. QED
  BY <1>1, <1>6, <1>8, <1>10, <1>11, <1>12, <1>14, <1>15, ApiLoads

\* The API stops, or serves somebody else.
LEMMA OtherLoads ==
    IInv /\ IInv' /\ LoadInv
        /\ (ApiStops \/ OtherStudy \/ Reading \/ UNCHANGED vars) => LoadInv'
<1>. SUFFICES ASSUME IInv, IInv', LoadInv, ApiStops \/ OtherStudy \/ Reading \/ UNCHANGED vars PROVE LoadInv'
  OBVIOUS
<1>1. UNCHANGED <<file, state, pc, after, fixture, starts, lost, sources>> /\ IsFiniteSet(calls)
  BY DEF ApiStops, OtherStudy, Reading, Elsewhere, vars, tables, script, LoadInv, Counted
<1>2. StudiesGrow
  <2>1. studies \in Seq(StudyRow) /\ Len(studies) \in Nat
    BY DEF IInv, TablesInv, TableOK
  <2>2. CASE OtherStudy
    <3>1. PICK row : row = [id |-> NewId(studies), title |-> "other"]
      OBVIOUS
    <3>2. row \in StudyRow /\ studies' \in Insertions(studies, row)
      BY <2>1, <2>2, <3>1 DEF NewId, StudyRow, Titles, OtherStudy
    <3>3. PICK k \in 0 .. Overtaken : k <= Len(studies) /\ studies' = InsertAt(studies, Len(studies) + 1 - k, row)
      BY <3>2 DEF Insertions
    <3>4. Len(studies) + 1 - k \in 1 .. (Len(studies) + 1)
      BY <2>1, <3>3, PageAssumption
    <3>5. Len(studies') = Len(studies) + 1
      BY <2>1, <3>2, <3>3, <3>4, Inserted
    <3>. QED
      BY <2>1, <3>5 DEF StudiesGrow
  <2>3. CASE studies' = studies
    BY <2>1, <2>3 DEF StudiesGrow
  <2>. QED
    BY <2>2, <2>3 DEF ApiStops, Reading, vars, tables
<1>3. /\ IsFiniteSet(calls')
      /\ \A c \in calls' : \/ c \in calls
                           \/ c.phase = "error" /\ \E old \in calls : c.op = old.op /\ c.study = old.study
  <2>1. CASE ApiStops
    <3>1. ASSUME NEW new \in calls'
          PROVE  new.phase = "error" /\ \E old \in calls : new.op = old.op /\ new.study = old.study
      <4>1. PICK old \in calls : new = [old EXCEPT !.phase = "error"]
        BY <2>1 DEF ApiStops
      <4>2. old \in Call
        BY DEF IInv, CallsInv
      <4>. QED
        BY <4>1, <4>2 DEF Call
    <3>2. ASSUME NEW a \in calls', NEW b \in calls' PROVE a = b
      <4>1. PICK c \in calls : c.by = starts /\ Waiting /\ a = [c EXCEPT !.phase = "error"]
        BY <2>1 DEF ApiStops
      <4>2. PICK d \in calls : d.by = starts /\ b = [d EXCEPT !.phase = "error"]
        BY <2>1 DEF ApiStops
      <4>3. c = d
        BY <4>1, <4>2 DEF IInv, WaitingInv
      <4>. QED
        BY <4>1, <4>2, <4>3
    <3>3. CASE calls' = {}
      BY <3>3, FS_EmptySet
    <3>4. ASSUME NEW a \in calls' PROVE IsFiniteSet(calls')
      <4>1. calls' = {} \cup {a}
        BY <3>2
      <4>2. IsFiniteSet({})
        BY FS_EmptySet
      <4>. QED
        BY <4>1, <4>2, OneMore
    <3>5. IsFiniteSet(calls')
      BY <3>3, <3>4
    <3>. QED
      BY <3>1, <3>5
  <2>2. CASE calls' = calls
    BY <1>1, <2>2
  <2>. QED
    BY <2>1, <2>2 DEF OtherStudy, Reading, vars
<1>4. \A r \in ToSet(sources') : Made(r.study)
  BY <1>1 DEF LoadInv, MadeInv
<1>5. \A study, f : Owned(sources', study, f) = Owned(sources, study, f)
  BY <1>1
<1>6. \A c \in calls' : \/ c \in calls
                        \/ /\ c.phase # "sent" /\ ~(c.op = "create" /\ c.phase = "done")
                           /\ \E old \in calls : c.op = old.op /\ c.study = old.study
  BY <1>3
<1>. QED
  BY <1>1, <1>2, <1>3, <1>4, <1>5, <1>6, ServedLoads

LEMMA EveryStepLoads == IInv /\ IInv' /\ LoadInv /\ [Next]_vars => LoadInv'
<1>. SUFFICES ASSUME IInv, IInv', LoadInv, [Next]_vars PROVE LoadInv'
  OBVIOUS
<1>1. CASE Script
  BY <1>1, ResumeLoads, DiscoverLoads, CallLoads, UploadLoads, SkipFixtureLoads, AnswerLoads, SaveLoads,
     SummarizeLoads DEF Script
<1>2. CASE Die
  BY <1>2, DieLoads
<1>3. CASE Api
  BY <1>3, ServeCreateLoads, ServeUploadLoads, ServeProcessLoads, RunLoads, OtherLoads DEF Api
<1>4. CASE \E forced \in BOOLEAN : Start(forced)
  BY <1>4, StartLoads
<1>5. CASE Reading \/ UNCHANGED vars
  BY <1>5, OtherLoads
<1>. QED
  BY <1>1, <1>2, <1>3, <1>4, <1>5 DEF Next

LEMMA InitiallyLoads == Init => LoadInv
<1>. SUFFICES ASSUME Init PROVE LoadInv
  OBVIOUS
<1>1. /\ sources = << >> /\ file = Nothing /\ pc = "off" /\ calls = {} /\ lost = [f \in FixtureIds |-> 0]
  BY DEF Init
<1>2. ToSet(sources) = {}
  BY <1>1 DEF ToSet
<1>3. IsFiniteSet({}) /\ Cardinality({}) = 0
  BY FS_EmptySet
<1>4. Counted /\ MadeInv /\ FileInv
  BY <1>1, <1>2, <1>3 DEF Counted, MadeInv, FileInv
<1>5. \A study, f : Load(sources, calls, study, f) = 0
  <2>1. \A study, f : Owned(sources, study, f) = {} /\ Sent(calls, study, f) = {}
    BY <1>1, <1>2 DEF Owned, Sent
  <2>2. ASSUME NEW study, NEW f PROVE Load(sources, calls, study, f) = Cardinality({}) + Cardinality({})
    BY <2>1 DEF Load
  <2>. QED
    BY <1>3, <2>2
<1>6. \A f : Cardinality(CutOff(calls, starts, pc, f)) = 0
  <2>1. \A f : CutOff(calls, starts, pc, f) = {}
    BY <1>1 DEF CutOff
  <2>. QED
    BY <1>3, <2>1
<1>7. \A f \in FixtureIds : lost[f] = 0
  BY <1>1
<1>8. NoneTwice /\ CutsInv
  BY <1>5, <1>6, <1>7 DEF NoneTwice, CutsInv
<1>9. FileLoads /\ SavingLoads /\ CreatedLoads
  BY <1>1 DEF FileLoads, SavingLoads, CreatedLoads
<1>. QED
  BY <1>4, <1>8, <1>9 DEF LoadInv

LEMMA DuplicatesImplied == IInv /\ LoadInv => DuplicatesAreInterruptions
<1>. SUFFICES ASSUME IInv, LoadInv, NEW study \in Ids(studies), NEW f \in FixtureIds
              PROVE  Cardinality({row \in SourcesOf(study) : row.fixture = f}) <= 1 + lost[f]
  BY DEF DuplicatesAreInterruptions
<1>. DEFINE rows == {row \in SourcesOf(study) : row.fixture = f}
            ids  == Owned(sources, study, f)
            id   == [row \in rows |-> row.id]
<1>1. TableOK(sources, SourceRow) /\ IsFiniteSet(calls) /\ lost[f] \in Nat
  BY DEF IInv, TablesInv, LoadInv, Counted
<1>2. study \in Nat
  BY DEF IInv, TablesInv, TableOK, Ids, ToSet
<1>3. /\ IsFiniteSet(ids) /\ Cardinality(ids) \in Nat
      /\ Cardinality(Sent(calls, study, f)) \in Nat
  BY <1>1, LoadType
<1>4. id \in Injection(rows, ids)
  <2>1. ASSUME NEW row \in rows PROVE row \in ToSet(sources) /\ row.id \in ids
    <3>1. row \in ToSet(sources) /\ row.study = study /\ row.fixture = f
      BY DEF SourcesOf
    <3>2. row.id \in Nat
      BY <1>1, <3>1 DEF TableOK
    <3>. QED
      BY <3>1, <3>2 DEF Owned
  <2>2. \A a, b \in rows : a.id = b.id => a = b
    BY <1>1, <2>1 DEF TableOK
  <2>3. id \in [rows -> ids]
    BY <2>1
  <2>4. \A a, b \in rows : id[a] = id[b] => a = b
    BY <2>2
  <2>. QED
    BY <2>3, <2>4 DEF Injection, IsInjective
<1>. HIDE DEF rows, ids, id
<1>5. IsFiniteSet(rows) /\ Cardinality(rows) <= Cardinality(ids)
  BY <1>3, <1>4, FS_Injection
<1>6. Cardinality(rows) \in Nat
  BY <1>5, FS_CardinalityType
<1>7. Cardinality(ids) + Cardinality(Sent(calls, study, f)) <= 1 + lost[f]
  BY <1>2 DEF LoadInv, NoneTwice, Load, ids
<1>. QED
  BY <1>1, <1>3, <1>5, <1>6, <1>7 DEF rows

\* However often the script is started and however it and the API end, a study has a
\* fixture more than once only if an upload of that fixture was cut off: for any number
\* of fixtures, studies and starts, and uploads that the API serves long after.
THEOREM UploadsAreNotRepeated == Spec => []DuplicatesAreInterruptions
<1>1. Spec => []LoadInv
  BY InitiallyLoads, EveryStepLoads, TypesHold, PTL DEF Spec
<1>. QED
  BY <1>1, TypesHold, DuplicatesImplied, PTL

-----------------------------------------------------------------------------
(* Pages of a list.  The rows of a study are listed newest first; the rank of *)
(* a row is how many of them are listed before it.                            *)

Total(rows, study) == Cardinality(OfStudy(rows, study))
Rank(rows, study, i) == Cardinality(Newer(rows, study, i))

LEMMA RankType ==
    ASSUME NEW S, NEW rows, TableOK(rows, S), NEW study
    PROVE  /\ OfStudy(rows, study) \subseteq 1 .. Len(rows) /\ IsFiniteSet(OfStudy(rows, study))
           /\ Total(rows, study) \in Nat
           /\ \A i : IsFiniteSet(Newer(rows, study, i)) /\ Rank(rows, study, i) \in Nat
           /\ \A i \in OfStudy(rows, study) : Rank(rows, study, i) < Total(rows, study)
<1>1. rows \in Seq(S) /\ DOMAIN rows = 1 .. Len(rows) /\ Len(rows) \in Nat
  BY DEF TableOK
<1>2. OfStudy(rows, study) \subseteq 1 .. Len(rows) /\ IsFiniteSet(OfStudy(rows, study))
  <2>1. OfStudy(rows, study) \subseteq 1 .. Len(rows)
    BY <1>1 DEF OfStudy
  <2>2. IsFiniteSet(1 .. Len(rows))
    BY <1>1, FS_Interval
  <2>. QED
    BY <2>1, <2>2, FS_Subset
<1>3. Total(rows, study) \in Nat
  BY <1>2, FS_CardinalityType DEF Total
<1>4. ASSUME NEW i
      PROVE  /\ IsFiniteSet(Newer(rows, study, i)) /\ Rank(rows, study, i) \in Nat
             /\ i \in OfStudy(rows, study) => Rank(rows, study, i) < Total(rows, study)
  <2>1. Newer(rows, study, i) \subseteq OfStudy(rows, study)
    BY DEF Newer
  <2>2. IsFiniteSet(Newer(rows, study, i))
    BY <1>2, <2>1, FS_Subset
  <2>3. Rank(rows, study, i) \in Nat
    BY <2>2, FS_CardinalityType DEF Rank
  <2>4. ASSUME i \in OfStudy(rows, study) PROVE Rank(rows, study, i) < Total(rows, study)
    <3>1. i \in Nat
      BY <1>1, <1>2, <2>4
    <3>2. Newer(rows, study, i) \subseteq OfStudy(rows, study) \ {i}
      BY <3>1 DEF Newer
    <3>3. /\ IsFiniteSet(OfStudy(rows, study) \ {i})
          /\ Cardinality(OfStudy(rows, study) \ {i}) = Total(rows, study) - 1
      BY <1>2, <2>4, FS_RemoveElement DEF Total
    <3>4. Rank(rows, study, i) <= Total(rows, study) - 1
      BY <3>2, <3>3, FS_Subset DEF Rank
    <3>. QED
      BY <1>3, <2>3, <3>4
  <2>. QED
    BY <2>2, <2>3, <2>4
<1>. QED
  BY <1>2, <1>3, <1>4

\* A newer row has a smaller rank.
LEMMA RanksFall ==
    ASSUME NEW S, NEW rows, TableOK(rows, S), NEW study,
           NEW i \in OfStudy(rows, study), NEW j \in OfStudy(rows, study), i < j
    PROVE  Rank(rows, study, j) < Rank(rows, study, i)
<1>1. i \in Nat /\ j \in Nat
  BY RankType DEF TableOK
<1>2. /\ IsFiniteSet(Newer(rows, study, i)) /\ IsFiniteSet(Newer(rows, study, j))
      /\ Rank(rows, study, i) \in Nat /\ Rank(rows, study, j) \in Nat
  BY RankType
<1>3. j \notin Newer(rows, study, j)
  BY <1>1 DEF Newer
<1>4. /\ IsFiniteSet(Newer(rows, study, j) \cup {j})
      /\ Cardinality(Newer(rows, study, j) \cup {j}) = Rank(rows, study, j) + 1
  BY <1>2, <1>3, FS_AddElement DEF Rank
<1>5. Newer(rows, study, j) \cup {j} \subseteq Newer(rows, study, i)
  <2>1. OfStudy(rows, study) \subseteq Nat
    BY RankType DEF TableOK
  <2>. QED
    BY <1>1, <2>1 DEF Newer
<1>6. Rank(rows, study, j) + 1 <= Rank(rows, study, i)
  BY <1>2, <1>4, <1>5, FS_Subset DEF Rank
<1>. QED
  BY <1>2, <1>6

LEMMA SameRank ==
    ASSUME NEW S, NEW rows, TableOK(rows, S), NEW study,
           NEW i \in OfStudy(rows, study), NEW j \in OfStudy(rows, study),
           Rank(rows, study, i) = Rank(rows, study, j)
    PROVE  i = j
<1>1. i \in Nat /\ j \in Nat /\ Rank(rows, study, i) \in Nat
  BY RankType DEF TableOK
<1>2. CASE i < j
  <2>1. Rank(rows, study, j) < Rank(rows, study, i)
    BY <1>2, RanksFall
  <2>. QED
    BY <1>1, <2>1
<1>3. CASE j < i
  <2>1. Rank(rows, study, i) < Rank(rows, study, j)
    BY <1>3, RanksFall
  <2>. QED
    BY <1>1, <2>1
<1>. QED
  BY <1>1, <1>2, <1>3

\* Every rank below the total is that of a row.
LEMMA EveryRank ==
    ASSUME NEW S, NEW rows, TableOK(rows, S), NEW study, NEW k \in Nat, k < Total(rows, study)
    PROVE  \E i \in OfStudy(rows, study) : Rank(rows, study, i) = k
<1>. DEFINE own  == OfStudy(rows, study)
            n    == Total(rows, study)
            rank == [i \in own |-> Rank(rows, study, i)]
<1>1. IsFiniteSet(own) /\ n \in Nat /\ \A i \in own : Rank(rows, study, i) \in Nat /\ Rank(rows, study, i) < n
  BY RankType
<1>2. \A i, j \in own : Rank(rows, study, i) = Rank(rows, study, j) => i = j
  BY SameRank
<1>3. IsFiniteSet(0 .. (n - 1)) /\ Cardinality(0 .. (n - 1)) = n
  <2>. HIDE DEF n
  <2>1. n - 1 \in Int /\ 0 \in Int
    BY <1>1
  <2>2. /\ IsFiniteSet(0 .. (n - 1))
        /\ Cardinality(0 .. (n - 1)) = IF 0 > n - 1 THEN 0 ELSE (n - 1) - 0 + 1
    BY <2>1, FS_Interval
  <2>. QED
    BY <1>1, <2>2
<1>4. rank \in Injection(own, 0 .. (n - 1))
  <2>1. \A i \in own : Rank(rows, study, i) \in 0 .. (n - 1)
    <3>. HIDE DEF n
    <3>. QED
      BY <1>1
  <2>2. rank \in [own -> 0 .. (n - 1)]
    BY <2>1
  <2>3. \A i, j \in own : rank[i] = rank[j] => i = j
    BY <1>2
  <2>. QED
    BY <2>2, <2>3 DEF Injection, IsInjective
<1>5. Cardinality(own) = Cardinality(0 .. (n - 1))
  BY <1>3 DEF Total
<1>6. rank \in Surjection(own, 0 .. (n - 1))
  <2>. HIDE DEF own, rank, n
  <2>. QED
    BY <1>3, <1>4, <1>5, FS_Injection
<1>7. k \in 0 .. (n - 1)
  <2>. HIDE DEF n
  <2>1. k < n
    BY DEF n
  <2>. QED
    BY <1>1, <2>1
<1>8. PICK i \in own : rank[i] = k
  BY <1>6, <1>7 DEF Surjection
<1>. QED
  BY <1>8

\* A page is full, or goes to the end of the list.
LEMMA PageSize ==
    ASSUME NEW S, NEW rows, TableOK(rows, S), NEW study, NEW offset \in Nat
    PROVE  /\ IsFiniteSet(Page(rows, study, offset)) /\ Cardinality(Page(rows, study, offset)) \in Nat
           /\ Cardinality(Page(rows, study, offset)) <= PageLimit
           /\ Page(rows, study, offset) # {} =>
                offset + Cardinality(Page(rows, study, offset)) <= Total(rows, study)
           /\ Total(rows, study) >= offset + PageLimit =>
                Cardinality(Page(rows, study, offset)) = PageLimit
<1>. DEFINE own  == OfStudy(rows, study)
            page == Page(rows, study, offset)
            n    == Total(rows, study)
            last == (IF offset + PageLimit < n THEN offset + PageLimit ELSE n) - 1
            at   == [k \in offset .. last |-> CHOOSE i \in own : Rank(rows, study, i) = k]
            row  == [k \in offset .. last |-> rows[at[k]]]
<1>1. /\ n \in Nat /\ \A i \in own : Rank(rows, study, i) \in Nat /\ Rank(rows, study, i) < n
      /\ own \subseteq 1 .. Len(rows) /\ PageLimit \in Nat /\ PageLimit # 0
  BY RankType, PageAssumption
<1>2. last \in Int
  BY <1>1
<1>3. ASSUME NEW k \in offset .. last PROVE k \in Nat /\ k < n /\ k \in offset .. (offset + PageLimit - 1)
  <2>. HIDE DEF n
  <2>. QED
    BY <1>1
<1>4. ASSUME NEW k \in Nat, k \in offset .. (offset + PageLimit - 1), k < n PROVE k \in offset .. last
  <2>. HIDE DEF n
  <2>. QED
    BY <1>1, <1>4
<1>. HIDE DEF last, n
<1>5. ASSUME NEW k \in offset .. last PROVE at[k] \in own /\ Rank(rows, study, at[k]) = k
  <2>1. \E i \in own : Rank(rows, study, i) = k
    BY <1>3, EveryRank DEF n
  <2>. QED
    BY <2>1
<1>. HIDE DEF at
<1>6. page = {rows[i] : i \in {i \in own : Rank(rows, study, i) \in offset .. (offset + PageLimit - 1)}}
  BY DEF Page, Rank
<1>. HIDE DEF page, own
<1>7. row \in [offset .. last -> page]
  <2>1. ASSUME NEW k \in offset .. last PROVE rows[at[k]] \in page
    BY <1>3, <1>5, <1>6
  <2>. QED
    BY <2>1
<1>8. \A x \in page : \E k \in offset .. last : row[k] = x
  <2>. SUFFICES ASSUME NEW x \in page PROVE \E k \in offset .. last : row[k] = x
    OBVIOUS
  <2>1. PICK i \in own : Rank(rows, study, i) \in offset .. (offset + PageLimit - 1) /\ x = rows[i]
    BY <1>6
  <2>2. PICK k : k = Rank(rows, study, i)
    OBVIOUS
  <2>3. k \in offset .. last
    BY <1>1, <1>4, <2>1, <2>2
  <2>4. at[k] = i
    BY <1>5, <2>2, <2>3, SameRank DEF own
  <2>. QED
    BY <2>1, <2>3, <2>4
<1>9. \A j, k \in offset .. last : row[j] = row[k] => j = k
  <2>. SUFFICES ASSUME NEW j \in offset .. last, NEW k \in offset .. last, rows[at[j]] = rows[at[k]]
                PROVE  j = k
    OBVIOUS
  <2>1. at[j] \in own /\ at[k] \in own /\ Rank(rows, study, at[j]) = j /\ Rank(rows, study, at[k]) = k
    BY <1>5
  <2>2. at[j] = at[k]
    BY <1>1, <2>1 DEF TableOK
  <2>. QED
    BY <2>1, <2>2
<1>10. row \in Surjection(offset .. last, page) /\ row \in Injection(offset .. last, page)
  <2>. HIDE DEF row
  <2>. QED
    BY <1>7, <1>8, <1>9 DEF Surjection, Injection, IsInjective
<1>. HIDE DEF row
<1>11. /\ IsFiniteSet(offset .. last)
       /\ Cardinality(offset .. last) = IF offset > last THEN 0 ELSE last - offset + 1
  BY <1>2, FS_Interval
<1>12. IsFiniteSet(page) /\ Cardinality(page) = Cardinality(offset .. last)
  BY <1>10, <1>11, FS_Surjection
<1>13. Cardinality(page) = IF offset > last THEN 0 ELSE last - offset + 1
  BY <1>11, <1>12
<1>14. page # {} => offset <= last
  <2>1. \A k \in offset .. last : offset <= last
    BY <1>2
  <2>. QED
    BY <1>8, <2>1
<1>15. /\ Cardinality(page) \in Nat /\ Cardinality(page) <= PageLimit
       /\ page # {} => offset + Cardinality(page) <= n
       /\ n >= offset + PageLimit => Cardinality(page) = PageLimit
  <2>1. CASE offset + PageLimit < n
    BY <1>1, <1>13, <2>1 DEF last
  <2>2. CASE ~(offset + PageLimit < n)
    BY <1>1, <1>13, <1>14, <2>2 DEF last
  <2>. QED
    BY <2>1, <2>2
<1>. QED
  BY <1>12, <1>15 DEF page, n

\* A row of the study whose rank is n at least.
Behind(rows, study, id, n) ==
    \E i \in OfStudy(rows, study) : rows[i].id = id /\ Rank(rows, study, i) >= n

\* What is behind the start of a page is on it, or behind its end: then it is full.
LEMMA PageOrBehind ==
    ASSUME NEW S, NEW rows, TableOK(rows, S), NEW study, NEW offset \in Nat,
           NEW id, Behind(rows, study, id, offset), \A row \in Page(rows, study, offset) : row.id # id
    PROVE  /\ Behind(rows, study, id, offset + PageLimit)
           /\ Cardinality(Page(rows, study, offset)) = PageLimit
<1>1. PICK i \in OfStudy(rows, study) : rows[i].id = id /\ Rank(rows, study, i) >= offset
  BY DEF Behind
<1>2. /\ Rank(rows, study, i) \in Nat /\ Total(rows, study) \in Nat
      /\ Rank(rows, study, i) < Total(rows, study) /\ PageLimit \in Nat
  BY RankType, PageAssumption
<1>3. rows[i] \notin Page(rows, study, offset)
  BY <1>1
<1>4. Rank(rows, study, i) \notin offset .. (offset + PageLimit - 1)
  BY <1>3 DEF Page, Rank
<1>5. Rank(rows, study, i) >= offset + PageLimit
  BY <1>1, <1>2, <1>4
<1>6. Behind(rows, study, id, offset + PageLimit)
  BY <1>1, <1>5 DEF Behind
<1>7. Total(rows, study) >= offset + PageLimit
  BY <1>2, <1>5
<1>. QED
  BY <1>6, <1>7, PageSize

LEMMA BehindTotal ==
    ASSUME NEW S, NEW rows, TableOK(rows, S), NEW study, NEW n \in Nat, NEW id, Behind(rows, study, id, n)
    PROVE  n < Total(rows, study)
<1>1. PICK i \in OfStudy(rows, study) : Rank(rows, study, i) >= n
  BY DEF Behind
<1>2. /\ Rank(rows, study, i) \in Nat /\ Total(rows, study) \in Nat
      /\ Rank(rows, study, i) < Total(rows, study)
  BY RankType
<1>. QED
  BY <1>1, <1>2

-----------------------------------------------------------------------------
(* Lists that others add to meanwhile. *)

\* No row comes nearer to the start of its list, and the totals do not fall.
Grown(rows, new) ==
    /\ \A study, id : \A n \in Nat : Behind(rows, study, id, n) => Behind(new, study, id, n)
    /\ \A study : Total(rows, study) <= Total(new, study)

\* Where the rows of a table are in a later one.
Placed(rows, new, to) ==
    /\ to \in [1 .. Len(rows) -> 1 .. Len(new)]
    /\ \A i, j \in 1 .. Len(rows) : i < j => to[i] < to[j]
    /\ \A i \in 1 .. Len(rows) : new[to[i]].id = rows[i].id /\ new[to[i]].study = rows[i].study

LEMMA Apart ==
    ASSUME NEW S, NEW rows, TableOK(rows, S), NEW new, NEW to, Placed(rows, new, to),
           NEW i \in 1 .. Len(rows), NEW j \in 1 .. Len(rows), to[i] = to[j]
    PROVE  i = j
<1>1. Len(rows) \in Nat
  BY DEF TableOK
<1>2. i < j => to[i] < to[j]
  BY DEF Placed
<1>3. j < i => to[j] < to[i]
  BY DEF Placed
<1>4. to[i] \in 1 .. Len(new) /\ to[j] \in 1 .. Len(new)
  BY DEF Placed
<1>5. ~(to[i] < to[j]) /\ ~(to[j] < to[i])
  BY <1>4
<1>. QED
  BY <1>1, <1>2, <1>3, <1>5

LEMMA GrownBy ==
    ASSUME NEW S, NEW rows, TableOK(rows, S), NEW new, TableOK(new, S), NEW to, Placed(rows, new, to)
    PROVE  Grown(rows, new)
<1>1. /\ Len(rows) \in Nat /\ DOMAIN rows = 1 .. Len(rows)
      /\ Len(new) \in Nat /\ DOMAIN new = 1 .. Len(new)
  BY DEF TableOK
<1>2. ASSUME NEW study, NEW i \in OfStudy(rows, study)
      PROVE  i \in 1 .. Len(rows) /\ to[i] \in OfStudy(new, study)
  BY <1>1 DEF OfStudy, Placed
<1>3. ASSUME NEW study PROVE Total(rows, study) <= Total(new, study)
  <2>. DEFINE own  == OfStudy(rows, study)
              more == OfStudy(new, study)
              at   == [i \in own |-> to[i]]
  <2>1. at \in [own -> more]
    BY <1>2
  <2>2. \A i, j \in own : at[i] = at[j] => i = j
    BY <1>2, Apart
  <2>3. IsFiniteSet(more)
    BY RankType
  <2>. HIDE DEF at
  <2>4. at \in Injection(own, more)
    BY <2>1, <2>2 DEF Injection, IsInjective
  <2>. HIDE DEF own, more
  <2>5. Cardinality(own) <= Cardinality(more)
    BY <2>3, <2>4, FS_Injection
  <2>. QED
    BY <2>5 DEF Total, own, more
<1>4. ASSUME NEW study, NEW i \in OfStudy(rows, study)
      PROVE  Rank(rows, study, i) <= Rank(new, study, to[i])
  <2>. DEFINE own  == Newer(rows, study, i)
              more == Newer(new, study, to[i])
              at   == [j \in own |-> to[j]]
  <2>1. ASSUME NEW j \in own PROVE j \in OfStudy(rows, study) /\ to[j] \in more
    <3>1. j \in OfStudy(rows, study) /\ j > i
      BY DEF Newer
    <3>2. /\ i \in 1 .. Len(rows) /\ j \in 1 .. Len(rows) /\ i < j
          /\ to[j] \in OfStudy(new, study)
      BY <1>1, <1>2, <3>1
    <3>3. to[i] < to[j] /\ to[i] \in 1 .. Len(new) /\ to[j] \in 1 .. Len(new)
      BY <3>2 DEF Placed
    <3>. QED
      BY <3>1, <3>2, <3>3 DEF Newer
  <2>2. at \in [own -> more]
    BY <2>1
  <2>3. \A j, k \in own : at[j] = at[k] => j = k
    BY <1>2, <2>1, Apart
  <2>4. IsFiniteSet(more)
    BY RankType
  <2>. HIDE DEF at
  <2>5. at \in Injection(own, more)
    BY <2>2, <2>3 DEF Injection, IsInjective
  <2>. HIDE DEF own, more
  <2>6. Cardinality(own) <= Cardinality(more)
    BY <2>4, <2>5, FS_Injection
  <2>. QED
    BY <2>6 DEF Rank, own, more
<1>5. ASSUME NEW study, NEW id, NEW n \in Nat, Behind(rows, study, id, n) PROVE Behind(new, study, id, n)
  <2>1. PICK i \in OfStudy(rows, study) : rows[i].id = id /\ Rank(rows, study, i) >= n
    BY <1>5 DEF Behind
  <2>2. to[i] \in OfStudy(new, study) /\ new[to[i]].id = id
    BY <1>2, <2>1 DEF Placed
  <2>3. Rank(rows, study, i) \in Nat /\ Rank(new, study, to[i]) \in Nat
    BY RankType
  <2>4. Rank(new, study, to[i]) >= n
    BY <1>4, <2>1, <2>3
  <2>. QED
    BY <2>2, <2>4 DEF Behind
<1>. QED
  BY <1>3, <1>5 DEF Grown

LEMMA GrownSame == ASSUME NEW S, NEW rows, TableOK(rows, S) PROVE Grown(rows, rows)
<1>1. \A study : Total(rows, study) \in Nat
  BY RankType
<1>. QED
  BY <1>1 DEF Grown

LEMMA GrownInserted ==
    ASSUME NEW S, NEW rows, TableOK(rows, S), NEW row \in S, row.id = NewId(rows),
           NEW new \in Insertions(rows, row)
    PROVE  Grown(rows, new)
<1>1. PICK k \in 0 .. Overtaken : k <= Len(rows) /\ new = InsertAt(rows, Len(rows) + 1 - k, row)
  BY DEF Insertions
<1>2. rows \in Seq(S) /\ Len(rows) \in Nat /\ Len(rows) + 1 - k \in 1 .. (Len(rows) + 1)
  BY <1>1, PageAssumption DEF TableOK
<1>3. PICK p \in 1 .. (Len(rows) + 1) : p = Len(rows) + 1 - k
  BY <1>2
<1>4. new = InsertAt(rows, p, row) /\ rows \in Seq(S)
  BY <1>1, <1>2, <1>3
<1>5. TableOK(new, S)
  BY NewRow
<1>6. Len(new) = Len(rows) + 1
  BY <1>4, Places
<1>7. \A m \in 1 .. (p - 1) : new[m] = rows[m]
  BY <1>4, Places
<1>8. \A m \in (p + 1) .. (Len(rows) + 1) : new[m] = rows[m - 1]
  BY <1>4, Places
<1>. DEFINE to == [m \in 1 .. Len(rows) |-> IF m < p THEN m ELSE m + 1]
<1>9. \A m \in 1 .. Len(rows) : to[m] \in 1 .. Len(new)
  BY <1>2, <1>6
<1>10. \A i, j \in 1 .. Len(rows) : i < j => to[i] < to[j]
  BY <1>2, <1>3
<1>11. ASSUME NEW m \in 1 .. Len(rows) PROVE new[to[m]] = rows[m]
  <2>1. CASE m < p
    BY <1>2, <1>7, <2>1
  <2>2. CASE ~(m < p)
    <3>1. m + 1 \in (p + 1) .. (Len(rows) + 1) /\ (m + 1) - 1 = m
      BY <1>2, <2>2
    <3>2. to[m] = m + 1
      BY <2>2
    <3>. QED
      BY <1>8, <3>1, <3>2
  <2>. QED
    BY <2>1, <2>2
<1>12. to \in [1 .. Len(rows) -> 1 .. Len(new)]
  BY <1>9
<1>. HIDE DEF to
<1>13. Placed(rows, new, to)
  BY <1>10, <1>11, <1>12 DEF Placed
<1>. QED
  BY <1>5, <1>13, GrownBy

LEMMA GrownUpdated ==
    ASSUME NEW S, NEW rows, TableOK(rows, S), NEW a \in ToSet(rows),
           NEW row \in S, row.id = a.id, row.study = a.study
    PROVE  Grown(rows, Updated(rows, a.id, row))
<1>. DEFINE new == Updated(rows, a.id, row)
            to  == [i \in 1 .. Len(rows) |-> i]
<1>1. TableOK(new, S)
  BY UpdatedRow
<1>2. /\ rows \in Seq(S) /\ DOMAIN rows = 1 .. Len(rows) /\ Len(rows) \in Nat
      /\ \A i \in 1 .. Len(rows) : rows[i].id = a.id => rows[i] = a
  BY DEF TableOK, ToSet
<1>3. new = [i \in 1 .. Len(rows) |-> IF rows[i].id = a.id THEN row ELSE rows[i]]
  BY <1>2 DEF Updated
<1>4. Len(new) = Len(rows)
  BY <1>2, <1>3
<1>5. \A i \in 1 .. Len(rows) : new[i].id = rows[i].id /\ new[i].study = rows[i].study
  BY <1>2, <1>3
<1>. HIDE DEF new
<1>6. Placed(rows, new, to)
  BY <1>2, <1>4, <1>5 DEF Placed
<1>. QED
  BY <1>1, <1>6, GrownBy DEF new

TablesGrow ==
    /\ Grown(sources, sources') /\ Grown(runs, runs') /\ Grown(evidence, evidence')
    /\ ToSet(evidence) \subseteq ToSet(evidence')

LEMMA GrowStaying == IInv /\ UNCHANGED <<sources, runs, evidence>> => TablesGrow
BY GrownSame DEF TablesGrow, IInv, TablesInv

LEMMA GrowUploading == \A call \in calls : IInv /\ ServeUpload(call) => TablesGrow
<1>. SUFFICES ASSUME NEW call \in calls, IInv, ServeUpload(call) PROVE TablesGrow
  OBVIOUS
<1>1. PICK row : row = [id |-> NewId(sources), study |-> call.study,
                        fixture |-> call.fixture, status |-> "UPLOADED"]
  OBVIOUS
<1>2. /\ call \in Call /\ UNCHANGED <<runs, evidence>> /\ sources' \in Insertions(sources, row)
      /\ TableOK(sources, SourceRow) /\ TableOK(runs, RunRow) /\ TableOK(evidence, EvidenceRow)
  BY <1>1 DEF IInv, CallsInv, TablesInv, ServeUpload
<1>3. row \in SourceRow /\ row.id = NewId(sources)
  BY <1>1, <1>2 DEF TableOK, NewId, SourceRow, Call, Statuses
<1>4. Grown(sources, sources')
  BY <1>2, <1>3, GrownInserted
<1>. QED
  BY <1>2, <1>4, GrownSame DEF TablesGrow

LEMMA GrowStarting == \A call \in calls : IInv /\ ServeProcess(call) => TablesGrow
<1>. SUFFICES ASSUME NEW call \in calls, IInv, ServeProcess(call) PROVE TablesGrow
  OBVIOUS
<1>1. /\ CallKnown(call) /\ call.op = "process"
      /\ TableOK(sources, SourceRow) /\ TableOK(runs, RunRow) /\ TableOK(evidence, EvidenceRow)
  BY DEF IInv, CallsInv, TablesInv, ServeProcess
<1>2. PICK source \in ToSet(sources) : source.id = call.source
  BY <1>1 DEF CallKnown, SourceKnown
<1>3. RowOf(sources, call.source) = source /\ source \in SourceRow
  BY <1>1, <1>2, FoundRow, RowsAreTyped DEF TableOK
<1>4. CASE UNCHANGED tables
  BY <1>4, GrowStaying DEF tables
<1>5. CASE /\ runs' \in Insertions(runs, [id |-> NewId(runs), study |-> source.study,
                        source |-> source.id, status |-> "RUNNING", steps |-> 0])
           /\ sources' = Updated(sources, source.id, [source EXCEPT !.status = "PROCESSING"])
           /\ evidence' = evidence
  <2>1. PICK run : run = [id |-> NewId(runs), study |-> source.study,
                          source |-> source.id, status |-> "RUNNING", steps |-> 0]
    OBVIOUS
  <2>2. run \in RunRow /\ run.id = NewId(runs)
    <3>1. source.study \in Nat /\ source.id \in Nat
      BY <1>3 DEF SourceRow
    <3>2. NewId(runs) \in Nat
      BY <1>1 DEF TableOK, NewId
    <3>3. 0 \in 0 .. Steps
      BY DEF Steps
    <3>. QED
      BY <2>1, <3>1, <3>2, <3>3 DEF RunRow, Statuses
  <2>3. PICK row : row = [source EXCEPT !.status = "PROCESSING"]
    OBVIOUS
  <2>4. row \in SourceRow /\ row.id = source.id /\ row.study = source.study
    BY <1>3, <2>3 DEF SourceRow, Statuses
  <2>5. runs' \in Insertions(runs, run) /\ sources' = Updated(sources, source.id, row)
    BY <1>5, <2>1, <2>3
  <2>6. Grown(runs, runs')
    BY <1>1, <2>2, <2>5, GrownInserted
  <2>7. Grown(sources, sources')
    BY <1>1, <1>2, <2>4, <2>5, GrownUpdated
  <2>. QED
    BY <1>1, <1>5, <2>6, <2>7, GrownSame DEF TablesGrow
<1>. QED
  BY <1>3, <1>4, <1>5 DEF ServeProcess

\* The end of a run, with its result or without.
LEMMA GrowEnding == \A call \in calls : IInv /\ (Publish(call) \/ FailRun(call)) => TablesGrow
<1>. SUFFICES ASSUME NEW call \in calls, IInv, Publish(call) \/ FailRun(call) PROVE TablesGrow
  OBVIOUS
<1>1. /\ call.phase = "running"
      /\ TableOK(sources, SourceRow) /\ TableOK(runs, RunRow) /\ TableOK(evidence, EvidenceRow)
  BY DEF IInv, TablesInv, Publish, FailRun
<1>2. PICK source \in ToSet(sources), run \in ToSet(runs) :
        /\ source.id = call.source /\ run.id = call.run /\ run.source = source.id
        /\ run.status = "RUNNING"
        /\ RowOf(sources, call.source) = source /\ RowOf(runs, call.run) = run
        /\ source \in SourceRow /\ run \in RunRow
  BY <1>1, RunningCall
<1>3. PICK status \in {"SUCCEEDED", "FAILED"}, to \in {"PROCESSED", "FAILED"}, done \in 0 .. Steps :
        /\ runs' = Updated(runs, run.id, [run EXCEPT !.status = status, !.steps = done])
        /\ sources' = Updated(sources, source.id, [source EXCEPT !.status = to])
  <2>1. FailedAfter \subseteq 0 .. Steps /\ Steps \in 0 .. Steps
    BY SeedAssumption DEF Steps
  <2>2. CASE Publish(call)
    BY <1>2, <2>1, <2>2 DEF Publish
  <2>3. CASE FailRun(call)
    BY <1>2, <2>1, <2>3 DEF FailRun
  <2>. QED
    BY <2>2, <2>3
<1>4. PICK mid : mid = [run EXCEPT !.status = status]
  OBVIOUS
<1>5. PICK over : over = [mid EXCEPT !.steps = done]
  OBVIOUS
<1>6. over \in RunRow /\ over.id = run.id /\ over.study = run.study
  <2>1. mid \in RunRow /\ mid.id = run.id /\ mid.study = run.study
    BY <1>2, <1>4 DEF RunRow, Statuses
  <2>. QED
    BY <1>5, <2>1 DEF RunRow
<1>7. PICK row : row = [source EXCEPT !.status = to]
  OBVIOUS
<1>8. row \in SourceRow /\ row.id = source.id /\ row.study = source.study
  BY <1>2, <1>7 DEF SourceRow, Statuses
<1>9. runs' = Updated(runs, run.id, over)
  BY <1>2, <1>3, <1>4, <1>5 DEF RunRow
<1>10. sources' = Updated(sources, source.id, row)
  BY <1>3, <1>7
<1>11. Grown(runs, runs')
  BY <1>1, <1>2, <1>6, <1>9, GrownUpdated
<1>12. Grown(sources, sources')
  BY <1>1, <1>2, <1>8, <1>10, GrownUpdated
<1>13. Grown(evidence, evidence') /\ ToSet(evidence) \subseteq ToSet(evidence')
  <2>1. CASE FailRun(call)
    BY <1>1, <2>1, GrownSame DEF FailRun
  <2>2. CASE Publish(call)
    <3>1. PICK item : item = [id |-> NewId(evidence), study |-> source.study, source |-> source.id]
      OBVIOUS
    <3>2. evidence' \in Insertions(evidence, item)
      BY <1>2, <2>2, <3>1 DEF Publish
    <3>3. item \in EvidenceRow /\ item.id = NewId(evidence)
      <4>1. source.study \in Nat /\ source.id \in Nat
        BY <1>2 DEF SourceRow
      <4>2. NewId(evidence) \in Nat
        BY <1>1 DEF TableOK, NewId
      <4>. QED
        BY <3>1, <4>1, <4>2 DEF EvidenceRow
    <3>. QED
      BY <1>1, <3>2, <3>3, GrownInserted, NewRow
  <2>. QED
    BY <2>1, <2>2
<1>. QED
  BY <1>11, <1>12, <1>13 DEF TablesGrow

LEMMA EveryStepGrows == IInv /\ [Next]_vars => TablesGrow
<1>. SUFFICES ASSUME IInv, [Next]_vars PROVE TablesGrow
  OBVIOUS
<1>1. CASE Script
  <2>1. UNCHANGED tables
    BY <1>1 DEF Script, Resume, Discover, CreateStudy, Upload, Process, SkipFixture, StudyCreated,
                Uploaded, Processed, Save, Summarize, Send, Answered, Unserved
  <2>. QED
    BY <2>1, GrowStaying DEF tables
<1>2. CASE Die \/ Reading \/ (\E forced \in BOOLEAN : Start(forced)) \/ UNCHANGED vars
  BY <1>2, GrowStaying DEF Die, Reading, Start, vars, tables
<1>3. CASE Api
  <2>1. CASE ApiStops \/ OtherStudy \/ \E call \in calls : ServeCreate(call)
    BY <2>1, GrowStaying DEF ApiStops, OtherStudy, ServeCreate, tables
  <2>. QED
    BY <1>3, <2>1, GrowUploading, GrowStarting, GrowEnding DEF Api
<1>. QED
  BY <1>1, <1>2, <1>3 DEF Next

-----------------------------------------------------------------------------
(* The reader: what it has not seen of what it is owed is ahead of it. *)

Shaped(r) == r = [phase |-> r.phase, list |-> r.list, study |-> r.study, offset |-> r.offset,
                  total |-> r.total, items |-> r.items, progress |-> r.progress, owed |-> r.owed]

ItemIds(items) == {item.id : item \in items}
Missed(r) == r.owed \ ItemIds(r.items)

\* Of a page that was read, what is missing is behind its end, and then it is full.
PageRead(r, rows) ==
    /\ IsFiniteSet(r.items) /\ Cardinality(r.items) <= PageLimit
    /\ \A id \in Missed(r) : Behind(rows, r.study, id, r.offset + PageLimit)
    /\ Missed(r) # {} => Cardinality(r.items) = PageLimit

\* Of evidence, the total that is read after the rows counts them all.
TotalRead(r, rows) ==
    /\ r.phase = "total" => r.list = "evidence"
    /\ r.phase = "steps" => r.list # "evidence"
    /\ r.phase = "total" /\ r.items # {} => r.offset + Cardinality(r.items) <= Total(rows, r.study)
    /\ r.phase = "answered" /\ r.list = "evidence" =>
        /\ r.items # {} => r.offset + Cardinality(r.items) <= r.total
        /\ Missed(r) # {} => r.offset + Cardinality(r.items) < r.total

\* A source and its latest run are of one moment, when its evidence was there if it says so.
Snapshot(r, facts) ==
    r.list = "sources" =>
        \A item \in r.items :
            /\ (\E run \in item.run : run.status = "SUCCEEDED") => item.source.status = "PROCESSED"
            /\ item.source.status = "PROCESSED" => \E e \in ToSet(facts) : e.source = item.id
            /\ r.phase = "answered" /\ r.progress[item] = 100 => item.source.status = "PROCESSED"

Reads(r, rows, facts) ==
    /\ Shaped(r)
    /\ r.phase \in {"rows", "total", "steps", "answered"} /\ r.list \in {"sources", "runs", "evidence"}
    /\ r.offset \in Nat /\ r.total \in Nat
    /\ r.phase = "rows"  => \A id \in r.owed : Behind(rows, r.study, id, r.offset)
    /\ r.phase # "rows" => PageRead(r, rows) /\ TotalRead(r, rows) /\ Snapshot(r, facts)

ReaderInv ==
    \/ reader.phase = "idle"
    \/ reader.phase = "done" /\ reader.owed = {}
    \/ Reads(reader, Table(reader.list), evidence)

LEMMA TableOf ==
    ASSUME TablesInv, NEW list \in {"sources", "runs", "evidence"} PROVE \E S : TableOK(Table(list), S)
<1>1. CASE list = "sources"
  BY <1>1 DEF Table, TablesInv
<1>2. CASE list = "runs"
  BY <1>2 DEF Table, TablesInv
<1>3. CASE list = "evidence"
  BY <1>3 DEF Table, TablesInv
<1>. QED
  BY <1>1, <1>2, <1>3

LEMMA TableGrows ==
    ASSUME TablesGrow, NEW list \in {"sources", "runs", "evidence"} PROVE Grown(Table(list), Table(list)')
<1>1. CASE list = "sources"
  BY <1>1 DEF Table, TablesGrow
<1>2. CASE list = "runs"
  BY <1>2 DEF Table, TablesGrow
<1>3. CASE list = "evidence"
  BY <1>3 DEF Table, TablesGrow
<1>. QED
  BY <1>1, <1>2, <1>3

\* While the reader waits, others add to the tables.
LEMMA ReadsOn ==
    ASSUME NEW r, NEW S, NEW rows, TableOK(rows, S), NEW T, NEW new, TableOK(new, T), Grown(rows, new),
           NEW facts, NEW more, ToSet(facts) \subseteq ToSet(more), Reads(r, rows, facts)
    PROVE  Reads(r, new, more)
<1>1. /\ Shaped(r) /\ r.offset \in Nat /\ r.total \in Nat /\ PageLimit \in Nat
      /\ r.phase \in {"rows", "total", "steps", "answered"} /\ r.list \in {"sources", "runs", "evidence"}
  BY PageAssumption DEF Reads
<1>2. r.phase = "rows" => \A id \in r.owed : Behind(new, r.study, id, r.offset)
  BY <1>1 DEF Reads, Grown
<1>3. ASSUME r.phase # "rows" PROVE PageRead(r, new) /\ TotalRead(r, new) /\ Snapshot(r, more)
  <2>1. PageRead(r, rows) /\ TotalRead(r, rows) /\ Snapshot(r, facts)
    BY <1>3 DEF Reads
  <2>2. PICK end \in Nat : end = r.offset + PageLimit
    BY <1>1
  <2>3. \A id \in Missed(r) : Behind(new, r.study, id, end)
    BY <2>1, <2>2 DEF PageRead, Grown
  <2>4. PageRead(r, new)
    BY <2>1, <2>2, <2>3 DEF PageRead
  <2>5. Total(rows, r.study) \in Nat /\ Total(new, r.study) \in Nat /\ Total(rows, r.study) <= Total(new, r.study)
    <3>1. Total(rows, r.study) \in Nat
      BY RankType
    <3>2. Total(new, r.study) \in Nat
      BY RankType
    <3>. QED
      BY <3>1, <3>2 DEF Grown
  <2>6. Cardinality(r.items) \in Nat
    BY <2>1, FS_CardinalityType DEF PageRead
  <2>7. r.phase = "total" /\ r.items # {} => r.offset + Cardinality(r.items) <= Total(new, r.study)
    BY <1>1, <2>1, <2>5, <2>6 DEF TotalRead
  <2>8. TotalRead(r, new)
    BY <2>1, <2>7 DEF TotalRead
  <2>9. Snapshot(r, more)
    BY <2>1 DEF Snapshot
  <2>. QED
    BY <2>4, <2>8, <2>9
<1>. QED
  BY <1>1, <1>2, <1>3 DEF Reads

LEMMA ReaderWaits == IInv /\ IInv' /\ TablesGrow /\ UNCHANGED reader /\ ReaderInv => ReaderInv'
<1>. SUFFICES ASSUME IInv, IInv', TablesGrow, reader' = reader, Reads(reader, Table(reader.list), evidence)
              PROVE  Reads(reader, Table(reader.list), evidence)'
  BY DEF ReaderInv
<1>1. PICK list \in {"sources", "runs", "evidence"} : list = reader.list
  BY DEF Reads
<1>2. PICK rows : rows = Table(list)
  OBVIOUS
<1>3. PICK new : new = Table(list)'
  OBVIOUS
<1>4. TablesInv /\ TablesInv' /\ ToSet(evidence) \subseteq ToSet(evidence')
  BY DEF IInv, TablesGrow
<1>5. Grown(rows, new)
  BY <1>2, <1>3, TableGrows
<1>6. PICK S : TableOK(rows, S)
  BY <1>2, <1>4, TableOf
<1>7. PICK T : TableOK(new, T)
  <2>1. CASE list = "sources"
    BY <1>3, <1>4, <2>1 DEF Table, TablesInv
  <2>2. CASE list = "runs"
    BY <1>3, <1>4, <2>2 DEF Table, TablesInv
  <2>3. CASE list = "evidence"
    BY <1>3, <1>4, <2>3 DEF Table, TablesInv
  <2>. QED
    BY <2>1, <2>2, <2>3
<1>8. Reads(reader, rows, evidence)
  BY <1>1, <1>2
<1>9. Reads(reader, new, evidence')
  BY <1>4, <1>5, <1>6, <1>7, <1>8, ReadsOn
<1>10. new = Table(reader.list)'
  BY <1>1, <1>3 DEF Table
<1>. QED
  BY <1>9, <1>10

\* The items of a page are as many as its rows, under the same ids.
LEMMA ItemsOfPage ==
    ASSUME NEW S, NEW rows, TableOK(rows, S), NEW study, NEW offset \in Nat,
           NEW page, page = Page(rows, study, offset), NEW items, NEW item \in [page -> items],
           \A x \in items : \E row \in page : x = item[row], \A row \in page : item[row].id = row.id
    PROVE  /\ IsFiniteSet(items) /\ Cardinality(items) = Cardinality(page)
           /\ ItemIds(items) = {row.id : row \in page}
<1>1. \A a, b \in page : a.id = b.id => a = b
  <2>1. page \subseteq ToSet(rows)
    BY DEF Page, OfStudy, ToSet
  <2>. QED
    BY <2>1 DEF TableOK
<1>2. IsFiniteSet(page)
  BY PageSize
<1>3. item \in Surjection(page, items)
  BY DEF Surjection
<1>4. item \in Injection(page, items)
  BY <1>1 DEF Injection, IsInjective
<1>5. IsFiniteSet(items) /\ Cardinality(items) = Cardinality(page)
  BY <1>2, <1>3, <1>4, FS_Surjection
<1>6. ItemIds(items) = {row.id : row \in page}
  BY DEF ItemIds
<1>. QED
  BY <1>5, <1>6

\* What is read of a page from where the reader has come to.
LEMMA FreshPage ==
    ASSUME NEW S, NEW rows, TableOK(rows, S), NEW r, r.offset \in Nat, NEW owed,
           \A id \in owed : Behind(rows, r.study, id, r.offset),
           NEW page, page = Page(rows, r.study, r.offset),
           r.owed = owed, IsFiniteSet(r.items), Cardinality(r.items) = Cardinality(page),
           ItemIds(r.items) = {row.id : row \in page}
    PROVE  PageRead(r, rows)
<1>1. Cardinality(r.items) <= PageLimit
  BY PageSize
<1>2. ASSUME NEW id \in Missed(r)
      PROVE  Behind(rows, r.study, id, r.offset + PageLimit) /\ Cardinality(page) = PageLimit
  <2>1. id \in owed /\ \A row \in page : row.id # id
    BY <1>2 DEF Missed
  <2>. QED
    BY <2>1, PageOrBehind
<1>. QED
  BY <1>1, <1>2 DEF PageRead

LEMMA StartReads ==
    ASSUME IInv, UNCHANGED tables, NEW list \in Lists, NEW study, StartReading(list, study)
    PROVE  ReaderInv'
<1>1. list \in {"sources", "runs", "evidence"} /\ TablesInv
  BY ListsAssumption DEF IInv
<1>2. PICK rows : rows = Table(list)
  OBVIOUS
<1>3. PICK S : TableOK(rows, S)
  BY <1>1, <1>2, TableOf
<1>4. PICK r : r = [phase |-> "rows", list |-> list, study |-> study, offset |-> 0, total |-> 0,
                    items |-> {}, progress |-> << >>, owed |-> {rows[i].id : i \in OfStudy(rows, study)}]
  OBVIOUS
<1>5. reader' = r
  BY <1>2, <1>4 DEF StartReading
<1>6. \A id \in r.owed : Behind(rows, study, id, 0)
  <2>1. \A i \in OfStudy(rows, study) : Rank(rows, study, i) >= 0
    BY <1>3, RankType
  <2>. QED
    BY <1>4, <2>1 DEF Behind
<1>7. Reads(r, rows, evidence')
  BY <1>1, <1>4, <1>6 DEF Reads, Shaped
<1>8. rows = Table(reader.list)'
  BY <1>1, <1>2, <1>4, <1>5 DEF Table, tables
<1>. QED
  BY <1>5, <1>7, <1>8 DEF ReaderInv

LEMMA TotalReads ==
    ASSUME IInv, UNCHANGED tables, ReaderInv, ReadTotal
    PROVE  ReaderInv'
<1>1. /\ reader.phase = "total" /\ Reads(reader, Table(reader.list), evidence)
      /\ TableOK(evidence, EvidenceRow)
  BY DEF ReadTotal, ReaderInv, IInv, TablesInv
<1>2. PICK r : r = reader
  OBVIOUS
<1>3. /\ Shaped(r) /\ r.offset \in Nat /\ r.list = "evidence" /\ r.phase = "total"
      /\ PageRead(r, evidence) /\ TotalRead(r, evidence)
  <2>1. Reads(r, Table(r.list), evidence) /\ r.phase = "total"
    BY <1>1, <1>2
  <2>2. r.list = "evidence" /\ Shaped(r) /\ r.offset \in Nat
    BY <2>1 DEF Reads, TotalRead
  <2>3. Table(r.list) = evidence
    BY <2>2 DEF Table
  <2>. QED
    BY <2>1, <2>2, <2>3 DEF Reads
<1>4. PICK n \in Nat : n = Total(evidence, r.study)
  BY <1>1, RankType
<1>5. PICK new : new = [phase |-> "answered", list |-> r.list, study |-> r.study, offset |-> r.offset,
                        total |-> n, items |-> r.items, progress |-> r.progress, owed |-> r.owed]
  OBVIOUS
<1>6. reader' = new
  <2>1. PICK mid : mid = [r EXCEPT !.total = n]
    OBVIOUS
  <2>2. mid = [phase |-> r.phase, list |-> r.list, study |-> r.study, offset |-> r.offset,
               total |-> n, items |-> r.items, progress |-> r.progress, owed |-> r.owed]
    BY <1>3, <2>1 DEF Shaped
  <2>3. reader' = [mid EXCEPT !.phase = "answered"]
    BY <1>2, <1>4, <2>1 DEF ReadTotal, Total
  <2>. QED
    BY <1>5, <2>2, <2>3
<1>7. Missed(new) = Missed(r)
  BY <1>5 DEF Missed
<1>8. PageRead(new, evidence)
  BY <1>3, <1>5, <1>7 DEF PageRead
<1>9. TotalRead(new, evidence)
  <2>1. r.items # {} => r.offset + Cardinality(r.items) <= n
    BY <1>3, <1>4 DEF TotalRead
  <2>2. ASSUME Missed(r) # {} PROVE r.offset + Cardinality(r.items) < n
    <3>1. PICK id \in Missed(r) : TRUE
      BY <2>2
    <3>2. PICK end \in Nat : end = r.offset + PageLimit
      BY <1>3, PageAssumption
    <3>3. Behind(evidence, r.study, id, end) /\ Cardinality(r.items) = PageLimit
      BY <1>3, <3>1, <3>2 DEF PageRead
    <3>4. end < Total(evidence, r.study)
      BY <1>1, <3>3, BehindTotal
    <3>. QED
      BY <1>4, <3>2, <3>3, <3>4
  <2>. QED
    BY <1>5, <1>7, <2>1, <2>2 DEF TotalRead
<1>10. Reads(new, evidence, evidence)
  BY <1>3, <1>5, <1>8, <1>9 DEF Reads, Shaped, Snapshot
<1>11. Table(reader.list)' = evidence /\ evidence' = evidence
  BY <1>3, <1>5, <1>6 DEF Table, tables
<1>. QED
  BY <1>6, <1>10, <1>11 DEF ReaderInv

\* Only a run that succeeded is at 100.
LEMMA Complete ==
    ASSUME NEW item, SourceProgress(item) = 100
    PROVE  item.source.status = "PROCESSED" \/ \E run \in item.run : run.status = "SUCCEEDED"
<1>. SUFFICES ASSUME item.source.status # "PROCESSED" PROVE \E run \in item.run : run.status = "SUCCEEDED"
  OBVIOUS
<1>1. item.source.status # "UPLOADED" /\ item.run # {}
  BY DEF SourceProgress
<1>2. PICK run : run = CHOOSE r \in item.run : TRUE
  OBVIOUS
<1>3. run \in item.run
  BY <1>1, <1>2
<1>4. PICK steps : steps = RowOf(runs, run.id).steps
  OBVIOUS
<1>5. RunProgress(run, steps) = 100
  BY <1>1, <1>2, <1>4 DEF SourceProgress
<1>6. run.status = "SUCCEEDED"
  BY <1>5 DEF RunProgress
<1>. QED
  BY <1>3, <1>6

LEMMA StepsReads ==
    ASSUME IInv, UNCHANGED tables, ReaderInv, ReadSteps
    PROVE  ReaderInv'
<1>1. reader.phase = "steps" /\ Reads(reader, Table(reader.list), evidence)
  BY DEF ReadSteps, ReaderInv
<1>2. PICK r : r = reader
  OBVIOUS
<1>3. PICK rows : rows = Table(r.list)
  OBVIOUS
<1>4. /\ Shaped(r) /\ r.offset \in Nat /\ r.total \in Nat /\ r.phase = "steps"
      /\ r.list \in {"sources", "runs", "evidence"} /\ r.list # "evidence"
      /\ PageRead(r, rows) /\ TotalRead(r, rows) /\ Snapshot(r, evidence)
  BY <1>1, <1>2, <1>3 DEF Reads, TotalRead
<1>5. PICK progress : progress = IF r.list = "sources" THEN [item \in r.items |-> SourceProgress(item)] ELSE << >>
  OBVIOUS
<1>6. PICK new : new = [phase |-> "answered", list |-> r.list, study |-> r.study, offset |-> r.offset,
                        total |-> r.total, items |-> r.items, progress |-> progress, owed |-> r.owed]
  OBVIOUS
<1>7. reader' = new
  <2>1. PICK mid : mid = [r EXCEPT !.progress = progress]
    OBVIOUS
  <2>2. mid = [phase |-> r.phase, list |-> r.list, study |-> r.study, offset |-> r.offset,
               total |-> r.total, items |-> r.items, progress |-> progress, owed |-> r.owed]
    BY <1>4, <2>1 DEF Shaped
  <2>3. reader' = [mid EXCEPT !.phase = "answered"]
    BY <1>2, <1>5, <2>1 DEF ReadSteps
  <2>. QED
    BY <1>6, <2>2, <2>3
<1>8. PageRead(new, rows)
  BY <1>4, <1>6 DEF PageRead, Missed
<1>9. TotalRead(new, rows)
  BY <1>4, <1>6 DEF TotalRead
<1>10. Snapshot(new, evidence)
  <2>. SUFFICES ASSUME r.list = "sources", NEW item \in r.items, progress[item] = 100
                PROVE  item.source.status = "PROCESSED"
    BY <1>4, <1>6 DEF Snapshot
  <2>1. SourceProgress(item) = 100
    BY <1>5
  <2>2. item.source.status = "PROCESSED" \/ \E run \in item.run : run.status = "SUCCEEDED"
    BY <2>1, Complete
  <2>. QED
    BY <1>4, <2>2 DEF Snapshot
<1>11. Reads(new, rows, evidence)
  BY <1>4, <1>6, <1>8, <1>9, <1>10 DEF Reads, Shaped
<1>12. Table(reader.list)' = rows /\ evidence' = evidence
  BY <1>3, <1>4, <1>6, <1>7 DEF Table, tables
<1>. QED
  BY <1>7, <1>11, <1>12 DEF ReaderInv

\* A source and its latest run say of each other what is so of all sources and runs.
LEMMA OneMoment ==
    ASSUME IInv, NEW row \in ToSet(sources)
    PROVE  /\ (\E run \in LatestRun(row.id) : run.status = "SUCCEEDED") => row.status = "PROCESSED"
           /\ row.status = "PROCESSED" => \E e \in ToSet(evidence) : e.source = row.id
<1>1. TableOK(sources, SourceRow) /\ RunsInv
  BY DEF IInv, TablesInv
<1>2. Done(row.id) => /\ row.status = "PROCESSED"
                      /\ \E e \in ToSet(evidence) : e.source = row.id
  BY <1>1 DEF Done, TableOK
<1>3. ASSUME NEW run \in LatestRun(row.id), run.status = "SUCCEEDED" PROVE Done(row.id)
  <2>1. run \in ToSet(runs) /\ run.source = row.id
    BY DEF LatestRun, ToSet
  <2>. QED
    BY <1>1, <1>3, <2>1 DEF RunsInv
<1>4. ASSUME row.status = "PROCESSED" PROVE Done(row.id)
  BY <1>1, <1>4 DEF RunsInv
<1>. QED
  BY <1>2, <1>3, <1>4

LEMMA RowsRead ==
    ASSUME IInv, UNCHANGED tables, ReaderInv, ReadRows
    PROVE  ReaderInv'
<1>1. reader.phase = "rows" /\ Reads(reader, Table(reader.list), evidence)
  BY DEF ReadRows, ReaderInv
<1>2. PICK r : r = reader
  OBVIOUS
<1>3. PICK rows : rows = Table(r.list)
  OBVIOUS
<1>4. /\ Shaped(r) /\ r.offset \in Nat /\ r.total \in Nat
      /\ r.list \in {"sources", "runs", "evidence"} /\ TablesInv
      /\ \A id \in r.owed : Behind(rows, r.study, id, r.offset)
  BY <1>1, <1>2, <1>3 DEF Reads, IInv
<1>5. PICK S : TableOK(rows, S)
  BY <1>3, <1>4, TableOf
<1>6. PICK page : page = Page(rows, r.study, r.offset)
  OBVIOUS
<1>7. PICK items, item :
        /\ item = [row \in page |-> IF r.list = "sources"
                                    THEN [id |-> row.id, source |-> row, run |-> LatestRun(row.id)]
                                    ELSE [id |-> row.id]]
        /\ items = {item[row] : row \in page}
  OBVIOUS
<1>8. PICK phase : phase = IF r.list = "evidence" THEN "total" ELSE "steps"
  OBVIOUS
<1>9. PICK new : new = [phase |-> phase, list |-> r.list, study |-> r.study, offset |-> r.offset,
                        total |-> r.total, items |-> items, progress |-> r.progress, owed |-> r.owed]
  OBVIOUS
<1>10. reader' = new
  <2>1. items = IF r.list = "sources"
                THEN {[id |-> row.id, source |-> row, run |-> LatestRun(row.id)] : row \in page}
                ELSE {[id |-> row.id] : row \in page}
    <3>1. CASE r.list = "sources"
      BY <1>7, <3>1
    <3>2. CASE r.list # "sources"
      BY <1>7, <3>2
    <3>. QED
      BY <3>1, <3>2
  <2>2. PICK mid : mid = [r EXCEPT !.items = items]
    OBVIOUS
  <2>3. mid = [phase |-> r.phase, list |-> r.list, study |-> r.study, offset |-> r.offset,
               total |-> r.total, items |-> items, progress |-> r.progress, owed |-> r.owed]
    BY <1>4, <2>2 DEF Shaped
  <2>4. reader' = [mid EXCEPT !.phase = phase]
    BY <1>2, <1>3, <1>6, <1>8, <2>1, <2>2 DEF ReadRows
  <2>. QED
    BY <1>9, <2>3, <2>4
<1>11. /\ item \in [page -> items] /\ \A x \in items : \E row \in page : x = item[row]
       /\ \A row \in page : item[row].id = row.id
  BY <1>7
<1>12. /\ IsFiniteSet(items) /\ Cardinality(items) = Cardinality(page)
       /\ ItemIds(items) = {row.id : row \in page}
  BY <1>4, <1>5, <1>6, <1>11, ItemsOfPage
<1>13. PageRead(new, rows)
  <2>1. /\ new.offset = r.offset /\ new.study = r.study /\ new.owed = r.owed /\ new.items = items
    BY <1>9
  <2>2. \A id \in r.owed : Behind(rows, new.study, id, new.offset)
    BY <1>4, <2>1
  <2>3. page = Page(rows, new.study, new.offset) /\ new.offset \in Nat
    BY <1>4, <1>6, <2>1
  <2>. QED
    BY <1>5, <1>12, <2>1, <2>2, <2>3, FreshPage
<1>14. TotalRead(new, rows)
  <2>1. /\ phase \in {"total", "steps"} /\ (phase = "total" => r.list = "evidence")
        /\ phase = "steps" => r.list # "evidence"
    BY <1>8
  <2>2. items # {} => r.offset + Cardinality(items) <= Total(rows, r.study)
    <3>1. items # {} => page # {}
      BY <1>7
    <3>. QED
      BY <1>4, <1>5, <1>6, <1>12, <3>1, PageSize
  <2>. QED
    BY <1>9, <2>1, <2>2 DEF TotalRead
<1>15. Snapshot(new, evidence)
  <2>. SUFFICES ASSUME r.list = "sources", NEW x \in items
                PROVE  /\ (\E run \in x.run : run.status = "SUCCEEDED") => x.source.status = "PROCESSED"
                       /\ x.source.status = "PROCESSED" => \E e \in ToSet(evidence) : e.source = x.id
    BY <1>8, <1>9 DEF Snapshot
  <2>1. PICK row \in page : x = item[row]
    BY <1>7
  <2>2. x.id = row.id /\ x.source = row /\ x.run = LatestRun(row.id)
    BY <1>7, <2>1
  <2>3. row \in ToSet(sources)
    BY <1>3, <1>6 DEF Page, OfStudy, Table, ToSet
  <2>. QED
    BY <2>2, <2>3, OneMoment
<1>16. Reads(new, rows, evidence)
  <2>1. phase \in {"total", "steps"}
    BY <1>8
  <2>. QED
    BY <1>4, <1>9, <1>13, <1>14, <1>15, <2>1 DEF Reads, Shaped
<1>17. Table(reader.list)' = rows /\ evidence' = evidence
  BY <1>3, <1>4, <1>9, <1>10 DEF Table, tables
<1>. QED
  BY <1>10, <1>16, <1>17 DEF ReaderInv

LEMMA PageTurned ==
    ASSUME IInv, UNCHANGED tables, ReaderInv, TurnPage
    PROVE  ReaderInv'
<1>1. reader.phase = "answered" /\ Reads(reader, Table(reader.list), evidence)
  BY DEF TurnPage, ReaderInv
<1>2. PICK r : r = reader
  OBVIOUS
<1>3. PICK rows : rows = Table(r.list)
  OBVIOUS
<1>4. /\ Shaped(r) /\ r.offset \in Nat /\ r.total \in Nat /\ r.phase = "answered"
      /\ r.list \in {"sources", "runs", "evidence"}
      /\ PageRead(r, rows) /\ TotalRead(r, rows)
  BY <1>1, <1>2, <1>3 DEF Reads
<1>5. PICK n \in Nat : n = Cardinality(r.items)
  BY <1>4, FS_CardinalityType DEF PageRead
<1>6. n <= PageLimit /\ PageLimit \in Nat
  BY <1>4, <1>5, PageAssumption DEF PageRead
<1>7. PICK owed : owed = Missed(r)
  OBVIOUS
<1>8. PICK last \in BOOLEAN : last <=> n < PageLimit \/ (r.list = "evidence" /\ r.offset + n >= r.total)
  OBVIOUS
<1>9. reader' = IF last THEN [phase |-> "done", owed |-> owed]
                ELSE [r EXCEPT !.owed = owed, !.offset = r.offset + n, !.phase = "rows",
                               !.items = {}, !.progress = << >>, !.total = 0]
  BY <1>2, <1>5, <1>7, <1>8 DEF TurnPage, Missed, ItemIds
<1>10. owed # {} => n = PageLimit /\ (r.list = "evidence" => r.offset + n < r.total)
  BY <1>4, <1>5, <1>7 DEF PageRead, TotalRead
<1>11. CASE last
  <2>1. owed = {}
    BY <1>4, <1>6, <1>8, <1>10, <1>11
  <2>2. reader' = [phase |-> "done", owed |-> {}]
    BY <1>9, <1>11, <2>1
  <2>. QED
    BY <2>2 DEF ReaderInv
<1>12. CASE ~last
  <2>1. n = PageLimit
    BY <1>6, <1>8, <1>12
  <2>2. PICK offset \in Nat : offset = r.offset + n
    BY <1>4
  <2>a. PICK none : none = << >>
    OBVIOUS
  <2>3. PICK new : new = [phase |-> "rows", list |-> r.list, study |-> r.study, offset |-> offset,
                          total |-> 0, items |-> {}, progress |-> none, owed |-> owed]
    OBVIOUS
  <2>4. reader' = new
    <3>1. PICK a : a = [r EXCEPT !.owed = owed]
      OBVIOUS
    <3>2. PICK b : b = [a EXCEPT !.offset = offset]
      OBVIOUS
    <3>3. PICK c : c = [b EXCEPT !.phase = "rows"]
      OBVIOUS
    <3>4. PICK d : d = [c EXCEPT !.items = {}]
      OBVIOUS
    <3>5. PICK e : e = [d EXCEPT !.progress = none]
      OBVIOUS
    <3>6. reader' = [e EXCEPT !.total = 0]
      BY <1>9, <1>12, <2>2, <2>a, <3>1, <3>2, <3>3, <3>4, <3>5
    <3>7. a = [phase |-> r.phase, list |-> r.list, study |-> r.study, offset |-> r.offset,
               total |-> r.total, items |-> r.items, progress |-> r.progress, owed |-> owed]
      BY <1>4, <3>1 DEF Shaped
    <3>8. b = [phase |-> r.phase, list |-> r.list, study |-> r.study, offset |-> offset,
               total |-> r.total, items |-> r.items, progress |-> r.progress, owed |-> owed]
      BY <3>2, <3>7
    <3>9. c = [phase |-> "rows", list |-> r.list, study |-> r.study, offset |-> offset,
               total |-> r.total, items |-> r.items, progress |-> r.progress, owed |-> owed]
      BY <3>3, <3>8
    <3>10. d = [phase |-> "rows", list |-> r.list, study |-> r.study, offset |-> offset,
                total |-> r.total, items |-> {}, progress |-> r.progress, owed |-> owed]
      BY <3>4, <3>9
    <3>11. e = [phase |-> "rows", list |-> r.list, study |-> r.study, offset |-> offset,
                total |-> r.total, items |-> {}, progress |-> none, owed |-> owed]
      BY <3>5, <3>10
    <3>12. [e EXCEPT !.total = 0] =
              [phase |-> "rows", list |-> r.list, study |-> r.study, offset |-> offset,
               total |-> 0, items |-> {}, progress |-> none, owed |-> owed]
      BY <3>11
    <3>. QED
      BY <2>3, <3>6, <3>12
  <2>5. \A id \in owed : Behind(rows, r.study, id, offset)
    BY <1>4, <1>7, <2>1, <2>2 DEF PageRead
  <2>6. Reads(new, rows, evidence)
    BY <1>4, <2>3, <2>5 DEF Reads, Shaped
  <2>7. Table(reader.list)' = rows /\ evidence' = evidence
    BY <1>3, <1>4, <2>3, <2>4 DEF Table, tables
  <2>. QED
    BY <2>4, <2>6, <2>7 DEF ReaderInv
<1>. QED
  BY <1>11, <1>12

LEMMA EveryStepReads == IInv /\ IInv' /\ ReaderInv /\ [Next]_vars => ReaderInv'
<1>. SUFFICES ASSUME IInv, IInv', ReaderInv, [Next]_vars PROVE ReaderInv'
  OBVIOUS
<1>1. TablesGrow
  BY EveryStepGrows
<1>2. CASE Reading
  <2>1. UNCHANGED tables
    BY <1>2 DEF Reading
  <2>. QED
    BY <1>2, <2>1, StartReads, TotalReads, RowsRead, StepsReads, PageTurned DEF Reading, Read
<1>3. CASE UNCHANGED reader
  BY <1>1, <1>3, ReaderWaits
<1>4. CASE Script \/ Die \/ (\E forced \in BOOLEAN : Start(forced)) \/ UNCHANGED vars
  <2>1. UNCHANGED reader
    BY <1>4 DEF Script, Resume, Discover, CreateStudy, Upload, Process, SkipFixture, StudyCreated,
                Uploaded, Processed, Save, Summarize, Send, Answered, Unserved, Die, Start, vars
  <2>. QED
    BY <1>3, <2>1
<1>5. CASE Api
  <2>1. UNCHANGED reader
    BY <1>5 DEF Api, ServeCreate, ServeUpload, ServeProcess, Publish, FailRun, ApiStops, OtherStudy, Elsewhere
  <2>. QED
    BY <1>3, <2>1
<1>. QED
  BY <1>2, <1>4, <1>5 DEF Next

\* A client that goes through a list while others add to it has seen, at its end, every row
\* there was when it began; a page of evidence has no more rows than its total; a source is
\* shown as complete only if its evidence is there: for any length of pages and lists, and
\* however many rows overtake each other before their commits.
THEOREM ListsHold == Spec => []ListsAreHonest
<1>1. Init => ReaderInv
  BY DEF Init, ReadInit, Idle, ReaderInv
<1>2. ReaderInv => ListsAreHonest
  <2>. SUFFICES ASSUME ReaderInv PROVE ListsAreHonest
    OBVIOUS
  <2>1. reader.phase = "done" => reader.owed = {}
    BY DEF ReaderInv, Reads
  <2>2. ASSUME reader.phase = "answered"
        PROVE  TotalRead(reader, Table(reader.list)) /\ Snapshot(reader, evidence)
    BY <2>2 DEF ReaderInv, Reads
  <2>. QED
    BY <2>1, <2>2 DEF ListsAreHonest, TotalRead, Snapshot
<1>3. Spec => []ReaderInv
  BY <1>1, EveryStepReads, TypesHold, PTL DEF Spec
<1>. QED
  BY <1>2, <1>3, PTL

=============================================================================
