--------------------------- MODULE RegistryProofs ---------------------------
(***************************************************************************)
(* One spreadsheet never creates two records with the same key, and no     *)
(* handler writes a record of another tenant, for any number of tenants,   *)
(* imports and requests, and spreadsheets of any size.  Where imports run  *)
(* one after the other, the last row of a document wins, nothing is        *)
(* duplicated, and importing again changes nothing.                        *)
(***************************************************************************)
EXTENDS Registry, FiniteSetTheorems, WellFoundedInduction, TLAPS

-----------------------------------------------------------------------------
(* The inductive invariant                                                 *)

\* An import in the middle of a row is at a row of its spreadsheet.
AtRow(j) == phase[j] \in {"find", "write"} => row[j] \in 1..Len(sheet[j])

\* A request that is about to write has its body.
HasBody(q) == phase[q] \in {"create", "update"} => draft[q] \in Bodies

\* Ids are handed out once.
IdsUnique ==
  /\ \A c \in table : c.id \in 1..made
  /\ \A c, d \in table : c.id = d.id => c = d

\* Only a request that was asked for an update, and has found its record,
\* may be about to write one.
EditsShow ==
  \A q \in Requests :
    /\ phase[q] = "idle" => draft[q] = NoBody
    /\ phase[q] = "update" => draft[q] # NoBody /\ hit[q] # 0

\* Would record c and a record made from row r have the same key?
Clashes(c, r) ==
  IF KeyedBy = "name" THEN c.name = r.name
  ELSE c.doc = r.doc /\ (r.doc = Null => c.name = r.name)

\* Writing row r over record c leaves the key of c alone.
KeepsKey(c, r) ==
  IF KeyedBy = "name" THEN c.name = r.name
  ELSE /\ r.doc # Null => c.doc = r.doc
       /\ r.doc = Null /\ c.doc = Null => c.name = r.name

\* What the first query of a row has established still holds when the row is
\* written, as far as the import's own records are concerned.
QueryHolds(j) ==
  phase[j] = "write" =>
    /\ hit[j] = 0 =>
         \A c \in table : c.by = j => ~Clashes(c, Row(j))
    /\ hit[j] # 0 =>
         /\ hit[j] <= made
         /\ \A c \in table : c.id = hit[j] => KeepsKey(c, Row(j))

OwnRecords == \A c \in table : c.by \in Jobs => c.tenant = owner[c.by]

KeyInv ==
  /\ IdsUnique
  /\ EditsShow
  /\ OwnRecords
  /\ ~Edited => /\ JobNeverDuplicates
                /\ \A j \in Jobs : QueryHolds(j)

-----------------------------------------------------------------------------
(* Type correctness                                                        *)

\* A job that queries or writes is at a row of its spreadsheet.
LEMMA RowInSheet ==
  ASSUME TypeOK, NEW j \in Jobs, AtRow(j), phase[j] \in {"find", "write"}
  PROVE  Row(j) \in Rows
BY DEF TypeOK, AtRow, Row, Handlers

\* customers.service.ts:90, carriers.service.ts:79: what trim() returns has no
\* blanks in front.
LEMMA TrimTyped ==
  ASSUME NEW d \in Documents \union {Null}
  PROVE  Trim(d) \in Stored
BY ShapeAssumption DEF Trim, Stored, Documents, Null

\* import.worker.ts:232-238: neither has a document of a spreadsheet.
LEMMA RowDocTyped ==
  ASSUME NEW r \in Rows
  PROVE  /\ r.name \in Names
         /\ r.doc \in Stored
<1>1. \A d \in Documents : DigitsOnly(d) \in Stored
  BY ShapeAssumption DEF Documents, DigitsOnly, Stored
<1>2. QED
  BY <1>1 DEF Rows, Stored

\* Every variable keeps its type; in particular no document is stored with
\* the blanks it was typed with.
THEOREM RegistryTypeCorrect ==
  Spec => [](TypeOK /\ (\A j \in Jobs : AtRow(j))
                    /\ (\A q \in Requests : HasBody(q)))
<1> DEFINE Inv == TypeOK /\ (\A j \in Jobs : AtRow(j))
                         /\ (\A q \in Requests : HasBody(q))
<1>1. Init => Inv
  <2> SUFFICES ASSUME Init PROVE Inv
    OBVIOUS
  <2>1. sheet \in [Jobs -> Seq(Rows) \ {<< >>}]
    <3>1. ASSUME NEW n \in 1..MaxRows, NEW f \in [1..n -> Rows]
          PROVE  f \in Seq(Rows) \ {<< >>}
      BY ShapeAssumption
    <3>2. UNION {[1..n -> Rows] : n \in 1..MaxRows} \subseteq Seq(Rows) \ {<< >>}
      BY <3>1
    <3>3. QED
      BY <3>2 DEF Init
  <2>2. QED
    BY <2>1 DEF Init, TypeOK, AtRow, HasBody, Handlers
<1>2. Inv /\ [Next]_vars => Inv'
  <2> SUFFICES ASSUME Inv, [Next]_vars
               PROVE  Inv'
    OBVIOUS
  <2> USE DEF TypeOK, AtRow, HasBody, Handlers
  <2> USE ShapeAssumption
  <2>1. ASSUME NEW j \in Jobs, Start(j)
        PROVE  Inv'
    <3>1. Len(sheet[j]) \in Nat \ {0}
      OBVIOUS
    <3>2. 1 \in 1..Len(sheet[j])
      BY <3>1
    <3>3. QED
      BY <2>1, <3>2 DEF Start, Goto
  <2>2. ASSUME NEW j \in Jobs, FindRow(j)
        PROVE  Inv'
    BY <2>2 DEF FindRow, Goto
  <2>3. ASSUME NEW j \in Jobs, WriteRow(j)
        PROVE  Inv'
    <3>1. Row(j) \in Rows
      BY <2>3, RowInSheet DEF WriteRow
    <3>2. table' \subseteq Records /\ made' \in Nat
      <4>1. CASE Insert(j, Row(j).name, Row(j).doc)
        BY <3>1, <4>1, RowDocTyped DEF Insert, Fresh, Records
      <4>2. ASSUME NEW c \in table,
                   table' = (table \ {c}) \union {Upserted(c, Row(j))},
                   made' = made
            PROVE  table' \subseteq Records /\ made' \in Nat
        BY <3>1, <4>2, RowDocTyped DEF Upserted, Records
      <4>3. QED
        BY <2>3, <4>1, <4>2 DEF WriteRow
    <3>3. Len(sheet[j]) \in Nat /\ row[j] \in 1..Len(sheet[j])
      BY <2>3 DEF WriteRow
    <3>4. phase' = [phase EXCEPT ![j] = IF Ends(j) THEN "idle" ELSE "find"]
          /\ row' = [row EXCEPT ![j] = @ + 1]
          /\ UNCHANGED <<owner, sheet, hit, draft, runs>>
      BY <2>3 DEF WriteRow, Goto
    <3>5. \A k \in Jobs : AtRow(k)'
      BY <3>3, <3>4 DEF Ends
    <3>6. \A k \in Jobs : last'[k] \subseteq Records
      BY <2>3, <3>2 DEF WriteRow
    <3>7. QED
      BY <3>2, <3>4, <3>5, <3>6
  <2>4. ASSUME NEW j \in Jobs, RowIsGone(j)
        PROVE  Inv'
    BY <2>4 DEF RowIsGone, Goto
  <2>5. ASSUME NEW j \in Jobs, Interrupted(j)
        PROVE  Inv'
    BY <2>5 DEF Interrupted, Goto
  <2>6. ASSUME NEW q \in Requests, NEW b \in Bodies, AskCreate(q, b)
        PROVE  Inv'
    BY <2>6 DEF AskCreate, Goto, beyondApi
  <2>7. ASSUME NEW q \in Requests, NEW b \in Bodies, AskUpdate(q, b)
        PROVE  Inv'
    BY <2>7 DEF AskUpdate, Goto, beyondApi, Own, Records
  <2>8. ASSUME NEW q \in Requests, AskRemove(q)
        PROVE  Inv'
    BY ZenonT(30), <2>8 DEF AskRemove, Goto, beyondApi, Own, Records
  <2>9. ASSUME NEW q \in Requests, RecordIsGone(q)
        PROVE  Inv'
    BY <2>9 DEF RecordIsGone, Goto, beyondApi
  <2>10. ASSUME NEW q \in Requests, Answer(q)
        PROVE  Inv'
    <3>1. table' \subseteq Records /\ made' \in Nat
      <4>1. CASE phase[q] = "create" /\ Insert(q, draft[q].name, Trim(draft[q].doc))
        BY <4>1, TrimTyped DEF Insert, Fresh, Records, Bodies
      <4>2. ASSUME NEW c \in table, phase[q] = "update",
                   table' = (table \ {c}) \union {Changed(c, q)}, made' = made
            PROVE  table' \subseteq Records /\ made' \in Nat
        <5>1. draft[q] \in Bodies /\ c \in Records
          BY <4>2
        <5>2. Trim(draft[q].doc) \in Stored
          BY <5>1, TrimTyped DEF Bodies
        <5>3. Changed(c, q) \in Records
          BY <5>1, <5>2 DEF Changed, Records, Bodies
        <5>4. QED
          BY <4>2, <5>3
      <4>3. ASSUME NEW c \in table, table' = table \ {c}, made' = made
            PROVE  table' \subseteq Records /\ made' \in Nat
        BY <4>3
      <4>4. QED
        BY <2>10, <4>1, <4>2, <4>3 DEF Answer
    <3>2. QED
      BY <2>10, <3>1 DEF Answer, Goto, beyondApi
  <2>11. CASE UNCHANGED vars
    BY <2>11 DEF vars
  <2>12. QED
    BY <2>1, <2>2, <2>3, <2>4, <2>5, <2>6, <2>7, <2>8, <2>9, <2>10, <2>11
       DEF Next
<1>3. QED
  BY <1>1, <1>2, PTL DEF Spec

-----------------------------------------------------------------------------
(* Writes that leave the keys alone                                        *)

\* Records e and d are the same record, with the same key.
Alike(e, d) ==
  /\ e.id = d.id /\ e.by = d.by /\ e.tenant = d.tenant
  /\ IF KeyedBy = "name" THEN e.name = d.name
     ELSE e.doc = d.doc /\ (d.doc = Null => e.name = d.name)

\* import.worker.ts:248-256: an upsert of a row that keeps the key of the record
\* it found changes neither the record's identity nor its key.
LEMMA UpsertedAlike ==
  ASSUME NEW c \in Records, NEW r \in Rows, KeepsKey(c, r)
  PROVE  Alike(Upserted(c, r), c)
BY DEF Alike, Upserted, KeepsKey, Records

\* What the invariant says of the records, given that every record of the
\* new table is one of the old, with its key.
LEMMA AlikeTables ==
  ASSUME NEW S, NEW T, \A e \in T : \E d \in S : Alike(e, d),
         \A c, d \in T : c.id = d.id => c = d
  PROVE  /\ (\A c, d \in S : c.by \in Jobs /\ c.by = d.by /\ SameKey(c, d) => c = d)
            => \A c, d \in T : c.by \in Jobs /\ c.by = d.by /\ SameKey(c, d) => c = d
         /\ \A j, r : (\A c \in S : c.by = j => ~Clashes(c, r))
            => \A c \in T : c.by = j => ~Clashes(c, r)
         /\ \A n, r : (\A c \in S : c.id = n => KeepsKey(c, r))
            => \A c \in T : c.id = n => KeepsKey(c, r)
<1>1. ASSUME \A c, d \in S : c.by \in Jobs /\ c.by = d.by /\ SameKey(c, d) => c = d,
             NEW e \in T, NEW f \in T,
             e.by \in Jobs, e.by = f.by, SameKey(e, f)
      PROVE  e = f
  <2>1. PICK c \in S : Alike(e, c)
    OBVIOUS
  <2>2. PICK d \in S : Alike(f, d)
    OBVIOUS
  <2>3. SameKey(c, d)
    BY <1>1, <2>1, <2>2 DEF Alike, SameKey
  <2>4. c = d
    BY <1>1, <2>1, <2>2, <2>3 DEF Alike
  <2>5. QED
    BY <2>1, <2>2, <2>4 DEF Alike
<1>2. ASSUME NEW j, NEW r, \A c \in S : c.by = j => ~Clashes(c, r),
             NEW e \in T, e.by = j
      PROVE  ~Clashes(e, r)
  <2>1. PICK c \in S : Alike(e, c)
    OBVIOUS
  <2>2. QED
    BY <1>2, <2>1 DEF Alike, Clashes
<1>3. ASSUME NEW n, NEW r, \A c \in S : c.id = n => KeepsKey(c, r),
             NEW e \in T, e.id = n
      PROVE  KeepsKey(e, r)
  <2>1. PICK c \in S : Alike(e, c)
    OBVIOUS
  <2>2. QED
    BY <1>3, <2>1 DEF Alike, KeepsKey
<1>4. QED
  BY <1>1, <1>2, <1>3

-----------------------------------------------------------------------------
(* The invariant holds                                                     *)

Typed == TypeOK /\ (\A j \in Jobs : AtRow(j)) /\ (\A q \in Requests : HasBody(q))

\* The body of a request is never the absent one.
LEMMA BodyIsThere == \A b \in Bodies : b # NoBody
<1>1. \A b \in Bodies : b.sets # {}
  BY DEF Bodies
<1>2. QED
  BY <1>1 DEF NoBody

\* customers.service.ts:110-150: once a request has asked to edit a record,
\* this is so for good, since a request is made only once.
LEMMA EditedStays ==
  ASSUME Typed, EditsShow, Next
  PROVE  Edited => Edited'
<1> SUFFICES ASSUME NEW p \in Requests, draft[p] # NoBody, hit[p] # 0
             PROVE  Edited'
  BY DEF Edited
<1>1. phase[p] # "idle"
  BY DEF EditsShow
<1>2. draft'[p] = draft[p] /\ hit'[p] = hit[p]
  BY <1>1, ShapeAssumption
  DEF Next, Start, FindRow, WriteRow, RowIsGone, Interrupted, AskCreate, AskUpdate,
      AskRemove, RecordIsGone, Answer, beyondApi, Typed, TypeOK, Handlers
<1>3. QED
  BY <1>2 DEF Edited

\* import.worker.ts:240-262 and 289-329: whatever comes between the query of a
\* row and its write, the write gives no two records of one import one key.
THEOREM KeyInvariance == Spec => []KeyInv
<1>1. Init => KeyInv
  BY DEF Init, KeyInv, IdsUnique, EditsShow, OwnRecords, JobNeverDuplicates,
         QueryHolds, Handlers
<1>2. Typed /\ Typed' /\ KeyInv /\ [Next]_vars => KeyInv'
  <2> SUFFICES ASSUME Typed, Typed', KeyInv, Next
               PROVE  KeyInv'
    BY DEF vars, KeyInv, IdsUnique, EditsShow, OwnRecords, Edited,
           JobNeverDuplicates, QueryHolds, Row
  <2> USE ShapeAssumption
  <2> DEFINE Unique(S) ==
        \A c, d \in S : c.by \in Jobs /\ c.by = d.by /\ SameKey(c, d) => c = d
  <2>a. IdsUnique /\ EditsShow /\ OwnRecords
    BY DEF KeyInv
  <2>b. ~Edited' => ~Edited
    BY <2>a, EditedStays
  <2>c. ASSUME ~Edited'
        PROVE  Unique(table) /\ \A j \in Jobs : QueryHolds(j)
    BY <2>b, <2>c DEF KeyInv, JobNeverDuplicates
  <2>d. /\ table \subseteq Records /\ made \in Nat
        /\ \A j \in Jobs : hit[j] \in Nat
        /\ \A j \in Jobs : phase[j] = "write" => Row(j) \in Rows
    BY RowInSheet DEF Typed, TypeOK, Handlers
  <2>1. ASSUME NEW j \in Jobs, Start(j)
        PROVE  KeyInv'
    BY <2>1 DEF Start, Goto, KeyInv, IdsUnique, EditsShow, OwnRecords, Edited,
       JobNeverDuplicates, QueryHolds, Row, Typed, TypeOK, Handlers
  <2>2. ASSUME NEW j \in Jobs, FindRow(j)
        PROVE  KeyInv'
    <3>1. IdsUnique' /\ OwnRecords' /\ EditsShow'
      BY <2>2, <2>a DEF FindRow, Goto, IdsUnique, EditsShow, OwnRecords, Typed,
         TypeOK, Handlers
    <3>2. ASSUME ~Edited', NEW k \in Jobs
          PROVE  QueryHolds(k)'
      <4>1. /\ phase' = [phase EXCEPT ![j] = "write"]
            /\ UNCHANGED <<table, made, owner, sheet, row>>
        BY <2>2 DEF FindRow, Goto
      <4>2. PICK id \in 0..made : Found(j, id) /\ hit' = [hit EXCEPT ![j] = id]
        BY <2>2 DEF FindRow
      <4>3. CASE k # j
        BY <2>c, <3>2, <4>1, <4>2, <4>3 DEF QueryHolds, Row, Typed, TypeOK, Handlers
      <4>4. CASE k = j
        <5>1. Row(j)' = Row(j) /\ hit'[j] = id
          BY <4>1, <4>2 DEF Row, Typed, TypeOK, Handlers
        <5>2. ASSUME id = 0, NEW c \in table, c.by = j
              PROVE  ~Clashes(c, Row(j))
          <6>1. c \in Own(j)
            BY <2>a, <5>2 DEF OwnRecords, Own
          <6>2. ~Matches(c, Row(j))
            BY <2>d, <4>2, <5>2, <6>1 DEF Found, Own, Records
          <6>3. QED
            BY <6>2 DEF Matches, Clashes
        <5>3. ASSUME id # 0, NEW c \in table, c.id = id
              PROVE  KeepsKey(c, Row(j))
          <6>1. Matches(c, Row(j))
            BY <2>a, <4>2, <5>3 DEF Found, Own, IdsUnique
          <6>2. QED
            BY <6>1 DEF Matches, KeepsKey
        <5>4. QED
          BY <2>d, <4>1, <4>4, <5>1, <5>2, <5>3 DEF QueryHolds
      <4>5. QED
        BY <4>3, <4>4
    <3>3. QED
      BY <2>2, <2>c, <3>1, <3>2 DEF FindRow, KeyInv, JobNeverDuplicates
  <2>3. ASSUME NEW j \in Jobs, WriteRow(j)
        PROVE  KeyInv'
    <3>1. /\ phase[j] = "write"
          /\ phase' = [phase EXCEPT ![j] = IF Ends(j) THEN "idle" ELSE "find"]
          /\ row' = [row EXCEPT ![j] = @ + 1]
          /\ UNCHANGED <<owner, sheet, hit, draft, runs>>
      BY <2>3 DEF WriteRow, Goto
    <3>2. EditsShow' /\ (Edited' <=> Edited)
      BY <2>a, <3>1 DEF EditsShow, Edited, Typed, TypeOK, Handlers
    <3>3. \A k \in Jobs : /\ phase'[k] = "write" => k # j /\ phase[k] = "write"
                          /\ k # j => Row(k)' = Row(k)
      BY <3>1 DEF Row, Typed, TypeOK, Handlers
    <3>4. CASE hit[j] = 0 /\ Insert(j, Row(j).name, Row(j).doc)
      <4> DEFINE f == Fresh(j, Row(j).name, Row(j).doc)
      <4>1. /\ table' = table \union {f} /\ made' = made + 1
            /\ f.id = made + 1 /\ f.by = j /\ f.tenant = owner[j]
            /\ f.name = Row(j).name /\ f.doc = Row(j).doc
        BY <3>4 DEF Insert, Fresh
      <4> HIDE DEF f
      <4>2. IdsUnique'
        BY <2>a, <2>d, <4>1 DEF IdsUnique
      <4>3. OwnRecords'
        BY <2>a, <3>1, <4>1 DEF OwnRecords
      <4>4. ASSUME ~Edited'
            PROVE  JobNeverDuplicates'
        <5>1. \A c \in table : c.by = j => ~Clashes(c, Row(j))
          BY <2>c, <3>1, <3>4, <4>4 DEF QueryHolds
        <5>2. \A c \in table : c.by = j => ~SameKey(c, f) /\ ~SameKey(f, c)
          BY <4>1, <5>1 DEF SameKey, Clashes
        <5>3. QED
          BY <2>c, <4>1, <4>4, <5>2 DEF JobNeverDuplicates
      <4>5. ASSUME ~Edited', NEW k \in Jobs, phase'[k] = "write"
            PROVE  QueryHolds(k)'
        BY <2>c, <2>d, <3>1, <3>3, <4>1, <4>5 DEF QueryHolds
      <4>6. QED
        BY <3>2, <4>2, <4>3, <4>4, <4>5 DEF KeyInv, QueryHolds
    <3>5. ASSUME NEW c \in table, c.id = hit[j], hit[j] # 0,
                 table' = (table \ {c}) \union {Upserted(c, Row(j))}, made' = made
          PROVE  KeyInv'
      <4> DEFINE u == Upserted(c, Row(j))
      <4>1. u.id = c.id /\ u.by = c.by /\ u.tenant = c.tenant
        BY <2>d, <3>1 DEF Upserted, Records
      <4>2. ~Edited' => Alike(u, c)
        <5>1. ~Edited' => KeepsKey(c, Row(j))
          BY <2>c, <3>1, <3>5 DEF QueryHolds
        <5>2. QED
          BY <2>d, <3>1, <5>1, UpsertedAlike
      <4> HIDE DEF u
      <4>3. table' = (table \ {c}) \union {u}
        BY <3>5 DEF u
      <4>4. IdsUnique'
        BY <2>a, <3>5, <4>1, <4>3 DEF IdsUnique
      <4>5. OwnRecords'
        BY <2>a, <3>1, <3>5, <4>1, <4>3 DEF OwnRecords
      <4>6. ~Edited' => \A e \in table' : \E d \in table : Alike(e, d)
        BY <4>2, <4>3 DEF Alike
      <4>7. ASSUME ~Edited'
            PROVE  /\ Unique(table')
                   /\ \A k \in Jobs : phase'[k] = "write" => QueryHolds(k)'
        <5>1. /\ \A e \in table' : \E d \in table : Alike(e, d)
              /\ \A d, e \in table' : d.id = e.id => d = e
          BY <4>4, <4>6, <4>7 DEF IdsUnique
        <5>2. Unique(table')
          BY <2>c, <4>7, <5>1, AlikeTables
        <5>3. ASSUME NEW k \in Jobs, phase'[k] = "write"
              PROVE  QueryHolds(k)'
          <6>1. /\ phase[k] = "write" /\ Row(k)' = Row(k) /\ hit'[k] = hit[k]
                /\ QueryHolds(k) /\ made' = made
            BY <2>c, <3>1, <3>3, <3>5, <4>7, <5>3
          <6> DEFINE r == Row(k)
          <6>2. hit[k] = 0 => \A d \in table' : d.by = k => ~Clashes(d, r)
            <7>1. hit[k] = 0 => \A d \in table : d.by = k => ~Clashes(d, r)
              BY <6>1 DEF QueryHolds
            <7>2. \A x, s : (\A d \in table : d.by = x => ~Clashes(d, s))
                     => \A d \in table' : d.by = x => ~Clashes(d, s)
              BY ZenonT(30), <5>1, AlikeTables
            <7> HIDE DEF r
            <7>3. QED
              BY <7>1, <7>2
          <6>3. hit[k] # 0 => \A d \in table' : d.id = hit[k] => KeepsKey(d, r)
            <7>1. hit[k] # 0 => \A d \in table : d.id = hit[k] => KeepsKey(d, r)
              BY <6>1 DEF QueryHolds
            <7>2. \A x, s : (\A d \in table : d.id = x => KeepsKey(d, s))
                     => \A d \in table' : d.id = x => KeepsKey(d, s)
              BY ZenonT(30), <5>1, AlikeTables
            <7> HIDE DEF r
            <7>3. QED
              BY <7>1, <7>2
          <6>4. QED
            BY <6>1, <6>2, <6>3 DEF QueryHolds
        <5>4. QED
          BY <5>2, <5>3
      <4>8. QED
        BY <3>2, <4>4, <4>5, <4>7 DEF KeyInv, QueryHolds, JobNeverDuplicates
    <3>6. QED
      BY <2>3, <2>a, <2>d, <3>4, <3>5 DEF WriteRow, IdsUnique
  <2>4. ASSUME NEW j \in Jobs, RowIsGone(j)
        PROVE  KeyInv'
    BY <2>4 DEF RowIsGone, Goto, KeyInv, IdsUnique, EditsShow, OwnRecords,
       Edited, JobNeverDuplicates, QueryHolds, Row, Typed, TypeOK, Handlers
  <2>5. ASSUME NEW j \in Jobs, Interrupted(j)
        PROVE  KeyInv'
    BY <2>5 DEF Interrupted, Goto, KeyInv, IdsUnique, EditsShow, OwnRecords,
       Edited, JobNeverDuplicates, QueryHolds, Row, Typed, TypeOK, Handlers
  <2>6. ASSUME NEW q \in Requests, UNCHANGED <<table, made, owner, sheet, row>>,
               \A j \in Jobs : phase'[j] = phase[j] /\ hit'[j] = hit[j],
               EditsShow'
        PROVE  KeyInv'
    BY <2>6, <2>a, <2>c DEF KeyInv, IdsUnique, OwnRecords, QueryHolds,
       JobNeverDuplicates, Row
  <2>7. ASSUME NEW q \in Requests, NEW b \in Bodies,
               AskCreate(q, b) \/ AskUpdate(q, b)
        PROVE  KeyInv'
    <3>1. EditsShow'
      <4>1. CASE AskCreate(q, b)
        BY <4>1, <2>a DEF AskCreate, Goto, EditsShow, Typed, TypeOK, Handlers
      <4>2. CASE AskUpdate(q, b)
        <5>1. phase' = [phase EXCEPT ![q] = "update"]
              /\ draft' = [draft EXCEPT ![q] = b]
          BY <4>2 DEF AskUpdate, Goto
        <5>2. PICK c \in table : hit' = [hit EXCEPT ![q] = c.id]
          BY <4>2 DEF AskUpdate, Own
        <5>3. c.id # 0
          BY <2>d DEF Records
        <5>4. QED
          BY <2>a, <5>1, <5>2, <5>3, BodyIsThere
          DEF EditsShow, Typed, TypeOK, Handlers
      <4>3. QED
        BY <2>7, <4>1, <4>2
    <3>2. QED
      BY <2>6, <2>7, <3>1 DEF AskCreate, AskUpdate, Goto, beyondApi, Typed,
         TypeOK, Handlers
  <2>8. ASSUME NEW q \in Requests, AskRemove(q) \/ RecordIsGone(q)
        PROVE  KeyInv'
    <3>1. EditsShow'
      BY <2>8, <2>a DEF AskRemove, RecordIsGone, Goto, EditsShow, Typed, TypeOK,
         Handlers
    <3>2. QED
      BY <2>6, <2>8, <3>1 DEF AskRemove, RecordIsGone, Goto, beyondApi, Typed,
         TypeOK, Handlers
  <2>9. ASSUME NEW q \in Requests, Answer(q)
        PROVE  KeyInv'
    <3>1. /\ phase' = [phase EXCEPT ![q] = "done"]
          /\ UNCHANGED <<owner, sheet, row, draft, runs, hit>>
      BY <2>9 DEF Answer, Goto, beyondApi
    <3>2. EditsShow' /\ (Edited' <=> Edited)
      BY <2>a, <3>1 DEF EditsShow, Edited, Typed, TypeOK, Handlers
    <3>3. \A k \in Jobs : phase'[k] = phase[k] /\ Row(k)' = Row(k)
      BY <3>1 DEF Row, Typed, TypeOK, Handlers
    <3>4. CASE Insert(q, draft[q].name, Trim(draft[q].doc))
      <4> DEFINE f == Fresh(q, draft[q].name, Trim(draft[q].doc))
      <4>1. /\ table' = table \union {f} /\ made' = made + 1
            /\ f.id = made + 1 /\ f.by = q /\ q \notin Jobs
        BY <3>4 DEF Insert, Fresh
      <4> HIDE DEF f
      <4>2. IdsUnique'
        BY <2>a, <2>d, <4>1 DEF IdsUnique
      <4>3. OwnRecords'
        BY <2>a, <3>1, <4>1 DEF OwnRecords
      <4>4. ASSUME ~Edited'
            PROVE  JobNeverDuplicates' /\ \A k \in Jobs : QueryHolds(k)'
        BY <2>c, <2>d, <3>1, <3>3, <4>1, <4>4 DEF JobNeverDuplicates, QueryHolds
      <4>5. QED
        BY <3>2, <4>2, <4>3, <4>4 DEF KeyInv
    <3>5. ASSUME NEW c \in table, phase[q] = "update",
                 table' = (table \ {c}) \union {Changed(c, q)}, made' = made
          PROVE  KeyInv'
      <4>1. Edited'
        BY <2>a, <3>2, <3>5 DEF EditsShow, Edited
      <4> DEFINE u == Changed(c, q)
      <4>2. u.id = c.id /\ u.by = c.by /\ u.tenant = c.tenant
        BY <2>d DEF Changed, Records
      <4> HIDE DEF u
      <4>3. table' = (table \ {c}) \union {u}
        BY <3>5 DEF u
      <4>4. IdsUnique'
        BY <2>a, <3>5, <4>2, <4>3 DEF IdsUnique
      <4>5. OwnRecords'
        BY <2>a, <3>1, <4>2, <4>3 DEF OwnRecords
      <4>6. QED
        BY <3>2, <4>1, <4>4, <4>5 DEF KeyInv
    <3>6. ASSUME NEW c \in table, table' = table \ {c}, made' = made
          PROVE  KeyInv'
      BY <2>a, <2>c, <3>1, <3>2, <3>3, <3>6 DEF KeyInv, IdsUnique, OwnRecords,
         JobNeverDuplicates, QueryHolds
    <3>7. QED
      BY <2>9, <3>4, <3>5, <3>6 DEF Answer
  <2>10. QED
    BY <2>1, <2>2, <2>3, <2>4, <2>5, <2>7, <2>8, <2>9 DEF Next
<1>3. QED
  BY <1>1, <1>2, RegistryTypeCorrect, PTL DEF Spec, Typed

\* import.worker.ts:240-262 and 289-329: no interleaving of imports, crashes,
\* creations and removals makes one spreadsheet create a duplicate.
THEOREM NoDuplicatesWithinAJob == Spec => []JobNeverDuplicates
<1>1. KeyInv => JobNeverDuplicates
  BY DEF KeyInv, JobNeverDuplicates
<1>2. QED
  BY <1>1, KeyInvariance, PTL

-----------------------------------------------------------------------------
(* The tenants                                                             *)

\* A handler that is about to write over a record has its id from a query that
\* named the tenant; the id is that of no record of another tenant, and of none
\* that is still to be created.
HitIsOwn(h) ==
  phase[h] \in {"write", "update", "remove"} =>
    /\ hit[h] <= made
    /\ \A c \in table : c.id = hit[h] => c.tenant = owner[h]

HitsOwn == \A h \in Handlers : HitIsOwn(h)

\* The tables S and T agree on the tenants of their records, apart from records
\* of T with an id above n.
SameTenants(S, T, n) ==
  \A e \in T : e.id <= n => \E c \in S : e.id = c.id /\ e.tenant = c.tenant

\* Whatever a write does to the table, the ids that other handlers hold stay
\* ids of their tenants.
LEMMA HitsKept ==
  ASSUME Typed, HitsOwn, made' \in Nat, made <= made',
         UNCHANGED owner, SameTenants(table, table', made),
         NEW h \in Handlers,
         phase'[h] \in {"write", "update", "remove"} =>
           /\ phase[h] \in {"write", "update", "remove"}
           /\ hit'[h] = hit[h]
  PROVE  HitIsOwn(h)'
<1> SUFFICES ASSUME phase'[h] \in {"write", "update", "remove"}
             PROVE  /\ hit'[h] <= made'
                    /\ \A e \in table' : e.id = hit'[h] => e.tenant = owner'[h]
  BY DEF HitIsOwn
<1>1. /\ hit'[h] = hit[h] /\ hit[h] \in Nat /\ hit[h] <= made /\ made \in Nat
      /\ \A c \in table : c.id = hit[h] => c.tenant = owner[h]
  BY DEF HitsOwn, HitIsOwn, Typed, TypeOK
<1>2. ASSUME NEW e \in table', e.id = hit'[h]
      PROVE  e.tenant = owner'[h]
  BY <1>1, <1>2 DEF SameTenants
<1>3. QED
  BY <1>1, <1>2

\* import.worker.ts:242, customers.service.ts:112 and 137: what a query with
\* the tenant has found is still of the tenant when it is written, although
\* the write names the id alone.
THEOREM HitsInvariance == Spec => []HitsOwn
<1>1. Init => HitsOwn
  BY DEF Init, HitsOwn, HitIsOwn
<1>2. Typed /\ Typed' /\ IdsUnique /\ HitsOwn /\ [Next]_vars => HitsOwn'
  <2> SUFFICES ASSUME Typed, Typed', IdsUnique, HitsOwn, Next
               PROVE  HitsOwn'
    BY DEF vars, HitsOwn, HitIsOwn
  <2>a. /\ table \subseteq Records /\ made \in Nat /\ made' \in Nat
        /\ phase \in [Handlers -> {"idle", "find", "write", "create", "update",
                                   "remove", "done"}]
        /\ hit \in [Handlers -> Nat]
        /\ Jobs \subseteq Handlers /\ Requests \subseteq Handlers
    BY DEF Typed, TypeOK, Handlers
  <2>b. ASSUME UNCHANGED <<table, made, owner>>, NEW h \in Handlers,
               \A g \in Handlers \ {h} : phase'[g] = phase[g] /\ hit'[g] = hit[g],
               HitIsOwn(h)'
        PROVE  HitsOwn'
    BY <2>b DEF HitsOwn, HitIsOwn
  <2>c. ASSUME NEW h \in Handlers, NEW p \in {"idle", "find", "done"},
               phase' = [phase EXCEPT ![h] = p], UNCHANGED <<owner, hit>>,
               made <= made', SameTenants(table, table', made)
        PROVE  HitsOwn'
    <3>1. ASSUME NEW g \in Handlers PROVE HitIsOwn(g)'
      <4>1. phase'[g] \in {"write", "update", "remove"} =>
              phase[g] \in {"write", "update", "remove"} /\ hit'[g] = hit[g]
        BY <2>a, <2>c
      <4>2. QED
        BY <2>a, <2>c, <4>1, HitsKept
    <3>2. QED
      BY <3>1 DEF HitsOwn
  <2>d. ASSUME NEW h \in Handlers, NEW c \in Own(h),
               hit' = [hit EXCEPT ![h] = c.id], UNCHANGED <<table, made, owner>>
        PROVE  HitIsOwn(h)'
    BY <2>a, <2>d DEF HitIsOwn, Own, IdsUnique
  <2>e. UNCHANGED <<table, made>> =>
          made <= made' /\ SameTenants(table, table', made)
    BY <2>a DEF SameTenants
  <2>1. ASSUME NEW j \in Jobs, Start(j) \/ RowIsGone(j) \/ Interrupted(j)
        PROVE  HitsOwn'
    BY <2>1, <2>a, <2>c, <2>e DEF Start, RowIsGone, Interrupted, Goto
  <2>2. ASSUME NEW j \in Jobs, FindRow(j)
        PROVE  HitsOwn'
    <3>1. PICK id \in 0..made : Found(j, id) /\ hit' = [hit EXCEPT ![j] = id]
      BY <2>2 DEF FindRow
    <3>2. UNCHANGED <<table, made, owner>>
      BY <2>2 DEF FindRow
    <3>3. HitIsOwn(j)'
      <4>1. CASE id = 0
        BY <2>a, <3>1, <3>2, <4>1 DEF HitIsOwn, IdsUnique
      <4>2. CASE id # 0
        <5>1. PICK c \in Own(j) : c.id = id
          BY <3>1, <4>2 DEF Found
        <5>2. QED
          BY <2>a, <2>d, <3>1, <3>2, <5>1
      <4>3. QED
        BY <4>1, <4>2
    <3>4. QED
      BY <2>2, <2>a, <2>b, <3>1, <3>3 DEF FindRow, Goto
  <2>3. ASSUME NEW j \in Jobs, WriteRow(j)
        PROVE  HitsOwn'
    <3>1. made <= made' /\ SameTenants(table, table', made)
      <4>1. CASE Insert(j, Row(j).name, Row(j).doc)
        BY <2>a, <4>1 DEF Insert, Fresh, SameTenants
      <4>2. ASSUME NEW c \in table, made' = made,
                   table' = (table \ {c}) \union {Upserted(c, Row(j))}
            PROVE  made <= made' /\ SameTenants(table, table', made)
        <5>1. Upserted(c, Row(j)).id = c.id /\ Upserted(c, Row(j)).tenant = c.tenant
          BY <2>a DEF Upserted, Records
        <5>2. QED
          BY <2>a, <4>2, <5>1 DEF SameTenants
      <4>3. QED
        BY <2>3, <4>1, <4>2 DEF WriteRow
    <3>2. QED
      BY <2>3, <2>a, <2>c, <3>1 DEF WriteRow, Goto
  <2>4. ASSUME NEW q \in Requests, NEW b \in Bodies, AskCreate(q, b)
        PROVE  HitsOwn'
    <3>1. HitIsOwn(q)'
      BY <2>4, <2>a DEF AskCreate, Goto, HitIsOwn
    <3>2. QED
      BY <2>4, <2>a, <2>b, <3>1 DEF AskCreate, Goto, beyondApi
  <2>5. ASSUME NEW q \in Requests, (\E b \in Bodies : AskUpdate(q, b)) \/ AskRemove(q)
        PROVE  HitsOwn'
    <3>1. PICK c \in Own(q) : hit' = [hit EXCEPT ![q] = c.id]
      BY <2>5 DEF AskUpdate, AskRemove
    <3>2. /\ UNCHANGED <<table, made, owner>>
          /\ \A g \in Handlers \ {q} : phase'[g] = phase[g]
      BY <2>5, <2>a DEF AskUpdate, AskRemove, Goto, beyondApi
    <3>3. HitIsOwn(q)'
      BY <2>a, <2>d, <3>1, <3>2
    <3>4. QED
      BY <2>a, <2>b, <3>1, <3>2, <3>3
  <2>6. ASSUME NEW q \in Requests, RecordIsGone(q)
        PROVE  HitsOwn'
    BY <2>6, <2>a, <2>c, <2>e DEF RecordIsGone, Goto, beyondApi
  <2>7. ASSUME NEW q \in Requests, Answer(q)
        PROVE  HitsOwn'
    <3>1. made <= made' /\ SameTenants(table, table', made)
      <4>1. CASE Insert(q, draft[q].name, Trim(draft[q].doc))
        BY <2>a, <4>1 DEF Insert, Fresh, SameTenants
      <4>2. ASSUME NEW c \in table, made' = made,
                   table' = (table \ {c}) \union {Changed(c, q)}
            PROVE  made <= made' /\ SameTenants(table, table', made)
        <5>1. Changed(c, q).id = c.id /\ Changed(c, q).tenant = c.tenant
          BY <2>a DEF Changed, Records
        <5>2. QED
          BY <2>a, <4>2, <5>1 DEF SameTenants
      <4>3. ASSUME NEW c \in table, made' = made, table' = table \ {c}
            PROVE  made <= made' /\ SameTenants(table, table', made)
        BY <2>a, <4>3 DEF SameTenants
      <4>4. QED
        BY <2>7, <4>1, <4>2, <4>3 DEF Answer
    <3>2. QED
      BY <2>7, <2>a, <2>c, <3>1 DEF Answer, Goto, beyondApi
  <2>8. QED
    BY <2>1, <2>2, <2>3, <2>4, <2>5, <2>6, <2>7 DEF Next
<1>3. KeyInv => IdsUnique
  BY DEF KeyInv
<1>4. QED
  BY <1>1, <1>2, <1>3, RegistryTypeCorrect, KeyInvariance, PTL DEF Spec, Typed

\* import.worker.ts:242, customers.service.ts:112 and 137: no handler writes or
\* removes a record of a tenant other than its own.
THEOREM NoWriteAcrossTenants == Spec => TenantsApart
<1>1. Typed /\ Typed' /\ HitsOwn /\ [Next]_vars =>
        [\A c \in (table \ table') \union (table' \ table) :
           \E h \in Handlers : phase'[h] # phase[h] /\ owner[h] = c.tenant]_vars
  <2> SUFFICES ASSUME Typed, Typed', HitsOwn, Next,
                      NEW c \in (table \ table') \union (table' \ table)
               PROVE  \E h \in Handlers : phase'[h] # phase[h] /\ owner[h] = c.tenant
    BY DEF vars
  <2>a. /\ table \subseteq Records
        /\ phase \in [Handlers -> {"idle", "find", "write", "create", "update",
                                   "remove", "done"}]
        /\ Jobs \subseteq Handlers /\ Requests \subseteq Handlers
    BY DEF Typed, TypeOK, Handlers
  <2>1. CASE \E j \in Jobs : WriteRow(j)
    <3>1. PICK j \in Jobs : WriteRow(j)
      BY <2>1
    <3>2. phase[j] = "write" /\ phase'[j] # "write"
      BY <2>a, <3>1 DEF WriteRow, Goto
    <3>3. owner[j] = c.tenant
      <4>1. CASE Insert(j, Row(j).name, Row(j).doc)
        BY <4>1 DEF Insert, Fresh
      <4>2. ASSUME NEW d \in table, d.id = hit[j],
                   table' = (table \ {d}) \union {Upserted(d, Row(j))}
            PROVE  owner[j] = c.tenant
        <5>1. d.tenant = owner[j]
          BY <2>a, <3>2, <4>2 DEF HitsOwn, HitIsOwn
        <5>2. Upserted(d, Row(j)).tenant = d.tenant
          BY <2>a DEF Upserted, Records
        <5>3. QED
          BY <4>2, <5>1, <5>2
      <4>3. QED
        BY <3>1, <4>1, <4>2 DEF WriteRow
    <3>4. QED
      BY <2>a, <3>2, <3>3
  <2>2. CASE \E q \in Requests : Answer(q)
    <3>1. PICK q \in Requests : Answer(q)
      BY <2>2
    <3>2. phase[q] \in {"create", "update", "remove"} /\ phase'[q] = "done"
      BY <2>a, <3>1 DEF Answer, Goto
    <3>3. owner[q] = c.tenant
      <4>1. CASE Insert(q, draft[q].name, Trim(draft[q].doc))
        BY <4>1 DEF Insert, Fresh
      <4>2. ASSUME NEW d \in table, d.id = hit[q], phase[q] \in {"update", "remove"},
                   table' \in {(table \ {d}) \union {Changed(d, q)}, table \ {d}}
            PROVE  owner[q] = c.tenant
        <5>1. d.tenant = owner[q]
          BY <2>a, <4>2 DEF HitsOwn, HitIsOwn
        <5>2. Changed(d, q).tenant = d.tenant
          BY <2>a DEF Changed, Records
        <5>3. QED
          BY <4>2, <5>1, <5>2
      <4>3. QED
        BY <3>1, <4>1, <4>2 DEF Answer
    <3>4. QED
      BY <2>a, <3>2, <3>3
  <2>3. CASE UNCHANGED table
    BY <2>3
  <2>4. QED
    BY <2>1, <2>2, <2>3
    DEF Next, Start, FindRow, RowIsGone, Interrupted, AskCreate, AskUpdate,
        AskRemove, RecordIsGone
<1>2. QED
  BY <1>1, RegistryTypeCorrect, HitsInvariance, PTL DEF Spec, Typed, TenantsApart

-----------------------------------------------------------------------------
(* One import at a time                                                    *)

\* Nobody but the imports writes, and they run one after the other.
Serial == Concurrency = 1 /\ Requests = {}

\* What a row and the record it describes have in common.
KeyOf(r) == IF KeyedBy = "name" THEN r.name ELSE r.doc

\* What the first query of a row has returned is what it would return now.
ReadingHolds(j) ==
  phase[j] = "write" =>
    IF hit[j] = 0
      THEN \A c \in Own(j) : ~Matches(c, Row(j))
      ELSE \E c \in Own(j) : c.id = hit[j] /\ Matches(c, Row(j))

\* Row n has a document, and no row after it, up to row m, has its key.
IsFinal(j, n, m) ==
  /\ sheet[j][n].doc # Null
  /\ \A k \in n+1..m : KeyOf(sheet[j][k]) # KeyOf(sheet[j][n])

\* The records T have the rows up to row m as the last of each key gives them.
Loaded(T, j, m) ==
  \A n \in 1..m : IsFinal(j, n, m) =>
    \E c \in T : /\ c.tenant = owner[j]
                 /\ c.name = sheet[j][n].name /\ c.doc = sheet[j][n].doc

\* No two records that a spreadsheet could not tell apart.
Distinct(T) == \A c, d \in T : SameKey(c, d) => c = d

SerialInv ==
  /\ Distinct(table)
  /\ \A j, k \in Running : j = k
  /\ \A j \in Running :
       /\ phase[j] \in {"find", "write"}
       /\ ReadingHolds(j)
       /\ Loaded(table, j, row[j] - 1)

\* No tenant of the records T has two with one key.
KeysApart(T) ==
  \A c, d \in T : c.tenant = d.tenant /\ KeyOf(c) = KeyOf(d) => c = d

\* c and d are one record, whatever has been written over it.
SameRecord(c, d) ==
  c.id = d.id /\ c.tenant = d.tenant /\ c.by = d.by /\ KeyOf(c) = KeyOf(d)

InSheet(c, j) ==
  /\ c.tenant = owner[j]
  /\ \E n \in 1..Len(sheet[j]) : KeyOf(sheet[j][n]) = KeyOf(c)

\* Every record of S is one of T, and the same but for what the sheet says.
RewrittenFrom(S, T, j) ==
  \A c \in S : \E d \in T : SameRecord(c, d) /\ (c = d \/ InSheet(c, j))

\* The table is the one that the last full run of j has left, up to the rows
\* that a later run has begun to write again.
RunRemembered(j) ==
  last[j] # {} =>
    /\ KeysApart(last[j])
    /\ Loaded(last[j], j, Len(sheet[j]))
    /\ RewrittenFrom(table, last[j], j)
    /\ RewrittenFrom(last[j], table, j)

ReimportInv == KeysApart(table) /\ \A j \in Jobs : RunRemembered(j)

\* What a write by the only import that runs leaves behind.
OneWrite(j, T) ==
  \/ /\ hit[j] = 0
     /\ T = table \union {Fresh(j, Row(j).name, Row(j).doc)}
  \/ \E c \in table :
       c.id = hit[j] /\ T = (table \ {c}) \union {Upserted(c, Row(j))}

\* A set with fewer than one element has none.
LEMMA FewerThanOne ==
  ASSUME NEW S, \A x, y \in S : x = y, Cardinality(S) < 1
  PROVE  S = {}
<1>1. CASE S # {}
  <2>1. PICK x \in S : TRUE
    BY <1>1
  <2>2. S = {x}
    BY <2>1
  <2>3. Cardinality({x}) = 1
    BY FS_Singleton
  <2>4. QED
    BY <2>2, <2>3
<1>2. QED
  BY <1>1

\* The record that was found is in the table once, of the import's tenant, and
\* has the key of the row.
LEMMA FoundIsOwn ==
  ASSUME Typed, IdsUnique, NEW j \in Jobs, phase[j] = "write", ReadingHolds(j),
         NEW c \in table, c.id = hit[j]
  PROVE  c \in Own(j) /\ Matches(c, Row(j))
<1>1. hit[j] # 0
  BY DEF IdsUnique
<1>2. PICK d \in Own(j) : d.id = hit[j] /\ Matches(d, Row(j))
  BY <1>1 DEF ReadingHolds
<1>3. d = c
  BY <1>2 DEF IdsUnique, Own
<1>4. QED
  BY <1>2, <1>3

\* import.worker.ts:248-262 and 308-329: a row that is written does not undo
\* what the rows before it have said of other keys, and has its own say.
LEMMA RowIsLoaded ==
  ASSUME Typed, IdsUnique, NEW j \in Jobs, phase[j] = "write", ReadingHolds(j),
         Loaded(table, j, row[j] - 1), NEW T, OneWrite(j, T)
  PROVE  Loaded(T, j, row[j])
<1> DEFINE r == Row(j)
           Describes(c, n) == /\ c.tenant = owner[j]
                              /\ c.name = sheet[j][n].name /\ c.doc = sheet[j][n].doc
<1> SUFFICES ASSUME NEW n \in 1..row[j], IsFinal(j, n, row[j])
             PROVE  \E c \in T : Describes(c, n)
  BY DEF Loaded
<1>1. /\ row[j] \in Nat \ {0} /\ r \in Rows /\ r = sheet[j][row[j]]
      /\ table \subseteq Records
  BY RowInSheet DEF Typed, TypeOK, AtRow, Row
<1>2. CASE n = row[j]
  <2>1. r.doc # Null /\ sheet[j][n] = r
    BY <1>1, <1>2 DEF IsFinal
  <2>2. CASE T = table \union {Fresh(j, r.name, r.doc)}
    <3>1. Describes(Fresh(j, r.name, r.doc), n)
      BY <2>1 DEF Fresh
    <3>2. QED
      BY <2>2, <3>1
  <2>3. ASSUME NEW c \in table, c.id = hit[j],
               T = (table \ {c}) \union {Upserted(c, r)}
        PROVE  \E d \in T : Describes(d, n)
    <3>1. c.tenant = owner[j]
      BY <2>3, FoundIsOwn DEF Own
    <3>2. Describes(Upserted(c, r), n)
      BY <1>1, <2>1, <2>3, <3>1 DEF Upserted, Records
    <3>3. QED
      BY <2>3, <3>2
  <2>4. QED
    BY <2>2, <2>3 DEF OneWrite
<1>3. CASE n # row[j]
  <2>1. n \in 1..(row[j] - 1) /\ IsFinal(j, n, row[j] - 1)
    BY <1>1, <1>3 DEF IsFinal
  <2>2. PICK e \in table : Describes(e, n)
    BY <2>1 DEF Loaded
  <2>3. sheet[j][n].doc # Null /\ KeyOf(r) # KeyOf(sheet[j][n])
    <3>1. row[j] \in n+1..row[j]
      BY <1>1, <1>3
    <3>2. QED
      BY <1>1, <3>1 DEF IsFinal
  <2>4. CASE e \in T
    BY <2>2, <2>4
  <2>5. CASE e \notin T
    <3>1. /\ e.id = hit[j]
          /\ T = (table \ {e}) \union {Upserted(e, r)}
      BY <2>2, <2>5 DEF OneWrite
    <3>2. Matches(e, r)
      BY <2>2, <3>1, FoundIsOwn
    <3>3. r.doc = Null /\ e.name = r.name
      BY <2>2, <2>3, <3>2, ShapeAssumption DEF Matches, KeyOf
    <3>4. Describes(Upserted(e, r), n)
      BY <1>1, <2>2, <3>3 DEF Upserted, Records
    <3>5. QED
      BY <3>1, <3>4
  <2>6. QED
    BY <2>4, <2>5
<1>4. QED
  BY <1>2, <1>3

\* import.worker.ts:240-262 and 289-329: a row that is written makes no second
\* record of a key, be it a row with or without a document.
LEMMA RowMakesNoDuplicate ==
  ASSUME Typed, IdsUnique, Distinct(table),
         NEW j \in Jobs, phase[j] = "write", ReadingHolds(j),
         NEW T, OneWrite(j, T)
  PROVE  Distinct(T)
<1>1. Row(j) \in Rows /\ table \subseteq Records
  BY RowInSheet DEF Typed, TypeOK
<1>2. ASSUME hit[j] = 0,
             T = table \union {Fresh(j, Row(j).name, Row(j).doc)}
      PROVE  Distinct(T)
  <2> DEFINE f == Fresh(j, Row(j).name, Row(j).doc)
  <2>1. \A c \in table : ~SameKey(c, f) /\ ~SameKey(f, c)
    BY <1>2, ShapeAssumption DEF ReadingHolds, Own, Matches, SameKey, Fresh
  <2>2. QED
    BY <1>2, <2>1 DEF Distinct
<1>3. ASSUME NEW c \in table, c.id = hit[j],
             T = (table \ {c}) \union {Upserted(c, Row(j))}
      PROVE  Distinct(T)
  <2> DEFINE u == Upserted(c, Row(j))
  <2>1. Matches(c, Row(j)) /\ c \in Records
    BY <1>1, <1>3, FoundIsOwn
  <2>2. \A d : SameKey(u, d) => SameKey(c, d)
    BY <2>1, ShapeAssumption DEF Matches, SameKey, Upserted, Records
  <2>3. \A d : SameKey(d, u) => SameKey(d, c)
    BY <2>1, ShapeAssumption DEF Matches, SameKey, Upserted, Records
  <2>4. QED
    BY <1>3, <2>2, <2>3 DEF Distinct
<1>4. QED
  BY <1>2, <1>3 DEF OneWrite

\* import.worker.ts:207-262: when imports run one after the other and nobody
\* else writes, a row is written on what its query has found, and what the rows
\* so far have said is in the table.
LEMMA SerialStep ==
  ASSUME Serial, Typed, Typed', IdsUnique, SerialInv, [Next]_vars
  PROVE  SerialInv'
<1>a. /\ phase \in [Handlers -> {"idle", "find", "write", "create", "update",
                                 "remove", "done"}]
      /\ hit \in [Handlers -> Nat] /\ row \in [Jobs -> Nat] /\ Jobs \subseteq Handlers
      /\ made \in Nat /\ Distinct(table)
  BY DEF Typed, TypeOK, Handlers, SerialInv
<1>b. ASSUME NEW j \in Jobs, NEW p \in {"idle", "find", "write"}, Goto(j, p),
             UNCHANGED <<owner, sheet>>,
             j \in Running \/ Running = {},
             p # "idle" => ReadingHolds(j)' /\ Loaded(table, j, row[j] - 1)',
             Distinct(table)'
      PROVE  SerialInv'
  <2>1. \A k \in Running' : k = j /\ p # "idle"
    BY <1>a, <1>b DEF SerialInv, Running, Goto
  <2>2. phase'[j] = p
    BY <1>a, <1>b DEF Goto
  <2>3. QED
    BY <1>b, <2>1, <2>2 DEF SerialInv
<1>1. ASSUME NEW j \in Jobs, Start(j)
      PROVE  SerialInv'
  <2>1. Running = {}
    BY <1>1, FewerThanOne DEF Start, Serial, SerialInv
  <2>2. phase'[j] = "find" /\ row'[j] = 1
    BY <1>1, <1>a DEF Start, Goto
  <2>3. ReadingHolds(j)'
    BY <2>2 DEF ReadingHolds
  <2>4. Loaded(table, j, row[j] - 1)'
    BY <2>2 DEF Loaded
  <2>5. QED
    BY <1>1, <1>a, <1>b, <2>1, <2>3, <2>4 DEF Start
<1>2. ASSUME NEW j \in Jobs, FindRow(j)
      PROVE  SerialInv'
  <2>1. PICK id \in 0..made : Found(j, id) /\ hit' = [hit EXCEPT ![j] = id]
    BY <1>2 DEF FindRow
  <2>2. hit'[j] = id /\ UNCHANGED <<table, owner, sheet, row>> /\ phase[j] = "find"
    BY <1>2, <1>a, <2>1 DEF FindRow
  <2>3. Loaded(table, j, row[j] - 1) /\ j \in Running
    BY <2>2 DEF SerialInv, Running
  <2>4. ReadingHolds(j)'
    <3>1. UNCHANGED <<Own(j), Row(j)>>
      BY <2>2 DEF Own, Row
    <3>2. \A c \in Own(j) : c.id # 0
      BY DEF Own, Typed, TypeOK, Records
    <3>3. \A c : Matches(c, Row(j))' <=> Matches(c, Row(j))
      BY <3>1 DEF Matches
    <3>4. QED
      BY <2>1, <2>2, <3>1, <3>2, <3>3 DEF ReadingHolds, Found
  <2>5. Loaded(table, j, row[j] - 1)'
    BY <2>2, <2>3 DEF Loaded, IsFinal
  <2>6. QED
    BY <1>2, <1>a, <1>b, <2>3, <2>4, <2>5 DEF FindRow
<1>3. ASSUME NEW j \in Jobs, WriteRow(j)
      PROVE  SerialInv'
  <2>1. /\ phase[j] = "write" /\ UNCHANGED <<owner, sheet>>
        /\ row'[j] = row[j] + 1
        /\ phase'[j] = IF Ends(j) THEN "idle" ELSE "find"
    BY <1>3, <1>a DEF WriteRow, Goto
  <2>2. j \in Running /\ ReadingHolds(j) /\ Loaded(table, j, row[j] - 1)
    BY <2>1 DEF SerialInv, Running
  <2>3. OneWrite(j, table')
    BY <1>3 DEF WriteRow, OneWrite, Insert
  <2>4. Loaded(table', j, row[j])
    BY <2>1, <2>2, <2>3, RowIsLoaded
  <2>5. row'[j] - 1 = row[j]
    BY <1>a, <2>1
  <2>6. Loaded(table, j, row[j] - 1)'
    BY <2>1, <2>4, <2>5 DEF Loaded, IsFinal
  <2>7. ReadingHolds(j)'
    BY <2>1 DEF ReadingHolds
  <2>8. Distinct(table')
    BY <1>a, <2>1, <2>2, <2>3, RowMakesNoDuplicate
  <2>9. QED
    BY <1>3, <1>b, <2>1, <2>2, <2>6, <2>7, <2>8 DEF WriteRow
<1>4. ASSUME NEW j \in Jobs, RowIsGone(j) \/ Interrupted(j)
      PROVE  SerialInv'
  <2>1. j \in Running
    BY <1>4 DEF RowIsGone, Interrupted, Running
  <2>2. QED
    BY <1>4, <1>a, <1>b, <2>1 DEF RowIsGone, Interrupted
<1>5. CASE UNCHANGED vars
  BY <1>5 DEF vars, SerialInv, Running, ReadingHolds, Loaded, IsFinal, Own, Row,
     Matches, Distinct
<1>6. QED
  BY <1>1, <1>2, <1>3, <1>4, <1>5 DEF Next, Serial

\* import.worker.ts:207-329: imports that run one after the other.
THEOREM SerialInvariance == Serial => (Spec => []SerialInv)
<1> SUFFICES ASSUME Serial PROVE Spec => []SerialInv
  OBVIOUS
<1>1. Init => SerialInv
  BY DEF Init, SerialInv, Running, Handlers, Distinct
<1>2. Typed /\ Typed' /\ IdsUnique /\ SerialInv /\ [Next]_vars => SerialInv'
  BY SerialStep
<1>3. KeyInv => IdsUnique
  BY DEF KeyInv
<1>4. QED
  BY <1>1, <1>2, <1>3, RegistryTypeCorrect, KeyInvariance, PTL DEF Spec, Typed

\* docs/async-processing.md:114, import.worker.ts:240-262 and 289-329: with one
\* import at a time and no requests, imports update instead of duplicating. That
\* ImportsNeverDuplicate fails for the code is a matter of its two imports at a
\* time alone.
THEOREM SerialImportsNeverDuplicate == Serial => (Spec => []ImportsNeverDuplicate)
<1>1. SerialInv => ImportsNeverDuplicate
  BY DEF SerialInv, Distinct, ImportsNeverDuplicate
<1>2. QED
  BY <1>1, SerialInvariance, PTL

\* import.worker.ts:207-262: with one import at a time and no requests, the
\* record of a document has after a run the name that the last row with the
\* document gives it, whatever rows without a document stand between them.
THEOREM TheLastRowWins == Spec => LastRowWins
<1>1. Typed /\ Typed' /\ IdsUnique /\ (Serial => SerialInv) /\ [Next]_vars =>
        [\A j \in Jobs :
           Concurrency = 1 /\ Requests = {} /\ KeyedBy = "document"
             /\ WriteRow(j) /\ Ends(j)
           => \A n \in DOMAIN sheet[j] :
                LET r == sheet[j][n] IN
                /\ r.doc # Null
                /\ \A m \in n+1..Len(sheet[j]) : sheet[j][m].doc # r.doc
                => \E c \in table' :
                     c.tenant = owner[j] /\ c.doc = r.doc /\ c.name = r.name]_vars
  <2> SUFFICES ASSUME Typed, IdsUnique, Serial, SerialInv, KeyedBy = "document",
                      NEW j \in Jobs, WriteRow(j), Ends(j),
                      NEW n \in DOMAIN sheet[j], sheet[j][n].doc # Null,
                      \A m \in n+1..Len(sheet[j]) : sheet[j][m].doc # sheet[j][n].doc
               PROVE  \E c \in table' : /\ c.tenant = owner[j]
                                        /\ c.doc = sheet[j][n].doc
                                        /\ c.name = sheet[j][n].name
    BY DEF Serial
  <2>1. OneWrite(j, table') /\ phase[j] = "write"
    BY DEF WriteRow, OneWrite, Insert
  <2>2. ReadingHolds(j) /\ Loaded(table, j, row[j] - 1)
    BY <2>1 DEF SerialInv, Running
  <2>3. Loaded(table', j, row[j])
    BY <2>1, <2>2, RowIsLoaded
  <2>4. n \in 1..row[j] /\ IsFinal(j, n, row[j])
    BY DEF Ends, IsFinal, KeyOf, Typed, TypeOK
  <2>5. QED
    BY <2>3, <2>4 DEF Loaded
<1>2. KeyInv => IdsUnique
  BY DEF KeyInv
<1>3. Spec => [](Serial => SerialInv)
  <2>1. CASE Serial
    BY <2>1, SerialInvariance, PTL
  <2>2. CASE ~Serial
    <3>1. Serial => SerialInv
      BY <2>2
    <3>2. QED
      BY <3>1, PTL
  <2>3. QED
    BY <2>1, <2>2
<1>4. QED
  BY <1>1, <1>2, <1>3, RegistryTypeCorrect, KeyInvariance, PTL
     DEF Spec, Typed, LastRowWins

-----------------------------------------------------------------------------
(* Importing again                                                         *)

\* When every row has a document, a query looks for the key.
LEMMA MatchIsKey ==
  ASSUME BlankRows = FALSE, NEW r \in Rows
  PROVE  /\ r.doc # Null
         /\ \A c : Matches(c, r) <=> KeyOf(c) = KeyOf(r)
<1>1. r.doc # Null
  BY NoNumberAssumption DEF Rows, Documents, DigitsOnly, Null
<1>2. QED
  BY <1>1, ShapeAssumption DEF Matches, KeyOf

LEMMA GreatestOf ==
  ASSUME NEW m \in Nat, NEW S \in SUBSET (1..m), S # {}
  PROVE  \E x \in S : \A y \in S : y <= x
<1> DEFINE D == {m - x : x \in S}
<1>1. D \subseteq Nat /\ D # {}
  <2>1. \A x \in S : m - x \in Nat
    OBVIOUS
  <2>2. PICK x \in S : TRUE
    OBVIOUS
  <2>3. QED
    BY <2>1, <2>2
<1>2. PICK d \in D : \A e \in D : <<e, d>> \notin OpToRel(<, Nat)
  BY <1>1, NatLessThanWellFounded, WFMin
<1>3. PICK x \in S : d = m - x
  OBVIOUS
<1>4. ASSUME NEW y \in S PROVE y <= x
  <2>1. ~(m - y < m - x)
    BY <1>1, <1>2, <1>3 DEF OpToRel
  <2>2. QED
    BY <2>1
<1>5. QED
  BY <1>4

\* Of the rows with one key there is a last one.
LEMMA LastOfKey ==
  ASSUME Typed, BlankRows = FALSE, NEW j \in Jobs, NEW n \in 1..Len(sheet[j])
  PROVE  \E k \in 1..Len(sheet[j]) :
           /\ KeyOf(sheet[j][k]) = KeyOf(sheet[j][n])
           /\ IsFinal(j, k, Len(sheet[j]))
<1> DEFINE S == {k \in 1..Len(sheet[j]) : KeyOf(sheet[j][k]) = KeyOf(sheet[j][n])}
<1>1. sheet[j] \in Seq(Rows) /\ Len(sheet[j]) \in Nat
  BY DEF Typed, TypeOK
<1>2. PICK k \in S : \A y \in S : y <= k
  BY <1>1, GreatestOf
<1>3. sheet[j][k].doc # Null
  <2>1. sheet[j][k] \in Rows
    BY <1>1
  <2>2. QED
    BY <2>1, MatchIsKey
<1>4. ASSUME NEW i \in k+1..Len(sheet[j])
      PROVE  KeyOf(sheet[j][i]) # KeyOf(sheet[j][k])
  BY <1>1, <1>2
<1>5. QED
  BY <1>3, <1>4 DEF IsFinal

\* A record that a row is written over remains the record it was.
LEMMA UpsertedIsSame ==
  ASSUME BlankRows = FALSE, NEW c \in Records, NEW r \in Rows, Matches(c, r)
  PROVE  SameRecord(Upserted(c, r), c) /\ SameRecord(c, Upserted(c, r))
BY MatchIsKey DEF SameRecord, Upserted, Records, KeyOf

\* import.worker.ts:240-262 and 289-329: a row that is written gives no tenant
\* two records with one key.
LEMMA RowKeepsKeysApart ==
  ASSUME Typed, IdsUnique, BlankRows = FALSE, KeysApart(table),
         NEW j \in Jobs, phase[j] = "write", ReadingHolds(j),
         NEW T, OneWrite(j, T)
  PROVE  KeysApart(T)
<1>1. Row(j) \in Rows /\ table \subseteq Records
  BY RowInSheet DEF Typed, TypeOK
<1>2. ASSUME hit[j] = 0,
             T = table \union {Fresh(j, Row(j).name, Row(j).doc)}
      PROVE  KeysApart(T)
  <2> DEFINE f == Fresh(j, Row(j).name, Row(j).doc)
  <2>1. KeyOf(f) = KeyOf(Row(j)) /\ f.tenant = owner[j]
    BY DEF Fresh, KeyOf
  <2>2. \A c \in table : c.tenant = f.tenant => KeyOf(c) # KeyOf(f)
    BY <1>1, <1>2, <2>1, MatchIsKey DEF ReadingHolds, Own
  <2>3. QED
    BY <1>2, <2>2 DEF KeysApart
<1>3. ASSUME NEW c \in table, c.id = hit[j],
             T = (table \ {c}) \union {Upserted(c, Row(j))}
      PROVE  KeysApart(T)
  <2>1. SameRecord(Upserted(c, Row(j)), c)
    BY <1>1, <1>3, FoundIsOwn, UpsertedIsSame
  <2>2. QED
    BY <1>3, <2>1 DEF KeysApart, SameRecord
<1>4. QED
  BY <1>2, <1>3 DEF OneWrite

\* import.worker.ts:240-262 and 289-329: while a spreadsheet is imported again,
\* every row finds the record that the last run has left it, so that nothing is
\* added, nothing is lost, and only records of the sheet are written.
LEMMA RowRewrites ==
  ASSUME Typed, IdsUnique, BlankRows = FALSE,
         NEW j \in Jobs, phase[j] = "write", ReadingHolds(j),
         NEW T, OneWrite(j, T),
         last[j] # {}, RunRemembered(j)
  PROVE  RewrittenFrom(T, last[j], j) /\ RewrittenFrom(last[j], T, j)
<1>1. /\ Row(j) \in Rows /\ Row(j) = sheet[j][row[j]] /\ table \subseteq Records
      /\ row[j] \in 1..Len(sheet[j])
  BY RowInSheet DEF Typed, TypeOK, AtRow, Row
<1>2. PICK k \in 1..Len(sheet[j]) : /\ KeyOf(sheet[j][k]) = KeyOf(Row(j))
                                    /\ IsFinal(j, k, Len(sheet[j]))
  BY <1>1, LastOfKey
<1>3. PICK d \in last[j] : d.tenant = owner[j] /\ KeyOf(d) = KeyOf(Row(j))
  BY <1>2 DEF RunRemembered, Loaded, KeyOf
<1>4. PICK e \in table : SameRecord(d, e)
  BY <1>3 DEF RunRemembered, RewrittenFrom
<1>5. e \in Own(j) /\ Matches(e, Row(j))
  BY <1>1, <1>3, <1>4, MatchIsKey DEF SameRecord, Own
<1>6. hit[j] # 0
  BY <1>5 DEF ReadingHolds
<1>7. PICK c \in table : /\ c.id = hit[j]
                         /\ T = (table \ {c}) \union {Upserted(c, Row(j))}
  BY <1>6 DEF OneWrite
<1> DEFINE u == Upserted(c, Row(j))
<1>8. /\ SameRecord(u, c) /\ SameRecord(c, u)
      /\ c.tenant = owner[j] /\ KeyOf(c) = KeyOf(Row(j))
  BY <1>1, <1>7, FoundIsOwn, UpsertedIsSame, MatchIsKey DEF Own
<1>9. InSheet(c, j) /\ InSheet(u, j)
  BY <1>1, <1>8 DEF InSheet, SameRecord
<1>10. RewrittenFrom(T, last[j], j)
  <2> SUFFICES ASSUME NEW x \in T
               PROVE  \E y \in last[j] : SameRecord(x, y) /\ (x = y \/ InSheet(x, j))
    BY DEF RewrittenFrom
  <2>1. CASE x = u
    <3>1. PICK y \in last[j] : SameRecord(c, y)
      BY DEF RunRemembered, RewrittenFrom
    <3>2. QED
      BY <1>8, <1>9, <2>1, <3>1 DEF SameRecord
  <2>2. CASE x \in table
    BY <2>2 DEF RunRemembered, RewrittenFrom
  <2>3. QED
    BY <1>7, <2>1, <2>2
<1>11. RewrittenFrom(last[j], T, j)
  <2> SUFFICES ASSUME NEW x \in last[j]
               PROVE  \E y \in T : SameRecord(x, y) /\ (x = y \/ InSheet(x, j))
    BY DEF RewrittenFrom
  <2>1. PICK y \in table : SameRecord(x, y) /\ (x = y \/ InSheet(x, j))
    BY DEF RunRemembered, RewrittenFrom
  <2>2. CASE y = c
    <3>1. InSheet(x, j)
      BY <1>9, <2>1, <2>2 DEF InSheet, SameRecord
    <3>2. SameRecord(x, u)
      BY <1>8, <2>1, <2>2 DEF SameRecord
    <3>3. QED
      BY <1>7, <3>1, <3>2
  <2>3. CASE y # c
    BY <1>7, <2>1, <2>3
  <2>4. QED
    BY <2>2, <2>3
<1>12. QED
  BY <1>10, <1>11

\* A record of the sheet is what the last row with its key says of it.
LEMMA SaidBySheet ==
  ASSUME Typed, BlankRows = FALSE, NEW j \in Jobs,
         NEW T, KeysApart(T), Loaded(T, j, Len(sheet[j])),
         NEW c \in T, c.tenant = owner[j],
         NEW n \in 1..Len(sheet[j]), IsFinal(j, n, Len(sheet[j])),
         KeyOf(sheet[j][n]) = KeyOf(c)
  PROVE  c.name = sheet[j][n].name /\ c.doc = sheet[j][n].doc
<1>1. PICK d \in T : /\ d.tenant = owner[j]
                     /\ d.name = sheet[j][n].name /\ d.doc = sheet[j][n].doc
  BY DEF Loaded
<1>2. c = d
  BY <1>1 DEF KeysApart, KeyOf
<1>3. QED
  BY <1>1, <1>2

\* Two loaded tables of the same records are one table.
LEMMA LoadedAlike ==
  ASSUME Typed, BlankRows = FALSE, NEW j \in Jobs,
         NEW S \in SUBSET Records, NEW T \in SUBSET Records,
         KeysApart(S), Loaded(S, j, Len(sheet[j])),
         KeysApart(T), Loaded(T, j, Len(sheet[j])),
         RewrittenFrom(S, T, j)
  PROVE  S \subseteq T
<1> SUFFICES ASSUME NEW c \in S PROVE c \in T
  OBVIOUS
<1>1. PICK d \in T : SameRecord(c, d) /\ (c = d \/ InSheet(c, j))
  BY DEF RewrittenFrom
<1>2. CASE InSheet(c, j)
  <2>1. PICK n \in 1..Len(sheet[j]) : /\ KeyOf(sheet[j][n]) = KeyOf(c)
                                      /\ IsFinal(j, n, Len(sheet[j]))
    BY <1>2, LastOfKey DEF InSheet
  <2>2. c.name = sheet[j][n].name /\ c.doc = sheet[j][n].doc
    BY <1>2, <2>1, SaidBySheet DEF InSheet
  <2>3. d.name = sheet[j][n].name /\ d.doc = sheet[j][n].doc
    <3>1. d.tenant = owner[j] /\ KeyOf(sheet[j][n]) = KeyOf(d)
      BY <1>1, <1>2, <2>1 DEF SameRecord, InSheet
    <3>2. QED
      BY <2>1, <3>1, SaidBySheet
  <2>4. c = d
    BY <1>1, <2>2, <2>3 DEF SameRecord, Records
  <2>5. QED
    BY <2>4
<1>3. QED
  BY <1>1, <1>2

\* import.worker.ts:207-262 and 264-329: with one import at a time, no requests
\* and a document in every row, no tenant ever has two records with one key, and
\* the last full run of a spreadsheet stays recognisable in the table however
\* many runs of it are begun and interrupted.
LEMMA ReimportStep ==
  ASSUME Serial, BlankRows = FALSE, Typed, Typed', IdsUnique, SerialInv,
         ReimportInv, [Next]_vars
  PROVE  ReimportInv'
<1>1. CASE UNCHANGED <<table, last, owner, sheet>>
  BY <1>1 DEF ReimportInv, RunRemembered, KeysApart, Loaded, IsFinal,
     RewrittenFrom, InSheet
<1>2. ASSUME NEW j \in Jobs, WriteRow(j)
      PROVE  ReimportInv'
  <2>1. /\ phase[j] = "write" /\ OneWrite(j, table')
        /\ UNCHANGED <<owner, sheet>>
    BY <1>2 DEF WriteRow, OneWrite, Insert
  <2>2. ReadingHolds(j) /\ Loaded(table, j, row[j] - 1)
    BY <2>1 DEF SerialInv, Running
  <2>3. KeysApart(table')
    BY <2>1, <2>2, RowKeepsKeysApart DEF ReimportInv
  <2>4. ASSUME Ends(j), last'[j] = table'
        PROVE  RunRemembered(j)'
    <3>1. Loaded(table', j, Len(sheet[j]))
      BY <2>1, <2>2, <2>4, RowIsLoaded DEF Ends
    <3>2. RewrittenFrom(table', table', j)
      BY DEF RewrittenFrom, SameRecord
    <3>3. QED
      BY <2>1, <2>3, <2>4, <3>1, <3>2
      DEF RunRemembered, Loaded, IsFinal, RewrittenFrom, InSheet, KeysApart
  <2>5. ASSUME last'[j] = last[j]
        PROVE  RunRemembered(j)'
    <3>1. CASE last[j] = {}
      BY <2>5, <3>1 DEF RunRemembered
    <3>2. CASE last[j] # {}
      <4>1. RunRemembered(j)
        BY DEF ReimportInv
      <4>2. RewrittenFrom(table', last[j], j) /\ RewrittenFrom(last[j], table', j)
        BY <2>1, <2>2, <3>2, <4>1, RowRewrites
      <4>3. QED
        BY <2>1, <2>5, <3>2, <4>1, <4>2
        DEF RunRemembered, Loaded, IsFinal, RewrittenFrom, InSheet, KeysApart
    <3>3. QED
      BY <3>1, <3>2
  <2>6. ASSUME NEW k \in Jobs
        PROVE  RunRemembered(k)'
    <3>1. last'[k] = IF k # j THEN {} ELSE IF Ends(j) THEN table' ELSE last[j]
      BY <1>2 DEF WriteRow
    <3>2. QED
      BY <2>4, <2>5, <3>1 DEF RunRemembered
  <2>7. QED
    BY <2>3, <2>6 DEF ReimportInv
<1>3. QED
  BY <1>1, <1>2
  DEF Next, Serial, Start, FindRow, RowIsGone, Interrupted, vars

\* import.worker.ts:207-329: the last full run is never forgotten.
THEOREM ReimportInvariance ==
  Serial /\ BlankRows = FALSE => (Spec => []ReimportInv)
<1> SUFFICES ASSUME Serial, BlankRows = FALSE PROVE Spec => []ReimportInv
  OBVIOUS
<1>1. Init => ReimportInv
  BY DEF Init, ReimportInv, RunRemembered, KeysApart
<1>2. Typed /\ Typed' /\ IdsUnique /\ SerialInv /\ ReimportInv /\ [Next]_vars
        => ReimportInv'
  BY ReimportStep
<1>3. KeyInv => IdsUnique
  BY DEF KeyInv
<1>4. Spec => []SerialInv
  BY SerialInvariance
<1>5. QED
  BY <1>1, <1>2, <1>3, <1>4, RegistryTypeCorrect, KeyInvariance, PTL
     DEF Spec, Typed

\* docs/async-processing.md:114, import.worker.ts:207-329: with one import at a
\* time, no requests and a document in every row, importing a spreadsheet again
\* leaves the table exactly as its last full run did, unless somebody else has
\* written since, and whatever was interrupted in between.
THEOREM ReimportsChangeNothing ==
  Serial /\ BlankRows = FALSE => (Spec => ReimportChangesNothing)
<1> SUFFICES ASSUME Serial, BlankRows = FALSE PROVE Spec => ReimportChangesNothing
  OBVIOUS
<1>1. Typed /\ Typed' /\ IdsUnique /\ SerialInv /\ ReimportInv /\ [Next]_vars =>
        [\A j \in Jobs :
           WriteRow(j) /\ Ends(j) /\ last[j] # {} => table' = last[j]]_vars
  <2> SUFFICES ASSUME Typed, Typed', IdsUnique, SerialInv, ReimportInv,
                      NEW j \in Jobs, WriteRow(j), Ends(j), last[j] # {}
               PROVE  table' = last[j]
    OBVIOUS
  <2>1. phase[j] = "write" /\ OneWrite(j, table')
    BY DEF WriteRow, OneWrite, Insert
  <2>2. ReadingHolds(j) /\ Loaded(table, j, row[j] - 1)
    BY <2>1 DEF SerialInv, Running
  <2>3. KeysApart(table') /\ Loaded(table', j, Len(sheet[j]))
    BY <2>1, <2>2, RowKeepsKeysApart, RowIsLoaded DEF ReimportInv, Ends
  <2>4. RunRemembered(j) /\ last[j] \subseteq Records /\ table' \subseteq Records
    BY DEF ReimportInv, Typed, TypeOK
  <2>5. RewrittenFrom(table', last[j], j) /\ RewrittenFrom(last[j], table', j)
    BY <2>1, <2>2, <2>4, RowRewrites
  <2>6. KeysApart(last[j]) /\ Loaded(last[j], j, Len(sheet[j]))
    BY <2>4 DEF RunRemembered
  <2>7. table' \subseteq last[j]
    BY <2>3, <2>4, <2>5, <2>6, LoadedAlike
  <2>8. last[j] \subseteq table'
    BY <2>3, <2>4, <2>5, <2>6, LoadedAlike
  <2>9. QED
    BY <2>7, <2>8
<1>2. KeyInv => IdsUnique
  BY DEF KeyInv
<1>3. (Spec => []SerialInv) /\ (Spec => []ReimportInv)
  BY SerialInvariance, ReimportInvariance
<1>4. QED
  BY <1>1, <1>2, <1>3, RegistryTypeCorrect, KeyInvariance, PTL
     DEF Spec, Typed, ReimportChangesNothing
=============================================================================
