------------------------------ MODULE Registry ------------------------------
(***************************************************************************)
(* The customers (or the carriers) of the tenants, written by two kinds of *)
(* handlers: imports, which upsert row after row by a business key, and    *)
(* the requests of the REST API.  Every handler queries the table first    *)
(* and writes later, and no unique index backs what the query saw.         *)
(***************************************************************************)
EXTENDS Integers, Sequences, FiniteSets

CONSTANTS
  Tenants,
  Jobs,         \* import jobs, each with its spreadsheet
  Requests,     \* requests of the API
  Ops,          \* what the requests ask: "create", "update", "remove"
  KeyedBy,      \* "document" for customers, "name" for carriers
  Names,        \* names, up to the collation of the database
  Numbers,      \* the digits of the documents
  NoNumber,     \* no document
  Forms,        \* how users type documents: "digits", "formatted" with dots
                \* and dashes, or "padded" with a blank in front
  BlankRows,    \* may a row of a spreadsheet lack a document?
  MaxRows,      \* bound: rows of the longest spreadsheet
  MaxRuns,      \* bound: runs of a job, re-uploads included
  Concurrency   \* jobs the worker runs at a time

ASSUME NoNumberAssumption == NoNumber \notin Numbers

ASSUME ShapeAssumption ==
  /\ Ops \subseteq {"create", "update", "remove"}
  /\ KeyedBy \in {"document", "name"}
  /\ "digits" \in Forms /\ Forms \subseteq {"digits", "formatted", "padded"}
  /\ BlankRows \in BOOLEAN
  /\ MaxRows \in Nat \ {0}
  /\ Jobs \intersect Requests = {}

VARIABLES
  table,        \* the records of every tenant
  made,         \* records created so far; the next one gets the next id
  owner,        \* the tenant a handler works for
  sheet,        \* the rows of each job's spreadsheet
  phase,        \* what each handler does next
  row,          \* the row a job is at
  hit,          \* the id the first query of a handler returned, or 0
  draft,        \* the body of a request
  runs,         \* runs each job has begun
  last          \* history: the table after the last full run of a job, {}
                \* when there is none or somebody else has written since

vars == <<table, made, owner, sheet, phase, row, hit, draft, runs, last>>

-----------------------------------------------------------------------------
Handlers == Jobs \union Requests

Documents == [num : Numbers, form : Forms]
Null      == [num |-> NoNumber, form |-> "digits"]

\* document.trim()
Trim(d) == IF d.form = "padded" THEN [d EXCEPT !.form = "digits"] ELSE d

\* document.replace(/\D/g, '')
DigitsOnly(d) == [d EXCEPT !.form = "digits"]

\* What a spreadsheet holds once its columns are normalised.
Rows ==
  [name : Names,
   doc : {DigitsOnly(d) : d \in Documents}
           \union (IF BlankRows THEN {Null} ELSE {})]

\* Every document is trimmed before it is stored.
Stored == {d \in Documents : d.form # "padded"} \union {Null}

Records ==
  [id : Nat \ {0}, tenant : Tenants, name : Names,
   doc : Stored, by : Handlers]

\* The body of a request; `sets` are the columns that an update writes.
Bodies ==
  [name : Names, doc : Documents \union {Null},
   sets : {{"name"}, {"doc"}, {"name", "doc"}}]
NoBody == [sets |-> {}]

TypeOK ==
  /\ table \subseteq Records
  /\ made \in Nat
  /\ owner \in [Handlers -> Tenants]
  /\ sheet \in [Jobs -> Seq(Rows) \ {<< >>}]
  /\ phase \in [Handlers -> {"idle", "find", "write", "create", "update",
                             "remove", "done"}]
  /\ row \in [Jobs -> Nat]
  /\ hit \in [Handlers -> Nat]
  /\ draft \in [Requests -> Bodies \union {NoBody}]
  /\ runs \in [Jobs -> Nat]
  /\ \A j \in Jobs : last[j] \subseteq Records

Init ==
  /\ table = {} /\ made = 0
  /\ owner \in [Handlers -> Tenants]
  /\ sheet \in [Jobs -> UNION {[1..n -> Rows] : n \in 1..MaxRows}]
  /\ phase = [h \in Handlers |-> "idle"]
  /\ row = [j \in Jobs |-> 0]
  /\ hit = [h \in Handlers |-> 0]
  /\ draft = [q \in Requests |-> NoBody]
  /\ runs = [j \in Jobs |-> 0]
  /\ last = [j \in Jobs |-> {}]

-----------------------------------------------------------------------------
\* Seeded defect: the query forgets the tenant.
OwnOfAll(h) == table

Own(h) == {c \in table : c.tenant = owner[h]}

Goto(h, p) == phase' = [phase EXCEPT ![h] = p]

\* The record h writes when its first query has returned nothing.
Fresh(h, name, doc) ==
  [id |-> made + 1, tenant |-> owner[h], name |-> name, doc |-> doc, by |-> h]

Insert(h, name, doc) ==
  /\ table' = table \union {Fresh(h, name, doc)}
  /\ made' = made + 1

-----------------------------------------------------------------------------
(* Imports: processCustomerRow and processCarrierRow                       *)

Row(j) == sheet[j][row[j]]

\* Does record c have the business key of row r?
Matches(c, r) ==
  IF KeyedBy = "document" /\ r.doc # Null
    THEN c.doc = r.doc
    ELSE c.name = r.name

Running == {j \in Jobs : phase[j] # "idle"}

Start(j) ==
  /\ phase[j] = "idle" /\ runs[j] < MaxRuns
  /\ Cardinality(Running) < Concurrency
  /\ Goto(j, "find")
  /\ row' = [row EXCEPT ![j] = 1]
  /\ runs' = [runs EXCEPT ![j] = @ + 1]
  /\ UNCHANGED <<table, made, owner, sheet, hit, draft, last>>

\* Seeded defect: a record whose name has changed is taken for a new one.
FoundByName(j, id) ==
  \/ id = 0 /\ ~ \E c \in Own(j) : Matches(c, Row(j)) /\ c.name = Row(j).name
  \/ \E c \in Own(j) : c.id = id /\ Matches(c, Row(j)) /\ c.name = Row(j).name

\* Seeded defect: the result of the query is ignored.
FoundNothing(j, id) == id = 0

\* findFirst without an order returns any record that matches.
Found(j, id) ==
  \/ id = 0 /\ ~ \E c \in Own(j) : Matches(c, Row(j))
  \/ \E c \in Own(j) : c.id = id /\ Matches(c, Row(j))

FindRow(j) ==
  /\ phase[j] = "find"
  /\ \E id \in 0..made : Found(j, id) /\ hit' = [hit EXCEPT ![j] = id]
  /\ Goto(j, "write")
  /\ UNCHANGED <<table, made, owner, sheet, row, draft, runs, last>>

\* Seeded defect: the name of a record that is found is kept.
UpsertedButName(c, r) ==
  [c EXCEPT !.doc = IF r.doc = Null THEN @ ELSE r.doc]

\* The record c once row r is written over it; a blank cell leaves its
\* column alone.
Upserted(c, r) ==
  [c EXCEPT !.name = r.name, !.doc = IF r.doc = Null THEN @ ELSE r.doc]

Ends(j) == row[j] = Len(sheet[j])

\* update addresses the record by its id alone, whoever has changed it since.
WriteRow(j) ==
  /\ phase[j] = "write"
  /\ \/ /\ hit[j] = 0
        /\ Insert(j, Row(j).name, Row(j).doc)
     \/ \E c \in table :
          /\ c.id = hit[j]
          /\ table' = (table \ {c}) \union {Upserted(c, Row(j))}
          /\ UNCHANGED made
  /\ Goto(j, IF Ends(j) THEN "idle" ELSE "find")
  /\ row' = [row EXCEPT ![j] = @ + 1]
  /\ last' = [k \in Jobs |->
       IF k # j THEN {} ELSE IF Ends(j) THEN table' ELSE last[j]]
  /\ UNCHANGED <<owner, sheet, hit, draft, runs>>

\* The record that was found is gone: update throws, and the run with it.
RowIsGone(j) ==
  /\ phase[j] = "write" /\ hit[j] # 0
  /\ \A c \in table : c.id # hit[j]
  /\ Goto(j, "idle")
  /\ UNCHANGED <<table, made, owner, sheet, row, hit, draft, runs, last>>

\* The process dies between two queries; the next run begins at row 1.
Interrupted(j) ==
  /\ phase[j] \in {"find", "write"}
  /\ Goto(j, "idle")
  /\ UNCHANGED <<table, made, owner, sheet, row, hit, draft, runs, last>>

-----------------------------------------------------------------------------
(* The API: customers.service.ts and carriers.service.ts                   *)

beyondApi == <<owner, sheet, row, runs>>

\* create of a customer compares the document as it was typed; create of a
\* carrier compares nothing.
Taken(q, doc) ==
  KeyedBy = "document" /\ doc # Null /\ \E c \in Own(q) : c.doc = doc

AskCreate(q, b) ==
  /\ phase[q] = "idle" /\ "create" \in Ops
  /\ b.sets = {"name", "doc"}
  /\ draft' = [draft EXCEPT ![q] = b]
  /\ Goto(q, IF Taken(q, b.doc) THEN "done" ELSE "create")
  /\ UNCHANGED <<table, made, hit, last, beyondApi>>

\* update and remove look for the record first; an update cannot set a
\* document to null.
AskUpdate(q, b) ==
  /\ phase[q] = "idle" /\ "update" \in Ops
  /\ "doc" \in b.sets => b.doc # Null
  /\ \E c \in Own(q) : hit' = [hit EXCEPT ![q] = c.id]
  /\ draft' = [draft EXCEPT ![q] = b]
  /\ Goto(q, "update")
  /\ UNCHANGED <<table, made, last, beyondApi>>

\* remove may also find that simulations use the record, and stop.
AskRemove(q) ==
  /\ phase[q] = "idle" /\ "remove" \in Ops
  /\ \E c \in Own(q) : hit' = [hit EXCEPT ![q] = c.id]
  /\ Goto(q, "remove") \/ Goto(q, "done")
  /\ UNCHANGED <<table, made, draft, last, beyondApi>>

\* The record a request changes has gone in the meantime: a 500.
RecordIsGone(q) ==
  /\ phase[q] \in {"update", "remove"}
  /\ \A c \in table : c.id # hit[q]
  /\ Goto(q, "done")
  /\ UNCHANGED <<table, made, hit, draft, last, beyondApi>>

Changed(c, q) ==
  [c EXCEPT !.name = IF "name" \in draft[q].sets THEN draft[q].name ELSE @,
            !.doc  = IF "doc" \in draft[q].sets THEN Trim(draft[q].doc) ELSE @]

Answer(q) ==
  /\ \/ phase[q] = "create" /\ Insert(q, draft[q].name, Trim(draft[q].doc))
     \/ \E c \in table :
          /\ phase[q] = "update" /\ c.id = hit[q]
          /\ table' = (table \ {c}) \union {Changed(c, q)}
          /\ UNCHANGED made
     \/ \E c \in table :
          /\ phase[q] = "remove" /\ c.id = hit[q]
          /\ table' = table \ {c}
          /\ UNCHANGED made
  /\ Goto(q, "done")
  /\ last' = [k \in Jobs |-> {}]
  /\ UNCHANGED <<hit, draft, beyondApi>>

-----------------------------------------------------------------------------
Next ==
  \/ \E j \in Jobs :
       Start(j) \/ FindRow(j) \/ WriteRow(j) \/ RowIsGone(j) \/ Interrupted(j)
  \/ \E q \in Requests :
       \/ \E b \in Bodies : AskCreate(q, b) \/ AskUpdate(q, b)
       \/ AskRemove(q) \/ RecordIsGone(q) \/ Answer(q)

Spec == Init /\ [][Next]_vars

-----------------------------------------------------------------------------
(* Correctness                                                             *)

\* Two records a spreadsheet could not tell apart.
SameKey(c, d) ==
  /\ c.tenant = d.tenant
  /\ IF KeyedBy = "name" \/ c.doc = Null
       THEN c.name = d.name /\ (KeyedBy = "name" \/ d.doc = Null)
       ELSE c.doc = d.doc

\* A request has asked to edit a record, and may have done so.
Edited == \E q \in Requests : draft[q] # NoBody /\ hit[q] # 0

\* processCustomerRow and processCarrierRow (import.worker.ts:240-262,
\* 289-329): the rows and the runs of one spreadsheet never create two
\* records with the same key, whatever other imports, crashes, creations and
\* removals come between their queries; only an edit of a record can make
\* them do so.
JobNeverDuplicates ==
  ~Edited =>
    \A c, d \in table : c.by \in Jobs /\ c.by = d.by /\ SameKey(c, d) => c = d

\* The tenantId of every query (import.worker.ts:242, customers.service.ts:112):
\* a handler changes no record of a tenant that it does not work for.
TenantsApart ==
  [][\A c \in (table \ table') \union (table' \ table) :
       \E h \in Handlers : phase'[h] # phase[h] /\ owner[h] = c.tenant]_vars

\* docs/async-processing.md:114: to import a spreadsheet again changes
\* nothing, provided nobody else wrote since, even if the runs in between
\* were interrupted.
ReimportChangesNothing ==
  [][\A j \in Jobs :
       WriteRow(j) /\ Ends(j) /\ last[j] # {} => table' = last[j]]_vars

\* The record of a document carries, after a run that nobody disturbed, the
\* name that the last row with this document gives it.
LastRowWins ==
  [][\A j \in Jobs :
       Concurrency = 1 /\ Requests = {} /\ KeyedBy = "document"
         /\ WriteRow(j) /\ Ends(j)
       => \A n \in DOMAIN sheet[j] :
            LET r == sheet[j][n] IN
            /\ r.doc # Null
            /\ \A m \in n+1..Len(sheet[j]) : sheet[j][m].doc # r.doc
            => \E c \in table' :
                 c.tenant = owner[j] /\ c.doc = r.doc /\ c.name = r.name]_vars

-----------------------------------------------------------------------------
(* What the documentation says and the code does not do                    *)

\* docs/async-processing.md:114: imports update instead of duplicating.
ImportsNeverDuplicate ==
  \A c, d \in table : {c.by, d.by} \subseteq Jobs /\ SameKey(c, d) => c = d
=============================================================================
