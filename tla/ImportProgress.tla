--------------------------- MODULE ImportProgress ---------------------------
(***************************************************************************)
(* One import as the imports page shows it (frontend/app/imports/page.tsx):*)
(* the list that it loads and polls, and the events of a socket that it    *)
(* opens anew after every load.  Of ImportPipeline there are all writers   *)
(* of the status: the worker, the callback of a failed job and the last    *)
(* write of upload and retry; an event follows its write at a distance and *)
(* is kept for nobody.  Left out: counters, other imports and messages.    *)
(* (What ImportPipeline has under the same name is called Progress... or   *)
(* otherwise here, because one module of proofs extends both.)             *)
(***************************************************************************)
EXTENDS Naturals, Sequences

CONSTANTS
  Loads,      \* requests for the list that may be under way at once
  MaxEvents,  \* bound: events of the middle of a run that are under way
  MaxRuns,    \* bound: runs of the worker, and requests of the import
  MaxMisses   \* bound: loads that fail

ASSUME ProgressAssumption ==
  MaxEvents \in Nat /\ MaxRuns \in Nat \ {0} /\ MaxMisses \in Nat

Unfinished == {"PENDING", "PROCESSING"}
Verdicts == {"COMPLETED", "FAILED"}
RowStatuses == Unfinished \union Verdicts

VARIABLES
  row,     \* status of the import in the database
  stage,   \* the job: "queued", "running", a verdict to announce, "done"
  marks,   \* requests that have queued the job and not yet written
  asked,   \* requests so far: the upload and retries
  callback,  \* handleQueueFailure: "none", "find", "mark" or "emit"
  runs,    \* runs so far
  had,     \* history: the verdicts the import has had
  items,   \* the status in the page's list
  live,    \* the status of the last event that the page has handled
  load,    \* of each request for the list: "idle", "asked" or the answer
  sock,    \* the subscription: "closed", "connecting", "joined"
  wire,    \* events sent to the page and not yet handled
  misses

worker == <<row, stage, marks, asked, callback, runs, had>>
page == <<items, live, load, misses>>
progressVars == <<worker, page, sock, wire>>

ProgressInit ==
  /\ row = "PENDING" /\ stage = "queued" /\ marks = 1 /\ asked = 1
  /\ callback = "none" /\ runs = 0 /\ had = {}
  /\ items = "none" /\ live = "none" /\ misses = 0
  /\ load = [l \in Loads |-> "idle"]
  /\ sock = "closed" /\ wire = << >>

\* server.to(room).emit: what is not in the room hears nothing.
Emit(status) ==
  wire' = IF sock = "joined" THEN Append(wire, status) ELSE wire

\* load(): some request that is not in use, all of them being alike.
AskLoad ==
  LET idle == {l \in Loads : load[l] = "idle"}
  IN  idle # {} /\ load' = [load EXCEPT ![CHOOSE l \in idle : TRUE] = "asked"]

----------------------------------------------------------------------------
(* The worker and the other writers                                        *)

\* The last write of an upload or a retry, which comes when it comes; the page
\* loads the list on its answer, unless that is lost.
MarkProcessing ==
  /\ marks > 0
  /\ marks' = marks - 1
  /\ row' = "PROCESSING"
  /\ AskLoad \/ UNCHANGED load
  /\ UNCHANGED <<stage, asked, callback, runs, had, items, live, misses,
                 sock, wire>>

\* A run that fails early, on its file or its type, leaves the status until it
\* concludes.
Start ==
  /\ stage = "queued" /\ runs < MaxRuns
  /\ runs' = runs + 1
  /\ stage' = "running" /\ row' \in {row, "PROCESSING"}
  /\ UNCHANGED <<marks, asked, callback, had, page, sock, wire>>

\* Also the event with which a run begins.
EmitProgress ==
  /\ stage = "running" /\ Len(wire) < MaxEvents
  /\ Emit("PROCESSING")
  /\ UNCHANGED <<row, stage, marks, asked, callback, runs, had, page, sock>>

\* Seeded defect: the verdict is announced before it is written.
ConcludeAloud ==
  \E v \in Verdicts :
    /\ stage = "running"
    /\ stage' = "done" /\ Emit(v)
    /\ UNCHANGED <<row, marks, asked, callback, runs, had, page, sock>>

\* The verdict is written, to be announced after the audit entry; if that is
\* refused the completed import becomes a failed one.
Conclude ==
  \E v \in Verdicts :
    /\ stage = "running" \/ (stage = "COMPLETED" /\ v = "FAILED")
    /\ row' = v /\ had' = had \union {v} /\ stage' = v
    /\ UNCHANGED <<marks, asked, callback, runs, page, sock, wire>>

\* After the event the queue removes the job, unless the process dies before:
\* the job is then run again (where it is given up instead and the callback is
\* called, this is as if the next run broke off at once).
Announce ==
  /\ stage \in Verdicts
  /\ stage' \in {"queued", "done"}
  /\ Emit(stage)
  /\ UNCHANGED <<row, marks, asked, callback, runs, had, page, sock>>

\* The run ends in silence, with another attempt to come or not: the process
\* dies, or process() throws and the callback is called (for the last run that
\* threw, if there are several).
BreakOff ==
  /\ stage \in {"running"} \union Verdicts
  /\ stage' \in {"queued", "done"}
  /\ callback' \in {"none", "find", callback}
  /\ UNCHANGED <<row, marks, asked, runs, had, page, sock, wire>>

CallbackReads ==
  /\ callback = "find"
  /\ callback' = IF row = "COMPLETED" THEN "none" ELSE "mark"
  /\ UNCHANGED <<row, stage, marks, asked, runs, had, page, sock, wire>>

\* Whatever has become of the import since it was read.
CallbackMark ==
  /\ callback = "mark"
  /\ callback' = "emit"
  /\ row' = "FAILED" /\ had' = had \union {"FAILED"}
  /\ UNCHANGED <<stage, marks, asked, runs, page, sock, wire>>

CallbackEmit ==
  /\ callback = "emit"
  /\ callback' = "none"
  /\ Emit("FAILED")
  /\ UNCHANGED <<row, stage, marks, asked, runs, had, page, sock>>

----------------------------------------------------------------------------
(* The list of the page                                                    *)

\* GET /imports reads the row.
ReadList(l) ==
  /\ load[l] = "asked"
  /\ load' = [load EXCEPT ![l] = row]
  /\ UNCHANGED <<worker, items, live, misses, sock, wire>>

\* The effect on [items] subscribes to every active import.
SubscribesTo(status) == status \in Unfinished

\* setItems runs the effect anew: the old subscription is cancelled with all
\* that is on its way, and an active import gets a new one.
Loaded(l) ==
  /\ load[l] \in RowStatuses
  /\ items' = load[l]
  /\ load' = [load EXCEPT ![l] = "idle"]
  /\ sock' = IF SubscribesTo(load[l]) THEN "connecting" ELSE "closed"
  /\ wire' = << >>
  /\ UNCHANGED <<worker, live, misses>>

LoadFails(l) ==
  /\ load[l] # "idle"
  /\ misses < MaxMisses
  /\ misses' = misses + 1
  /\ load' = [load EXCEPT ![l] = "idle"]
  /\ UNCHANGED <<worker, items, live, sock, wire>>

\* Seeded defect: the list is polled while the socket is down.
PollsOffline == items \in Unfinished /\ sock = "closed"

\* The interval of 10 s lives as long as the effect with its active import.
Polls == items \in Unfinished

Poll ==
  /\ Polls
  /\ AskLoad
  /\ UNCHANGED <<worker, items, live, misses, sock, wire>>

\* The button of the list; also the load at the mount of the page.
Refresh ==
  /\ AskLoad
  /\ UNCHANGED <<worker, items, live, misses, sock, wire>>

\* The button of the import and its request, which the server takes only of a
\* failed import, and whose job the queue ignores if it still knows the id.
Retry ==
  /\ items = "FAILED" /\ row = "FAILED"
  /\ asked < MaxRuns
  /\ asked' = asked + 1 /\ marks' = marks + 1
  /\ \/ stage = "done" /\ stage' = "queued"
     \/ UNCHANGED stage
  /\ UNCHANGED <<row, callback, runs, had, page, sock, wire>>

----------------------------------------------------------------------------
(* The socket                                                              *)

\* The connection is up, and the server has taken the join-import that the
\* page sends at once.
Join ==
  /\ sock = "connecting"
  /\ sock' = "joined"
  /\ UNCHANGED <<worker, page, wire>>

\* No connection; or no user yet when join-import comes, as the look-up of
\* handleConnection is still waiting; or a session that has lapsed.
NotAdmitted ==
  /\ sock = "connecting"
  /\ sock' = "closed"
  /\ UNCHANGED <<worker, page, wire>>

\* A connection is lost.  The next one does not join again, so that the page
\* is without events until it has loaded a list.
Disconnect ==
  /\ sock = "joined"
  /\ sock' = "closed"
  /\ wire' = << >>
  /\ UNCHANGED <<worker, page>>

\* An event of a subscription that was not cancelled; a verdict is followed
\* by a load.
Receive ==
  /\ wire # << >>
  /\ live' = Head(wire)
  /\ wire' = Tail(wire)
  /\ IF Head(wire) \in Verdicts THEN AskLoad ELSE UNCHANGED load
  /\ UNCHANGED <<worker, items, misses, sock>>

ProgressNext ==
  \/ MarkProcessing \/ Start \/ EmitProgress \/ Conclude \/ Announce
  \/ BreakOff \/ CallbackReads \/ CallbackMark \/ CallbackEmit
  \/ \E l \in Loads : ReadList(l) \/ Loaded(l) \/ LoadFails(l)
  \/ Poll \/ Refresh \/ Retry
  \/ Join \/ NotAdmitted \/ Disconnect \/ Receive

ProgressSpec == ProgressInit /\ [][ProgressNext]_progressVars

\* The event loop of the page fires its interval and the server answers;
\* nothing is assumed of the socket, nor of the worker.
ProgressFairness ==
  /\ WF_progressVars(Poll)
  /\ \A l \in Loads : WF_progressVars(ReadList(l)) /\ WF_progressVars(Loaded(l))

ProgressFairSpec == ProgressSpec /\ ProgressFairness

----------------------------------------------------------------------------
(* Properties                                                              *)

ProgressTypeOK ==
  /\ row \in RowStatuses
  /\ stage \in {"queued", "running", "done"} \union Verdicts
  /\ marks \in Nat /\ asked \in Nat
  /\ callback \in {"none", "find", "mark", "emit"}
  /\ runs \in 0..MaxRuns /\ had \subseteq Verdicts
  /\ items \in RowStatuses \union {"none"}
  /\ live \in RowStatuses \union {"none"}
  /\ load \in [Loads -> {"idle", "asked"} \union RowStatuses]
  /\ sock \in {"closed", "connecting", "joined"}
  /\ wire \in Seq(RowStatuses)
  /\ misses \in 0..MaxMisses

\* page.tsx:129, live?.status ?? item.status.
Shown == IF live # "none" THEN live ELSE items

\* What the page shows as the verdict of an import has been its verdict in
\* the database, whichever of list and events it comes from and however late
\* (import.worker.ts 105-129: the row is written before the event is sent).
NeverAhead == Shown \in Verdicts => Shown \in had

\* Once an import keeps a verdict, and a list has been loaded, the list comes
\* to rest at a verdict that the import has had, be it without any socket: at
\* the last one, unless there were several, when an answer that was read
\* before may arrive after it (page.tsx 57-82, api.ts 231-252).
ListSettles ==
  <>[](row \in Verdicts) /\ <>(items # "none") => <>[](items \in had)

\* page.tsx:73, "A reconnect or the fallback list refresh keeps the status
\* visible": what the code does not do.  An event of the middle of the import
\* covers the verdict in the list for good when the event of the verdict fell
\* into the gap between two subscriptions.
VerdictIsShown ==
  <>[](row \in Verdicts) /\ <>(items # "none") => <>[](had = {row} => Shown = row)
=============================================================================
