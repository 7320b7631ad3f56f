------------------------ MODULE MaintenanceWorkflows ------------------------
(***************************************************************************)
(* The workflows that serve a maintenance command: a build of the          *)
(* embedding index, a reindex (a build and then a new generation of every  *)
(* document), and polls of the inbox, requested, forced or scheduled; and  *)
(* the builder they replace, a Python child that still serves old build    *)
(* commands.                                                               *)
(*                                                                         *)
(* They share the rows of embedding_index_state, of which the one updated  *)
(* last is the gate, and the document runs that a discovery creates.  An   *)
(* awaited activity takes effect in one step, or fails and is tried again  *)
(* from its beginning; the outbox is taken at its contract, so that a      *)
(* request starts its workflow.  What becomes of a document whose workflow *)
(* was started is the subject of DocumentLifecycle.                        *)
(***************************************************************************)
EXTENDS Integers, Sequences, FiniteSets, FiniteSetsExt

CONSTANTS
    Plans,          \* command histories: for each command its kind and its limit of documents
    NumDocs,        \* documents of the Paperless server
    MaxTries,       \* attempts of an activity (5 in the code)
    MaxFaults       \* bound: lost completions, exhausted database activities, dead old
                    \* builders and stale marks by an administrator, taken together

Kinds == {"build", "reindex", "poll", "forced_poll", "scheduled_poll", "old_build"}

ASSUME PlansAssumption == \A p \in Plans : p \in Seq(Kinds \X (1..NumDocs))
ASSUME BoundsAssumption == NumDocs \in Nat \ {0} /\ MaxTries \in Nat \ {0} /\ MaxFaults \in Nat

Docs == 1..NumDocs
Polls == {"poll", "forced_poll", "scheduled_poll"}
CommandStatuses == {"absent", "queued", "running", "blocked", "succeeded", "skipped", "failed_permanent"}
Active == {"queued", "running"}     \* Command::activeStatuses; none is left pending
Ended == {"blocked", "succeeded", "skipped", "failed_permanent"}
RowStatuses == {"building", "stale", "complete", "failed"}
\* "released": queued, with its start intent recorded; "owned": started or signalled.
RunStatuses == {"absent", "blocked", "queued", "released", "owned"}

VARIABLES
    plan,       \* the commands of this history
    command,    \* status of each command
    rows,       \* embedding_index_state in order of creation: command (0: none), status, documents listed
    touched,    \* the row updated last (0: there is none)
    store,      \* documents with an embedding
    wf,         \* the workflow, or the old builder, of each command
    runs,       \* of each document the run of key 0 (a discovery) and of key c (forced by command c)
    forgotten,  \* history: starts that an attempt found before it failed and no later one found again
    overrun,    \* history: a builder goes on with a row that was marked stale, or finished unseen
    faults      \* how much of the bound is used

vars == <<plan, command, rows, touched, store, wf, runs, forgotten, overrun, faults>>
index == <<rows, touched>>
discovered == <<runs, forgotten>>

Cmds == DOMAIN plan
Kind(c) == plan[c][1]
\* What Paperless lists for a command: the documents up to its limit.
Listing(c) == 1..plan[c][2]
Key(c) == IF Kind(c) \in {"forced_poll", "reindex"} THEN c ELSE 0
Keys == {0} \union Cmds
Forces(c) == Key(c) # 0
At(c, place) == wf[c].at = place
Becomes(c, k) == wf' = [wf EXCEPT ![c] = k]
Steps(c, place) == Becomes(c, [wf[c] EXCEPT !.at = place])
\* Where a workflow is: activities of a build, of a discovery, of the old builder.
Places == {"idle", "creating", "configuring", "preparing", "listing", "embedding", "failing",
           "loading", "discovering", "starting", "signalling", "failing_discovery", "done", "lost",
           "launched", "old_listing", "old_embedding"}
Idle == [at |-> "idle", tries |-> 0, todo |-> {}, failed |-> {}, found |-> {}, seen |-> "none", verdict |-> "none"]
Fault == faults < MaxFaults /\ faults' = faults + 1
Begins(c, place) == Becomes(c, [Idle EXCEPT !.at = place])

TypeOK ==
    /\ command \in [Cmds -> CommandStatuses]
    /\ rows \in Seq([by : Keys, status : RowStatuses, listed : SUBSET Docs])
    /\ touched \in 0..Len(rows)
    /\ store \subseteq Docs
    /\ wf \in [Cmds -> [at : Places, tries : 0..MaxTries, todo : SUBSET Docs, failed : SUBSET Docs,
                        found : SUBSET Docs, seen : {"none", "open", "closed"},
                        verdict : {"none", "succeeded", "skipped"}]]
    /\ runs \in [Docs -> [Keys -> RunStatuses]]
    /\ forgotten \subseteq Docs \X Keys
    /\ overrun \in BOOLEAN
    /\ faults \in 0..MaxFaults

\* The server is new, or its index was built before; a document may have been
\* discovered before.  Commands of the old builder are already queued.
Init ==
    /\ plan \in Plans
    /\ command = [c \in Cmds |-> IF Kind(c) = "old_build" THEN "queued" ELSE "absent"]
    /\ wf = [c \in Cmds |-> Idle]
    /\ \/ rows = <<>> /\ touched = 0 /\ store = {}
       \/ rows = <<[by |-> 0, status |-> "complete", listed |-> Docs]>> /\ touched = 1 /\ store = Docs
    /\ \E known \in {{}, {1}} :
            runs = [d \in Docs |-> [k \in Keys |-> IF k = 0 /\ d \in known THEN "owned" ELSE "absent"]]
    /\ forgotten = {} /\ overrun = FALSE
    /\ faults = 0

\* PipelineStartGate::isOpen, _embedding_ready: the row updated last is complete.
GateOpen == touched # 0 /\ rows[touched].status = "complete"
\* The exclusive advisory lock, which an old builder holds for all of its work.
LeaseTaken == \E c \in Cmds : wf[c].at \in {"old_listing", "old_embedding"}
OwnRows(c) == {i \in DOMAIN rows : rows[i].by = c}
RowOf(c) == Max(OwnRows(c))
Writes(i, row) == /\ rows' = [j \in DOMAIN rows \union {i} |-> IF j = i THEN row ELSE rows[j]]
                  /\ touched' = i
Projects(c, status) == Writes(RowOf(c), [rows[RowOf(c)] EXCEPT !.status = status])

\* The workflow of that command may still write to its row.
AtWork(b) == b # 0 /\ wf[b].at \in {"preparing", "listing", "embedding"}

-----------------------------------------------------------------------------
(* Requests.                                                               *)

\* markStaleInsideMutation: the row created last, or a first one.  A row that
\* already says so for the same reason is not saved.
MarkRowStale ==
    /\ ~LeaseTaken
    /\ LET last == Len(rows) IN
       IF last = 0
         THEN Writes(1, [by |-> 0, status |-> "stale", listed |-> {}]) /\ UNCHANGED overrun
         ELSE /\ \/ Writes(last, [rows[last] EXCEPT !.status = "stale"])
                 \/ rows[last].status = "stale" /\ UNCHANGED index
              /\ overrun' = (overrun \/ AtWork(rows[last].by))

\* A build is coalesced with one that is active; a reindex is not.
RequestBuild(c) ==
    /\ Kind(c) = "build" /\ command[c] = "absent"
    /\ ~\E b \in Cmds : Kind(b) \in {"build", "old_build"} /\ command[b] \in Active
    /\ MarkRowStale
    /\ command' = [command EXCEPT ![c] = "queued"]
    /\ Begins(c, "configuring")
    /\ UNCHANGED <<plan, store, discovered, faults>>

RequestReindex(c) ==
    /\ Kind(c) = "reindex" /\ command[c] = "absent"
    /\ MarkRowStale
    /\ command' = [command EXCEPT ![c] = "queued"]
    /\ Begins(c, "configuring")
    /\ UNCHANGED <<plan, store, discovered, faults>>

RequestPoll(c) ==
    /\ Kind(c) \in {"poll", "forced_poll"} /\ command[c] = "absent"
    /\ command' = [command EXCEPT ![c] = "queued"]
    /\ Begins(c, "loading")
    /\ UNCHANGED <<plan, index, store, discovered, overrun, faults>>

\* The schedule starts its workflow, which creates the command under the poll
\* lock -- none if the interval is 0 or another poll is active.  A second
\* attempt, whose predecessor's answer was lost, finds the command by run id.
ScheduleTick(c) ==
    /\ Kind(c) = "scheduled_poll" /\ At(c, "idle")
    /\ Begins(c, "creating")
    /\ UNCHANGED <<plan, command, index, store, discovered, overrun, faults>>

\* Mutant: the attempt does not look for its own command.
CreateScheduledAgain(c) ==
    /\ At(c, "creating")
    /\ \/ /\ \A b \in Cmds : Kind(b) \in Polls => command[b] \notin Active
          /\ command' = [command EXCEPT ![c] = "queued"]
          /\ \/ Begins(c, "loading") /\ UNCHANGED faults
             \/ /\ Fault
                /\ UNCHANGED wf
       \/ Begins(c, "done") /\ UNCHANGED <<command, faults>>
    /\ UNCHANGED <<plan, index, store, discovered, overrun>>
CreateScheduled(c) ==
    /\ At(c, "creating")
    /\ \/ /\ command[c] = "absent"
          /\ \A b \in Cmds : Kind(b) \in Polls => command[b] \notin Active
          /\ command' = [command EXCEPT ![c] = "queued"]
          /\ \/ Begins(c, "loading") /\ UNCHANGED faults
             \/ /\ Fault
                /\ UNCHANGED wf
       \/ command[c] # "absent" /\ Begins(c, "loading") /\ UNCHANGED <<command, faults>>
       \/ command[c] = "absent" /\ Begins(c, "done") /\ UNCHANGED <<command, faults>>
    /\ UNCHANGED <<plan, index, store, discovered, overrun>>

\* EmbeddingIndexController::markStale.
MarkStale ==
    /\ Fault
    /\ MarkRowStale
    /\ UNCHANGED <<plan, command, store, wf, discovered>>

-----------------------------------------------------------------------------
(* EmbeddingIndexWorkflow.                                                 *)

\* load_model_phase_configuration: the model is fixed for the whole build.
Configure(c) ==
    /\ At(c, "configuring")
    /\ Steps(c, "preparing")
    /\ UNCHANGED <<plan, command, index, store, discovered, overrun, faults>>

\* _prepare_build_projection: the row of this command is resumed, or created
\* unless another generation is being built.
\* Mutant: nobody else is looked for.
PrepareAnyway(c) ==
    /\ At(c, "preparing") /\ ~LeaseTaken
    /\ IF OwnRows(c) = {} THEN Writes(Len(rows) + 1, [by |-> c, status |-> "building", listed |-> {}])
       ELSE Projects(c, "building")
    /\ command' = [command EXCEPT ![c] = "running"]
    /\ Steps(c, "listing")
    /\ UNCHANGED <<plan, store, discovered, overrun, faults>>
Prepare(c) ==
    /\ At(c, "preparing") /\ ~LeaseTaken
    /\ \/ OwnRows(c) # {} /\ Projects(c, "building")
       \/ /\ OwnRows(c) = {}
          /\ \A i \in DOMAIN rows : rows[i].status # "building"
          /\ Writes(Len(rows) + 1, [by |-> c, status |-> "building", listed |-> {}])
    /\ command' = [command EXCEPT ![c] = "running"]
    /\ Steps(c, "listing")
    /\ UNCHANGED <<plan, store, discovered, overrun, faults>>

\* Refused for another generation, or Paperless cannot be listed.
PrepareFails(c) ==
    /\ \/ At(c, "listing")
       \/ /\ At(c, "preparing") /\ ~LeaseTaken /\ OwnRows(c) = {}
          /\ \E i \in DOMAIN rows : rows[i].status = "building"
    /\ Becomes(c, [wf[c] EXCEPT !.tries = wf[c].tries + 1,
                                !.at = IF wf[c].tries + 1 < MaxTries THEN "preparing" ELSE "failing"])
    /\ UNCHANGED <<plan, command, index, store, discovered, overrun, faults>>

\* Those of the listed documents that are trusted and have text: all or none.
ListDocuments(c) ==
    /\ At(c, "listing")
    /\ \E listed \in {{}, Listing(c)} :
         /\ Writes(RowOf(c), [rows[RowOf(c)] EXCEPT !.listed = listed])
         /\ Becomes(c, [wf[c] EXCEPT !.at = "embedding", !.todo = listed, !.failed = {}, !.tries = 0])
    /\ UNCHANGED <<plan, command, store, discovered, overrun, faults>>

\* _project_embedding_progress counts, and makes this the row updated last.
Progress(c, row) == Writes(RowOf(c), row)

\* The next document is done with: it has its embedding, or could not be embedded.
Upcoming(c) == Min(wf[c].todo)
Past(c) == [wf[c] EXCEPT !.todo = wf[c].todo \ {Upcoming(c)}]
Embedded(c) ==
    /\ store' = store \union {Upcoming(c)}
    /\ Progress(c, rows[RowOf(c)])
    /\ Becomes(c, Past(c))
NotEmbedded(c) ==
    /\ Progress(c, rows[RowOf(c)])
    /\ Becomes(c, [Past(c) EXCEPT !.failed = wf[c].failed \union {Upcoming(c)}])
    /\ UNCHANGED store

\* embed_document, in up to five attempts, and project_embedding_progress.  The
\* document may not be trusted any more.
EmbedDocument(c) ==
    /\ At(c, "embedding") /\ wf[c].todo # {}
    /\ \/ Embedded(c) \/ NotEmbedded(c)
       \/ /\ Progress(c, [rows[RowOf(c)] EXCEPT !.listed = @ \ {Upcoming(c)}])
          /\ Becomes(c, Past(c))
          /\ UNCHANGED store
    /\ UNCHANGED <<plan, command, discovered, overrun, faults>>

\* finish_embedding_generation, over whatever its row says by now.  A complete
\* index releases every blocked run; a reindex goes on with its discovery.
\* Mutant: one document that failed is tolerated.
FinishEffectTolerant(c) ==
    LET complete == Cardinality(wf[c].failed) <= 1 IN
    /\ Projects(c, IF complete THEN "complete" ELSE "failed")
    /\ command' = [command EXCEPT ![c] = IF ~complete THEN "failed_permanent"
                                         ELSE IF Kind(c) = "reindex" THEN "running" ELSE "succeeded"]
    /\ runs' = [d \in Docs |-> [k \in Keys |->
                  IF complete /\ runs[d][k] = "blocked" THEN "released" ELSE runs[d][k]]]
FinishEffect(c) ==
    LET complete == wf[c].failed = {} IN
    /\ Projects(c, IF complete THEN "complete" ELSE "failed")
    /\ command' = [command EXCEPT ![c] = IF ~complete THEN "failed_permanent"
                                         ELSE IF Kind(c) = "reindex" THEN "running" ELSE "succeeded"]
    /\ runs' = [d \in Docs |-> [k \in Keys |->
                  IF complete /\ runs[d][k] = "blocked" THEN "released" ELSE runs[d][k]]]
FinishBuild(c) ==
    /\ At(c, "embedding") /\ wf[c].todo = {}
    /\ FinishEffect(c)
    /\ IF Kind(c) = "reindex" /\ wf[c].failed = {} THEN Begins(c, "loading") ELSE Begins(c, "done")
    /\ UNCHANGED <<plan, store, forgotten, overrun, faults>>

\* fail_embedding_preparation: what is left building and active is failed.
FailPreparation(c) ==
    /\ At(c, "failing")
    /\ IF \E i \in OwnRows(c) : rows[i].status = "building" THEN Projects(c, "failed") ELSE UNCHANGED index
    /\ command' = [command EXCEPT ![c] = IF @ \in Active THEN "failed_permanent" ELSE @]
    /\ Begins(c, "done")
    /\ UNCHANGED <<plan, store, discovered, overrun, faults>>

-----------------------------------------------------------------------------
(* Discovery: of the inbox by a poll, of every document by a reindex.      *)

\* _load_poll_command, _load_reindex_command: the command is running.
Loaded(c) == command' = [command EXCEPT ![c] = "running"]
\* And the listing that follows; a poll without an inbox tag has nothing to look at.
Load(c) ==
    /\ At(c, "loading")
    /\ Loaded(c)
    /\ \/ Becomes(c, [wf[c] EXCEPT !.at = "discovering", !.todo = Listing(c), !.found = {},
                                   !.seen = "none", !.verdict = "succeeded"])
       \/ Kind(c) \in Polls /\ Becomes(c, [wf[c] EXCEPT !.at = "starting", !.verdict = "skipped"])
    /\ UNCHANGED <<plan, index, store, discovered, overrun, faults>>

\* _persist_observation_and_run looks for a run of the document and at the gate ...
Look(c) ==
    /\ At(c, "discovering") /\ wf[c].todo # {} /\ wf[c].seen = "none"
    /\ LET d == Min(wf[c].todo) IN
       IF ~Forces(c) /\ \E k \in Keys : runs[d][k] # "absent"
         THEN Becomes(c, Past(c))
         ELSE Becomes(c, [wf[c] EXCEPT !.seen = IF GateOpen THEN "open" ELSE "closed"])
    /\ UNCHANGED <<plan, command, index, store, discovered, overrun, faults>>

\* ... and inserts its run unless one of its key has been committed meanwhile.
\* The start is returned only if the gate was open.
Persist(c) ==
    /\ At(c, "discovering") /\ wf[c].seen # "none"
    /\ LET d == Min(wf[c].todo)
           opened == wf[c].seen = "open"
       IN /\ runs' = [runs EXCEPT ![d][Key(c)] =
                        IF @ # "absent" THEN @ ELSE IF opened THEN "queued" ELSE "blocked"]
          /\ Becomes(c, [Past(c) EXCEPT !.seen = "none",
                                         !.found = wf[c].found \union (IF opened THEN {d} ELSE {})])
          /\ forgotten' = IF opened THEN forgotten \ {<<d, Key(c)>>} ELSE forgotten
    /\ UNCHANGED <<plan, command, index, store, overrun, faults>>

\* An attempt ends without an answer: what it found goes with it.
\* Mutant: one attempt too many.
DiscoveryFailsOnceMore(c) ==
    /\ wf[c].at \in {"loading", "discovering"}
    /\ forgotten' = forgotten \union (wf[c].found \X {Key(c)})
    /\ Becomes(c, [Idle EXCEPT !.tries = wf[c].tries + 1,
                 !.at = IF wf[c].tries + 1 <= MaxTries THEN "loading" ELSE "failing_discovery"])
    /\ UNCHANGED <<plan, command, index, store, runs, overrun, faults>>
DiscoveryFails(c) ==
    /\ wf[c].at \in {"loading", "discovering"}
    /\ forgotten' = forgotten \union (wf[c].found \X {Key(c)})
    /\ Becomes(c, [Idle EXCEPT !.tries = wf[c].tries + 1,
                 !.at = IF wf[c].tries + 1 < MaxTries THEN "loading" ELSE "failing_discovery"])
    /\ UNCHANGED <<plan, command, index, store, runs, overrun, faults>>

Discovered(c) ==
    /\ At(c, "discovering") /\ wf[c].todo = {}
    /\ Steps(c, "starting")
    /\ UNCHANGED <<plan, command, index, store, discovered, overrun, faults>>

\* _start_discovered_document_workflows: a child workflow under the identity of
\* the document.  One that runs turns it away, and unless it is a force so does
\* one that has run; a released run may have started it.
Existing(d) == IF \E k \in Keys : runs[d][k] = "owned" THEN {TRUE}
               ELSE IF \E k \in Keys : runs[d][k] = "released" THEN BOOLEAN ELSE {FALSE}
Child(c) == Min(wf[c].found)
Onwards(c) == Becomes(c, [wf[c] EXCEPT !.at = "starting", !.found = wf[c].found \ {Child(c)}])
Owns(c) == runs' = [runs EXCEPT ![Child(c)][Key(c)] = "owned"]
\* A start that is turned away is dropped, but a force goes on to signal it.
\* Mutant: a forced start that is rejected is dropped as well.
StartChildUnsignalled(c) ==
    /\ At(c, "starting") /\ wf[c].found # {}
    /\ \/ (Forces(c) \/ FALSE \in Existing(Child(c))) /\ Owns(c) /\ Onwards(c)
       \/ TRUE \in Existing(Child(c)) /\ Onwards(c) /\ UNCHANGED runs
    /\ UNCHANGED <<plan, command, index, store, forgotten, overrun, faults>>
StartChild(c) ==
    /\ At(c, "starting") /\ wf[c].found # {}
    /\ \/ (Forces(c) \/ FALSE \in Existing(Child(c))) /\ Owns(c) /\ Onwards(c)
       \/ ~Forces(c) /\ TRUE \in Existing(Child(c)) /\ Onwards(c) /\ UNCHANGED runs
       \/ Forces(c) /\ TRUE \in Existing(Child(c)) /\ Steps(c, "signalling") /\ UNCHANGED runs
    /\ UNCHANGED <<plan, command, index, store, forgotten, overrun, faults>>

\* The signal reaches the workflow of the document ...
Signal(c) ==
    /\ At(c, "signalling")
    /\ Owns(c) /\ Onwards(c)
    /\ UNCHANGED <<plan, command, index, store, forgotten, overrun, faults>>

\* ... or that has closed since it turned the start away.  Nothing handles the
\* error: the workflow fails with all the starts that it still holds.
SignalFails(c) ==
    /\ At(c, "signalling")
    /\ Steps(c, "lost")
    /\ UNCHANGED <<plan, command, index, store, discovered, overrun, faults>>

\* finish_poll_discovery, finish_reindex_discovery.
Reporting(c) == At(c, "starting") /\ wf[c].found = {}
ReportEffect(c) == command' = [command EXCEPT ![c] = wf[c].verdict]
Report(c) ==
    /\ Reporting(c)
    /\ ReportEffect(c)
    /\ Begins(c, "done")
    /\ UNCHANGED <<plan, index, store, discovered, overrun, faults>>

\* fail_poll_discovery, fail_reindex_discovery.
\* Mutant: over whatever the command says.
FailDiscoveryAlways(c) ==
    /\ At(c, "failing_discovery")
    /\ command' = [command EXCEPT ![c] = "failed_permanent"]
    /\ Begins(c, "done")
    /\ UNCHANGED <<plan, index, store, discovered, overrun, faults>>
FailDiscovery(c) ==
    /\ At(c, "failing_discovery")
    /\ command' = [command EXCEPT ![c] = IF @ \in {"succeeded", "skipped"} THEN @ ELSE "failed_permanent"]
    /\ Begins(c, "done")
    /\ UNCHANGED <<plan, index, store, discovered, overrun, faults>>

-----------------------------------------------------------------------------
(* What may go wrong in any of them.                                       *)

\* Where a workflow goes on when an activity has exhausted its attempts.  Where
\* it has no handler for that it is lost, and its command keeps its status.
Handler(c) ==
    CASE wf[c].at = "embedding" -> "failing"
      [] Reporting(c) /\ Kind(c) = "reindex" -> "failing_discovery"
      [] OTHER -> "lost"
\* The effect of an activity is committed and its completion lost: it runs
\* again, or that was its last attempt.
CompletionLost(c) ==
    /\ Fault
    /\ \/ At(c, "embedding") /\ wf[c].todo = {} /\ FinishEffect(c) /\ overrun' = TRUE
       \/ Reporting(c) /\ ReportEffect(c) /\ UNCHANGED <<index, runs, overrun>>
    /\ UNCHANGED wf \/ Begins(c, Handler(c))
    /\ UNCHANGED <<plan, store, forgotten>>

\* PostgreSQL stays away for all attempts of an activity.
Outage(c) ==
    /\ Reporting(c) \/ wf[c].at \in {"creating", "configuring", "embedding", "failing", "failing_discovery"}
    /\ Fault
    /\ Begins(c, Handler(c))
    /\ UNCHANGED <<plan, command, index, store, discovered, overrun>>

-----------------------------------------------------------------------------
(* The old builder, a Python child that holds the lease (actors/embedding),*)
(* and the recovery scan.                                                  *)

LaunchOld(c) ==
    /\ Kind(c) = "old_build" /\ command[c] = "queued" /\ At(c, "idle")
    /\ command' = [command EXCEPT ![c] = "running"]
    /\ Steps(c, "launched")
    /\ UNCHANGED <<plan, index, store, discovered, overrun, faults>>

\* start_embedding_index_build: any generation that is being built, its own of
\* an earlier attempt included, turns the command away.
StartOld(c) ==
    /\ At(c, "launched") /\ ~LeaseTaken
    /\ IF \E i \in DOMAIN rows : rows[i].status = "building"
         THEN /\ command' = [command EXCEPT ![c] = "blocked"]
              /\ Begins(c, "done")
              /\ UNCHANGED index
         ELSE /\ Writes(Len(rows) + 1, [by |-> c, status |-> "building", listed |-> {}])
              /\ Steps(c, "old_listing")
              /\ UNCHANGED command
    /\ UNCHANGED <<plan, store, discovered, overrun, faults>>

ListOld(c) ==
    /\ At(c, "old_listing")
    /\ Writes(RowOf(c), [rows[RowOf(c)] EXCEPT !.listed = Listing(c)])
    /\ Becomes(c, [wf[c] EXCEPT !.at = "old_embedding", !.todo = Listing(c)])
    /\ UNCHANGED <<plan, command, store, discovered, overrun, faults>>

\* A turn of the loop over the documents that have text.
EmbedOld(c) ==
    /\ At(c, "old_embedding") /\ wf[c].todo # {}
    /\ Embedded(c) \/ NotEmbedded(c)
    /\ UNCHANGED <<plan, command, discovered, overrun, faults>>

\* The gate opens without a release of the blocked runs.
FinishOld(c) ==
    /\ At(c, "old_embedding") /\ wf[c].todo = {}
    /\ Projects(c, IF wf[c].failed = {} THEN "complete" ELSE "failed")
    /\ command' = [command EXCEPT ![c] = IF wf[c].failed = {} THEN "succeeded" ELSE "failed_permanent"]
    /\ Begins(c, "done")
    /\ UNCHANGED <<plan, store, discovered, overrun, faults>>

\* An exception: the row fails, the command is tried again or fails for good.
FailOld(c) ==
    /\ wf[c].at \in {"old_listing", "old_embedding"}
    /\ Projects(c, "failed")
    /\ LET again == wf[c].tries + 1 < MaxTries IN
       /\ command' = [command EXCEPT ![c] = IF again THEN "queued" ELSE "failed_permanent"]
       /\ Becomes(c, [Idle EXCEPT !.tries = wf[c].tries + 1, !.at = IF again THEN "idle" ELSE "done"])
    /\ UNCHANGED <<plan, store, discovered, overrun, faults>>

\* The child dies and its command is handed to the next attempt; its row stays.
OldDies(c) ==
    /\ wf[c].at \in {"launched", "old_listing", "old_embedding"}
    /\ Fault
    /\ command' = [command EXCEPT ![c] = "queued"]
    /\ Begins(c, "idle")
    /\ UNCHANGED <<plan, index, store, discovered, overrun>>

\* releaseTemporalEmbeddingBlockedRuns.
\* Mutant: the scan looks at nothing but what the build released.
ScanReleaseForced ==
    /\ GateOpen
    /\ \E d \in Docs, k \in Keys \ {0} :
         runs[d][k] = "blocked" /\ runs' = [runs EXCEPT ![d][k] = "released"]
    /\ UNCHANGED <<plan, command, index, store, wf, forgotten, overrun, faults>>
ScanRelease ==
    /\ GateOpen
    /\ \E d \in Docs, k \in Keys :
         runs[d][k] = "blocked" /\ runs' = [runs EXCEPT ![d][k] = "released"]
    /\ UNCHANGED <<plan, command, index, store, wf, forgotten, overrun, faults>>

BuildStep(c) == \/ Configure(c) \/ Prepare(c) \/ PrepareFails(c) \/ ListDocuments(c)
                \/ EmbedDocument(c) \/ FinishBuild(c) \/ FailPreparation(c)
DiscoveryStep(c) == \/ CreateScheduled(c) \/ Load(c) \/ Look(c) \/ Persist(c) \/ DiscoveryFails(c)
                    \/ Discovered(c) \/ StartChild(c) \/ Signal(c) \/ SignalFails(c)
                    \/ Report(c) \/ FailDiscovery(c)
OldStep(c) == LaunchOld(c) \/ StartOld(c) \/ ListOld(c) \/ EmbedOld(c) \/ FinishOld(c) \/ FailOld(c)
WorkerStep(c) == BuildStep(c) \/ DiscoveryStep(c) \/ OldStep(c)

Next ==
    \/ \E c \in Cmds : \/ RequestBuild(c) \/ RequestReindex(c) \/ RequestPoll(c) \/ ScheduleTick(c)
                       \/ WorkerStep(c) \/ CompletionLost(c) \/ Outage(c) \/ OldDies(c)
    \/ MarkStale
    \/ ScanRelease

Spec == Init /\ [][Next]_vars

\* The Temporal worker, queue workers and the recovery scan run; nobody is
\* obliged to request anything.
AllCmds == 1..Max({Len(p) : p \in Plans})
Fairness == /\ \A c \in AllCmds : WF_vars(c \in Cmds /\ WorkerStep(c))
            /\ WF_vars(ScanRelease)
FairSpec == Spec /\ Fairness

-----------------------------------------------------------------------------
(* What the index and a discovery promise.                                 *)

\* An index that says it is complete has an embedding of every document its
\* builder listed and still found trusted (finish_embedding_generation,
\* _build_pgvector_embeddings), whoever built before, failed or was resumed.
CompleteIndexCovers == \A i \in DOMAIN rows : rows[i].status = "complete" => rows[i].listed \subseteq store

\* Two workflows, or a workflow and the old builder, never build at once, and
\* nothing is processed while one builds -- unless a row was marked stale while
\* its builder was at work, or finished without its builder's learning of it:
\* that builder then writes to its row once more, whoever builds by now.
OneGenerationAtATime ==
    overrun \/ (/\ Cardinality({i \in DOMAIN rows : rows[i].status = "building"}) <= 1
                /\ (\E i \in DOMAIN rows : rows[i].status = "building") => ~GateOpen)

\* The workflow of that forced command failed over a signal, and the start of
\* the document was one of those it held.
Stranded(d, k) == k # 0 /\ At(k, "lost") /\ d \in wf[k].found
\* A first generation that a forced one has overtaken.
Overtaken(d, k) == k = 0 /\ \E f \in Keys \ {0} : runs[d][f] \in {"released", "owned"}

\* A run that is queued without a start intent is about to be started by the
\* workflow that found it, and that is still alive.  The exceptions are the
\* starts an attempt took with it, those a forced command lost with its workflow
\* (workflows.py 650-664), and a first generation that a forced one has overtaken.
QueuedRunHasAStarter ==
    \A d \in Docs, k \in Keys : runs[d][k] = "queued" =>
        \/ \E c \in Cmds : Key(c) = k /\ d \in wf[c].found /\ ~At(c, "lost")
        \/ <<d, k>> \in forgotten \/ Stranded(d, k) \/ Overtaken(d, k)

\* What a command reports stays: repeated and exhausted activities that come
\* after its report leave it alone.
OutcomesAreFinal ==
    [][\A c \in Cmds : command[c] \in Ended => command'[c] = command[c]]_vars

\* A command that is queued or running ends, whatever fails, unless its workflow
\* is lost where it has no handler.  An active build or poll is worth more than
\* itself: as long as it is, no build is accepted and no poll is scheduled.
CommandsSettle ==
    \A c \in AllCmds : (c \in Cmds /\ command[c] \in Active) ~> (command[c] \in Ended \/ At(c, "lost"))

\* A run that a discovery left blocked leaves that state while the index is
\* complete, though it was inserted after the build had released the others or
\* the builder was the old one, which releases nothing.
BlockedRunsLeave ==
    \A d \in Docs : (runs[d][0] = "blocked" /\ GateOpen) ~> (runs[d][0] # "blocked" \/ ~GateOpen)

\* docs/implementation-plan-temporal-migration.md:15, "Every Paperless and
\* PostgreSQL activity is idempotent and safe after worker loss": when all
\* workflows are through, no run they created is left without a start.
DiscoveredRunIsStarted ==
    (\A c \in Cmds : wf[c].at = "done") => \A d \in Docs, k \in Keys : runs[d][k] # "queued"

\* How far that is kept, workflows that failed included: the runs that are left
\* are those an attempt or a refused signal took with it, or a first generation
\* that a forced one has overtaken.
LeftRunsWereForgotten ==
    (\A c \in Cmds : wf[c].at \in {"done", "lost"}) =>
        \A d \in Docs, k \in Keys : runs[d][k] = "queued" =>
            <<d, k>> \in forgotten \/ Stranded(d, k) \/ Overtaken(d, k)
=============================================================================
