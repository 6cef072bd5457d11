---- MODULE DurableSpecs ----
(***************************************************************************)
(* From a draft to work: the specification versions, cases and work items  *)
(* of one durable job (application/service.ts, materialize.ts).            *)
(*                                                                         *)
(* Callers propose, approve, ingest discoveries, revise and cancel; each   *)
(* is a process with its own connection, so what is atomic is a statement, *)
(* or the one transaction of activateRevision, cancelJob, claimWork and    *)
(* commitOutcome.  Workers tick the job as in DurableDispatch, of which    *)
(* only the steps that touch specifications, items and the job row are     *)
(* here: no human request and no circuit exists, so no wake time is saved. *)
(***************************************************************************)
EXTENDS Naturals, Sequences, JobLifecycle

CONSTANTS
    MaxVersion,     \* bounds the specification versions
    Drafts,         \* what a person may submit; a draft compiles or is refused
    SeedTemplates,  \* the job-scoped templates that are not discoverable
    CaseTemplates,  \* the case-scoped templates, in the order of the draft
    DepsOf,         \* DepsOf[t]: the case-scoped templates t depends on
    Cases, Facts,   \* case keys, and the facts a discovery may bring
    SeedBatches,    \* fresh materializations of the seeds: bounds approvals
    CaseBatches,    \* fresh materializations of a case: bounds them too
    Callers, Workers,
    Unreliable,     \* the processes that may die between two statements
    Calls,          \* the calls people make
    None

Range(s) == {s[n] : n \in DOMAIN s}
Templates == Range(SeedTemplates) \cup Range(CaseTemplates)
Versions == 1..MaxVersion
Batches == SeedBatches \cup CaseBatches

\* The hash of a compiled draft: the version is part of the hashed bytes.
\* Every draft has the same templates, so an item's template always exists.
Hashes == Versions \X Drafts

\* A work item is named by its materialization and its template: newId gives
\* every materialization ids of its own.
Ids == Batches \X Templates

ASSUME MaxVersionIsNumber == MaxVersion \in Nat \ {0}
\* The compiler refuses a draft that names a template twice.
Distinct(s) == \A m, n \in DOMAIN s : s[m] = s[n] => m = n

ASSUME SeedsAreSequence ==
    SeedTemplates \in Seq(Range(SeedTemplates)) /\ Distinct(SeedTemplates)
ASSUME CaseGraphIsSequence ==
    /\ CaseTemplates \in Seq(Range(CaseTemplates)) /\ Distinct(CaseTemplates)
    /\ CaseTemplates # <<>>
ASSUME DepsWithinScope == DepsOf \in [Templates -> SUBSET Range(CaseTemplates)]
ASSUME NoneIsNothing == None \notin Hashes \cup Batches \cup Cases \cup Facts \cup Ids

VARIABLES
    job,        \* the row of jobs
    spec,       \* the rows of spec_versions
    caseFacts,  \* the rows of cases: what is known of each, {} for no row
    item,       \* the rows of work_items
    caller,     \* where each caller stands and what it holds
    worker,     \* where each worker stands in a tick and what it holds
    confirmed,  \* history: the hashes people named when they approved or revised
    ratified,   \* history: the hashes that were approved at some time
    completed   \* history: the items that an attempt completed

rows == <<job, spec, caseFacts, item>>
history == <<confirmed, ratified, completed>>
vars == <<rows, caller, worker, history>>

----------------------------------------------------------------------------
(* The rows and the local states.                                          *)

\* active stands for active_spec_version and active_spec_hash.
JobRows == [lifecycle : Lifecycles, draft : Versions, active : Hashes \cup {None}]

SpecRows == [status : {"absent", "proposed", "approved"}, draft : Drafts \cup {None}]

ItemRows == [status : {"absent", "pending", "ready", "leased", "done", "failed", "cancelled"},
             case : Cases \cup {None},
             hash : Hashes \cup {None}]

CallerStates ==
    [pc    : {"idle", "propose", "await", "check", "approve", "activate",
              "list", "upsert", "case", "save", "revise"},
     job   : JobRows,                    \* the job row read by this call
     hash  : Hashes \cup {None},         \* the specification in hand
     cases : SUBSET Cases,               \* the discoveries not materialized yet
     fact  : Facts \cup {None},          \* what the discoveries bring
     known : [Cases -> SUBSET Facts],    \* the case rows to write back
     todo  : SUBSET Cases,               \* those not written yet
     key   : Cases \cup {None},          \* the case in hand, None for seeds
     batch : Batches \cup {None},        \* the materialization in hand
     left  : Seq(Templates)]             \* its items not saved yet

WorkerStates ==
    [pc   : {"idle", "approved", "pick", "claim", "begin", "run"},
     job  : JobRows,
     hash : Hashes \cup {None},          \* the approved specification read
     item : Ids \cup {None}]

NewJob == [lifecycle |-> "planning", draft |-> 1, active |-> None]
Nothing == [k \in Cases |-> {}]

AtRest == [pc |-> "idle", job |-> NewJob, hash |-> None, cases |-> {}, fact |-> None,
           known |-> Nothing, todo |-> {}, key |-> None, batch |-> None, left |-> <<>>]
Idle == [pc |-> "idle", job |-> NewJob, hash |-> None, item |-> None]

TypeOK ==
    /\ job \in JobRows
    /\ spec \in [Versions -> SpecRows]
    /\ caseFacts \in [Cases -> SUBSET Facts]
    /\ item \in [Ids -> ItemRows]
    /\ caller \in [Callers -> CallerStates]
    /\ worker \in [Workers -> WorkerStates]
    /\ confirmed \subseteq Hashes
    /\ ratified \subseteq Hashes
    /\ completed \subseteq Ids

\* createJob: planning, draft version 1, nothing else.
Init ==
    /\ job = NewJob
    /\ spec = [v \in Versions |-> [status |-> "absent", draft |-> None]]
    /\ caseFacts = Nothing
    /\ item = [i \in Ids |-> [status |-> "absent", case |-> None, hash |-> None]]
    /\ caller = [c \in Callers |-> AtRest]
    /\ worker = [w \in Workers |-> Idle]
    /\ confirmed = {} /\ ratified = {} /\ completed = {}

Present(i) == item[i].status # "absent"
HashOf(v) == <<v, spec[v].draft>>
SaveSpec(h, status) ==
    spec' = [spec EXCEPT ![h[1]] = [status |-> status, draft |-> h[2]]]

\* getApprovedSpec: the approved row of the highest version.
IsLatestApproved(h) ==
    /\ spec[h[1]] = [status |-> "approved", draft |-> h[2]]
    /\ \A v \in Versions : spec[v].status = "approved" => v <= h[1]

NoneApproved == \A v \in Versions : spec[v].status # "approved"

\* newId: ids no row has and nobody else was given.
FreshBatch(b) ==
    /\ \A t \in Templates : ~Present(<<b, t>>)
    /\ \A c \in Callers : caller[c].batch # b

Starts(c, call) == caller[c].pc = "idle" /\ call \in Calls

----------------------------------------------------------------------------
(* propose: getJob, saveSpecVersion, saveJob.                              *)

Propose(c, d) ==
    /\ Starts(c, "propose")
    /\ caller' = [caller EXCEPT ![c] = [AtRest EXCEPT !.pc = "propose", !.job = job,
                                                      !.hash = <<job.draft, d>>]]
    /\ UNCHANGED <<rows, worker, history>>

\* The row is written before the transition is tried on the copy: when that
\* throws, the call ends here and the row stays.
SaveProposal(c) ==
    /\ caller[c].pc = "propose"
    /\ SaveSpec(caller[c].hash, "proposed")
    /\ caller' = [caller EXCEPT ![c] =
                    IF CanTransition(caller[c].job.lifecycle, "awaiting_plan_approval")
                    THEN [@ EXCEPT !.pc = "await"] ELSE AtRest]
    /\ UNCHANGED <<job, caseFacts, item, worker, history>>

AwaitApproval(c) ==
    /\ caller[c].pc = "await"
    /\ job' = [caller[c].job EXCEPT !.lifecycle = "awaiting_plan_approval"]
    /\ caller' = [caller EXCEPT ![c] = AtRest]
    /\ UNCHANGED <<spec, caseFacts, item, worker, history>>

----------------------------------------------------------------------------
(* approve: getJob, getSpecVersion, saveSpecVersion, the seeds one by one, *)
(* saveJob.                                                                *)

\* The caller names the hash that was reviewed.  The ids of the seeds are set
\* aside here, so that the bound SeedBatches never stops a call half way.
Approve(c, h) ==
    /\ Starts(c, "approve")
    /\ \E b \in SeedBatches :
          /\ FreshBatch(b)
          /\ caller' = [caller EXCEPT ![c] = [AtRest EXCEPT !.pc = "check", !.job = job,
                                                            !.hash = h, !.batch = b]]
    /\ confirmed' = confirmed \cup {h}
    /\ UNCHANGED <<rows, worker, ratified, completed>>

\* Variant: any proposal will do.
CheckProposalStatus(c) ==
    LET v == caller[c].job.draft IN
    /\ caller[c].pc = "check"
    /\ caller' = [caller EXCEPT ![c] =
                    IF spec[v].status = "proposed"
                    THEN [@ EXCEPT !.pc = "approve", !.hash = HashOf(v)] ELSE AtRest]
    /\ UNCHANGED <<rows, worker, history>>

\* Throws unless the row of the draft version is proposed with that hash; the
\* row read now is the one that is approved.
CheckProposal(c) ==
    LET v == caller[c].job.draft IN
    /\ caller[c].pc = "check"
    /\ caller' = [caller EXCEPT ![c] =
                    IF spec[v].status = "proposed" /\ HashOf(v) = caller[c].hash
                    THEN [@ EXCEPT !.pc = "approve", !.hash = HashOf(v)] ELSE AtRest]
    /\ UNCHANGED <<rows, worker, history>>

\* Variant: the job is activated first and the seeds follow.
SaveApprovedJobFirst(c) ==
    /\ caller[c].pc = "approve"
    /\ SaveSpec(caller[c].hash, "approved")
    /\ ratified' = ratified \cup {caller[c].hash}
    /\ job' = IF CanTransition(caller[c].job.lifecycle, "active")
              THEN [caller[c].job EXCEPT !.lifecycle = "active", !.active = caller[c].hash]
              ELSE job
    /\ caller' = [caller EXCEPT ![c] =
                    [@ EXCEPT !.pc = IF SeedTemplates = <<>> THEN "activate" ELSE "save",
                              !.left = SeedTemplates]]
    /\ UNCHANGED <<caseFacts, item, worker, confirmed, completed>>

\* The approved row is saved and the seeds are made in memory.
SaveApproved(c) ==
    /\ caller[c].pc = "approve"
    /\ SaveSpec(caller[c].hash, "approved")
    /\ ratified' = ratified \cup {caller[c].hash}
    /\ caller' = [caller EXCEPT ![c] =
                    [@ EXCEPT !.pc = IF SeedTemplates = <<>> THEN "activate" ELSE "save",
                              !.left = SeedTemplates]]
    /\ UNCHANGED <<job, caseFacts, item, worker, confirmed, completed>>

\* saveWorkItem of the next item in hand.  Seeds are made without dependencies;
\* what depends on nothing is saved ready, the rest pending.
SaveItem(c) ==
    LET me == caller[c]
        t  == Head(me.left)
    IN
    /\ me.pc = "save"
    /\ item' = [item EXCEPT ![<<me.batch, t>>] =
                  [status |-> IF me.key = None \/ DepsOf[t] = {} THEN "ready" ELSE "pending",
                   case |-> me.key, hash |-> me.hash]]
    /\ caller' = [caller EXCEPT ![c] =
                    [me EXCEPT !.left = Tail(me.left),
                               !.pc = IF Tail(me.left) # <<>> THEN "save"
                                      ELSE IF me.key = None THEN "activate" ELSE "case"]]
    /\ UNCHANGED <<job, spec, caseFacts, worker, history>>

\* The job row is the copy of the first read; the transition throws unless
\* that copy was awaiting approval (or paused).
Activate(c) ==
    /\ caller[c].pc = "activate"
    /\ job' = IF CanTransition(caller[c].job.lifecycle, "active")
              THEN [caller[c].job EXCEPT !.lifecycle = "active", !.active = caller[c].hash]
              ELSE job
    /\ caller' = [caller EXCEPT ![c] = AtRest]
    /\ UNCHANGED <<spec, caseFacts, item, worker, history>>

----------------------------------------------------------------------------
(* ingestDiscovery: getApprovedSpec, upsertCases (a listing, then one      *)
(* insert per row known or new), and for each discovery a listing of the   *)
(* items and one insert per template.                                      *)

Ingest(c, K, f) ==
    /\ Starts(c, "ingest")
    /\ \E h \in Hashes :
          /\ IsLatestApproved(h)
          /\ caller' = [caller EXCEPT ![c] = [AtRest EXCEPT !.pc = "list", !.hash = h,
                                                            !.cases = K, !.fact = f]]
    /\ UNCHANGED <<rows, worker, history>>

\* upsertCase merges the discovery into the row listed now.
ListCases(c) ==
    LET merged == [k \in Cases |-> IF k \in caller[c].cases
                                   THEN caseFacts[k] \cup {caller[c].fact} ELSE caseFacts[k]]
    IN
    /\ caller[c].pc = "list"
    /\ caller' = [caller EXCEPT ![c] =
                    [@ EXCEPT !.pc = "upsert", !.known = merged,
                              !.todo = {k \in Cases : merged[k] # {}}]]
    /\ UNCHANGED <<rows, worker, history>>

UpsertCase(c, k) ==
    /\ caller[c].pc = "upsert"
    /\ k \in caller[c].todo
    /\ caseFacts' = [caseFacts EXCEPT ![k] = caller[c].known[k]]
    /\ caller' = [caller EXCEPT ![c] =
                    [@ EXCEPT !.todo = caller[c].todo \ {k},
                              !.pc = IF caller[c].todo = {k} THEN "case" ELSE "upsert"]]
    /\ UNCHANGED <<job, spec, item, worker, history>>

\* Variant: the items of the job are not filtered by case.
HasItemsOfJob(k) == \E i \in Ids : Present(i)

HasItems(k) == \E i \in Ids : Present(i) /\ item[i].case = k

\* A case that has any item is left alone.
SkipCase(c, k) ==
    /\ caller[c].pc = "case"
    /\ k \in caller[c].cases
    /\ HasItems(k)
    /\ caller' = [caller EXCEPT ![c].cases = @ \ {k}]
    /\ UNCHANGED <<rows, worker, history>>

\* materializeCaseWorkItems: the whole graph, in memory.
MaterializeCase(c, k) ==
    /\ caller[c].pc = "case"
    /\ k \in caller[c].cases
    /\ ~HasItems(k)
    /\ \E b \in CaseBatches :
          /\ FreshBatch(b)
          /\ caller' = [caller EXCEPT ![c] =
                          [@ EXCEPT !.pc = "save", !.cases = caller[c].cases \ {k}, !.key = k,
                                    !.batch = b, !.left = CaseTemplates]]
    /\ UNCHANGED <<rows, worker, history>>

EndIngest(c) ==
    /\ caller[c].pc = "case"
    /\ caller[c].cases = {}
    /\ caller' = [caller EXCEPT ![c] = AtRest]
    /\ UNCHANGED <<rows, worker, history>>

----------------------------------------------------------------------------
(* activateRevision: a read that numbers the version, then one transaction *)
(* that reads the job again.  cancelJob is one transaction.                *)

Revise(c, d) ==
    LET v == (IF job.active = None THEN job.draft ELSE job.active[1]) + 1 IN
    /\ Starts(c, "revise")
    /\ v \in Versions
    /\ caller' = [caller EXCEPT ![c] = [AtRest EXCEPT !.pc = "revise", !.hash = <<v, d>>]]
    /\ confirmed' = confirmed \cup {<<v, d>>}
    /\ UNCHANGED <<rows, worker, ratified, completed>>

Cancelled(S) ==
    item' = [i \in Ids |-> IF i \in S THEN [item[i] EXCEPT !.status = "cancelled"] ELSE item[i]]

\* The three migrations that go on: retain cancels what is not listed and not
\* done, cancel_rebuild what is listed or, without a list, what is not done;
\* map changes nothing.
Unfinished == {i \in Ids : Present(i) /\ item[i].status # "done"}

Migrate ==
    \/ \E S \in SUBSET {i \in Ids : Present(i)} :
          \/ Cancelled(Unfinished \ S)
          \/ Cancelled(S)
    \/ Cancelled(Unfinished)
    \/ UNCHANGED item

CommitRevision(c) ==
    /\ caller[c].pc = "revise"
    /\ job.lifecycle = "active" \/ CanTransition(job.lifecycle, "active")
    /\ SaveSpec(caller[c].hash, "approved")
    /\ ratified' = ratified \cup {caller[c].hash}
    /\ Migrate
    /\ job' = [lifecycle |-> "active", draft |-> caller[c].hash[1], active |-> caller[c].hash]
    /\ caller' = [caller EXCEPT ![c] = AtRest]
    /\ UNCHANGED <<caseFacts, worker, confirmed, completed>>

\* archive_job saves the version and leaves the items.
CommitArchive(c) ==
    /\ caller[c].pc = "revise"
    /\ CanTransition(job.lifecycle, "archived")
    /\ SaveSpec(caller[c].hash, "approved")
    /\ ratified' = ratified \cup {caller[c].hash}
    /\ job' = [job EXCEPT !.lifecycle = "archived"]
    /\ caller' = [caller EXCEPT ![c] = AtRest]
    /\ UNCHANGED <<caseFacts, item, worker, confirmed, completed>>

\* The transition throws and the transaction is rolled back.
RevisionRejected(c) ==
    /\ caller[c].pc = "revise"
    /\ \/ job.lifecycle # "active" /\ ~CanTransition(job.lifecycle, "active")
       \/ ~CanTransition(job.lifecycle, "archived")
    /\ caller' = [caller EXCEPT ![c] = AtRest]
    /\ UNCHANGED <<rows, worker, history>>

CancelJob(c) ==
    /\ Starts(c, "cancel")
    /\ CanCancel(job.lifecycle)
    /\ job' = [job EXCEPT !.lifecycle = "cancelled"]
    /\ Cancelled({i \in Ids : item[i].status \in {"pending", "ready", "leased"}})
    /\ UNCHANGED <<spec, caseFacts, caller, worker, history>>

----------------------------------------------------------------------------
(* A tick, as far as it reads specifications and writes items and the job. *)

TickStart(w) ==
    /\ worker[w].pc = "idle"
    /\ worker' = [worker EXCEPT ![w].pc = "approved", ![w].job = job]
    /\ UNCHANGED <<rows, caller, history>>

TickApproved(w) ==
    /\ worker[w].pc = "approved"
    /\ \E h \in Hashes \cup {None} :
          /\ IF h = None THEN NoneApproved ELSE IsLatestApproved(h)
          /\ worker' = [worker EXCEPT ![w].pc = "pick", ![w].hash = h]
    /\ UNCHANGED <<rows, caller, history>>

\* Variant: only the dependencies that exist are looked at.
DepsDoneIfPresent(i) ==
    \A t \in DepsOf[i[2]] : Present(<<i[1], t>>) => item[<<i[1], t>>].status = "done"

\* An item that is not there is not done.
DepsDone(i) == \A t \in DepsOf[i[2]] : item[<<i[1], t>>].status = "done"

\* The policy prefers the least id, and ids are random: any candidate.
Eligible(i) ==
    \/ item[i].status = "ready"
    \/ item[i].status = "pending" /\ DepsDone(i)

TickPick(w, i) ==
    /\ worker[w].pc = "pick"
    /\ worker[w].job.lifecycle = "active"
    /\ worker[w].hash # None
    /\ Eligible(i)
    /\ worker' = [worker EXCEPT ![w].pc = "claim", ![w].item = i]
    /\ UNCHANGED <<rows, caller, history>>

\* Nothing to do, no approved specification, or no runtime.
TickNothing(w) ==
    /\ worker[w].pc = "pick"
    /\ worker' = [worker EXCEPT ![w] = Idle]
    /\ UNCHANGED <<rows, caller, history>>

TickClaim(w) ==
    /\ worker[w].pc = "claim"
    /\ IF item[worker[w].item].status \in {"ready", "pending"}
       THEN /\ item' = [item EXCEPT ![worker[w].item].status = "leased"]
            /\ worker' = [worker EXCEPT ![w].pc = "begin"]
       ELSE /\ worker' = [worker EXCEPT ![w] = Idle]
            /\ UNCHANGED item
    /\ UNCHANGED <<job, spec, caseFacts, caller, history>>

\* The row is read again; the reducer will refuse any outcome on a row that
\* is not leased any more.
TickBegin(w) ==
    /\ worker[w].pc = "begin"
    /\ worker' = [worker EXCEPT ![w] =
                    IF item[worker[w].item].status = "leased"
                    THEN [@ EXCEPT !.pc = "run"] ELSE Idle]
    /\ UNCHANGED <<rows, caller, history>>

\* commitOutcome: the item and the job rows are written from the copies; a
\* completed output may also satisfy the job's oracle.
TickCommit(w, status, lifecycle) ==
    LET i == worker[w].item IN
    /\ worker[w].pc = "run"
    /\ item' = [item EXCEPT ![i].status = status]
    /\ completed' = IF status = "done" THEN completed \cup {i} ELSE completed
    /\ lifecycle = "completed" => status = "done"
    /\ job' = [worker[w].job EXCEPT !.lifecycle = lifecycle]
    /\ worker' = [worker EXCEPT ![w] = Idle]
    /\ UNCHANGED <<spec, caseFacts, caller, confirmed, ratified>>

----------------------------------------------------------------------------
CrashCaller(c) ==
    /\ c \in Unreliable
    /\ caller[c].pc # "idle"
    /\ caller' = [caller EXCEPT ![c] = AtRest]
    /\ UNCHANGED <<rows, worker, history>>

CrashWorker(w) ==
    /\ w \in Unreliable
    /\ worker[w].pc # "idle"
    /\ worker' = [worker EXCEPT ![w] = Idle]
    /\ UNCHANGED <<rows, caller, history>>

ApprovalStep(c) ==
    \/ \E d \in Drafts : Propose(c, d)
    \/ SaveProposal(c) \/ AwaitApproval(c)
    \/ \E h \in Hashes : Approve(c, h)
    \/ CheckProposal(c) \/ SaveApproved(c) \/ SaveItem(c) \/ Activate(c)

IngestStep(c) ==
    \/ ListCases(c)
    \/ \E k \in Cases : UpsertCase(c, k) \/ SkipCase(c, k) \/ MaterializeCase(c, k)
    \/ EndIngest(c)

RevisionStep(c) ==
    \/ \E d \in Drafts : Revise(c, d)
    \/ CommitRevision(c) \/ CommitArchive(c) \/ RevisionRejected(c)
    \/ CancelJob(c)

TickStep(w) ==
    \/ TickStart(w) \/ TickApproved(w) \/ TickNothing(w) \/ TickClaim(w) \/ TickBegin(w)
    \/ \E i \in Ids : TickPick(w, i)
    \/ \E status \in {"done", "failed"}, lifecycle \in {"active", "completed"} :
          TickCommit(w, status, lifecycle)

Next ==
    \/ \E c \in Callers :
          \/ ApprovalStep(c) \/ IngestStep(c) \/ RevisionStep(c) \/ CrashCaller(c)
          \/ \E K \in SUBSET Cases \ {{}}, f \in Facts : Ingest(c, K, f)
    \/ \E w \in Workers : TickStep(w) \/ CrashWorker(w)

Spec == Init /\ [][Next]_vars
----------------------------------------------------------------------------
(* Fairness: a caller goes on with its call; nobody has to make one.       *)

CallerGoesOn(c) ==
    \/ SaveProposal(c) \/ AwaitApproval(c) \/ CheckProposal(c) \/ SaveApproved(c)
    \/ SaveItem(c) \/ Activate(c)
    \/ IngestStep(c)
    \/ CommitRevision(c) \/ CommitArchive(c) \/ RevisionRejected(c)

FairSpec == Spec /\ \A c \in Callers : WF_vars(CallerGoesOn(c))

----------------------------------------------------------------------------
(* What holds.                                                             *)

Promise == INSTANCE ConfirmedWork WITH
              WorkIds <- Ids, approved <- ratified,
              bound <- [i \in Ids |-> item[i].hash]

\* Whatever proposals, approvals, revisions and stale writes race: only what a
\* person named by its hash is ever approved, every work item is made from a
\* specification approved before, and none changes its hash (service.ts
\* approve's hash_mismatch, CASE-03).
WorkIsConfirmed == Promise!Spec

\* An item of a case is opened for work only after attempts completed all it
\* depends on, although its graph is saved item by item in any order, a crash
\* may leave it partial and a revision may cancel what was done.
StartedAfterDeps ==
    \A i \in Ids :
        item[i].case # None /\ item[i].status \in {"leased", "done", "failed"} =>
            \A t \in DepsOf[i[2]] : <<i[1], t>> \in completed

\* A job that an approval activated (revisions have higher versions) has every
\* seed of exactly that specification, wherever a crash or a race cut in.
ActiveHasSeeds ==
    job.active # None /\ job.active[1] = 1 =>
        \E b \in SeedBatches : \A t \in Range(SeedTemplates) :
            item[<<b, t>>].hash = job.active

ItemsOf(k, t) == {i \in Ids : item[i].case = k /\ i[2] = t}

HasWholeGraph(k) == \A t \in Range(CaseTemplates) : ItemsOf(k, t) # {}

\* SPEC-05, "materializer can instantiate a full case pipeline from one
\* discovery record": a call that took a discovery in, and whose process
\* lives, leaves the whole graph, whichever cases of the batch were known.
IngestedIsWhole ==
    \A c \in Callers, k \in Cases :
        caller[c].pc = "list" /\ k \in caller[c].cases ~> HasWholeGraph(k)

====
