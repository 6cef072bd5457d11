---- MODULE DurableSpecsProofs ----
(***************************************************************************)
(* Approval, materialization and revisions, for all drafts, versions,      *)
(* cases, batches and processes: that DurableSpecs implements              *)
(* ConfirmedWork, that work starts after what it depends on, and that an   *)
(* activated job has its seeds.                                            *)
(*                                                                         *)
(* A call acts later on what it read before.  IInv says what the rows      *)
(* still owe to each call's and each worker's copies; it lasts because     *)
(* items are only added, and never change their hash or their case.        *)
(***************************************************************************)
EXTENDS DurableSpecs, TLAPS

\* Item i is a row of the items `it`.
There(i, it) == it[i].status # "absent"

\* Batch b has no item yet.
Unused(b, it) == \A t \in Templates : ~There(<<b, t>>, it)

\* Some materialization has every seed of the specification that an approval
\* made active; a revision's has a higher version.
Seeded(active, it) ==
    active # None /\ active[1] = 1 =>
        \E b \in SeedBatches : \A t \in Range(SeedTemplates) : it[<<b, t>>].hash = active

\* What a call knows of the rows, of what was named and of what was approved.
CallerKnown(me, it, named, passed) ==
    /\ me.pc = "propose" => me.hash \in Hashes
    /\ me.pc \in {"check", "approve"} =>
          /\ me.hash \in named
          /\ me.key = None /\ me.batch \in SeedBatches /\ Unused(me.batch, it)
    /\ me.pc = "revise" => me.hash \in named /\ me.hash[1] # 1
    /\ me.pc = "list" => me.fact \in Facts
    /\ me.pc \in {"list", "upsert", "case", "save", "activate"} => me.hash \in passed
    /\ me.pc = "save" =>
          /\ me.batch \in Batches /\ me.left # <<>> /\ Distinct(me.left)
          /\ \A t \in Range(me.left) : ~There(<<me.batch, t>>, it)
    /\ me.pc = "activate" => me.key = None /\ me.left = <<>>
    /\ me.pc \in {"save", "activate"} /\ me.key = None =>
          /\ me.batch \in SeedBatches
          /\ \A t \in Range(SeedTemplates) \ Range(me.left) : it[<<me.batch, t>>].hash = me.hash
    /\ Seeded(me.job.active, it)

\* An item may be opened for work, or was.
MayOpen(i, it, over) ==
    it[i].case # None => \A t \in DepsOf[i[2]] : <<i[1], t>> \in over

\* What a worker knows of the item it works on.
WorkerKnown(me, it, over) ==
    /\ me.pc \in {"claim", "begin", "run"} =>
          me.item \in Ids /\ There(me.item, it) /\ MayOpen(me.item, it, over)
    /\ Seeded(me.job.active, it)

\* An item is there exactly when it is bound; it is done because an attempt
\* completed it, and ready, in a case, because it depends on nothing.
ItemsKnown(it, over) ==
    \A i \in Ids :
        /\ There(i, it) <=> it[i].hash # None
        /\ it[i].status = "done" => i \in over
        /\ it[i].case # None /\ it[i].status = "ready" => DepsOf[i[2]] = {}
        /\ it[i].status \in {"leased", "done", "failed"} => MayOpen(i, it, over)

\* No two calls hold the same batch.
Apart(held) ==
    \A c, d \in Callers : c # d /\ held[c].batch # None => held[c].batch # held[d].batch

SpecsKnown == \A v \in Versions : spec[v].status = "approved" => HashOf(v) \in ratified

IInv ==
    /\ TypeOK
    /\ \A c \in Callers : CallerKnown(caller[c], item, confirmed, ratified)
    /\ \A w \in Workers : WorkerKnown(worker[w], item, completed)
    /\ ItemsKnown(item, completed)
    /\ Apart(caller)
    /\ SpecsKnown
    /\ Seeded(job.active, item)

----------------------------------------------------------------------------
(* The operators and the state.                                            *)

\* Nothing is everything.
LEMMA SomethingElse ==
    ASSUME NEW x
    PROVE  \E b : b # x
  <1>1. {x} # x \/ {} # x
    OBVIOUS
  <1> QED BY <1>1

\* What the head and the tail of a sequence without repetitions hold.
LEMMA TailFacts ==
    ASSUME NEW S, NEW s \in Seq(S), s # <<>>, Distinct(s)
    PROVE  /\ Tail(s) \in Seq(S) /\ Distinct(Tail(s))
           /\ Head(s) \in S /\ Head(s) \in Range(s) /\ Head(s) \notin Range(Tail(s))
           /\ Range(s) = Range(Tail(s)) \cup {Head(s)}
  <1>1. /\ Tail(s) \in Seq(S) /\ DOMAIN s = 1..Len(s) /\ Len(s) \in Nat /\ Len(s) > 0
        /\ DOMAIN Tail(s) = 1..(Len(s) - 1) /\ Head(s) = s[1] /\ s[1] \in S
        /\ \A n \in 1..(Len(s) - 1) : Tail(s)[n] = s[n + 1]
    OBVIOUS
  <1>2. Distinct(Tail(s))
    BY <1>1 DEF Distinct
  <1>3. Head(s) \in Range(s) /\ Head(s) \notin Range(Tail(s))
    BY <1>1 DEF Distinct, Range
  <1>4. ASSUME NEW x \in Range(s), x # Head(s) PROVE x \in Range(Tail(s))
    <2>1. PICK n \in 1..Len(s) : x = s[n] /\ n # 1
      BY <1>1, <1>4 DEF Range
    <2>2. n - 1 \in 1..(Len(s) - 1) /\ Tail(s)[n - 1] = x
      BY <1>1, <2>1
    <2> QED BY <1>1, <2>2 DEF Range
  <1>5. Range(Tail(s)) \subseteq Range(s)
    BY <1>1 DEF Range
  <1> QED BY <1>1, <1>2, <1>3, <1>4, <1>5

\* The templates are sequences of templates, and every draft has a case's.
LEMMA TemplateFacts ==
    /\ SeedTemplates \in Seq(Templates) /\ Distinct(SeedTemplates)
    /\ CaseTemplates \in Seq(Templates) /\ Distinct(CaseTemplates) /\ CaseTemplates # <<>>
    /\ Range(SeedTemplates) \subseteq Templates
    /\ DepsOf \in [Templates -> SUBSET Templates]
  <1>1. \A S, T : S \subseteq T => Seq(S) \subseteq Seq(T)
    OBVIOUS
  <1> QED BY <1>1, SeedsAreSequence, CaseGraphIsSequence, DepsWithinScope DEF Templates

\* A caller at rest knows nothing, and is in a state of callers.
LEMMA RestFacts ==
    /\ NewJob \in JobRows /\ NewJob.active = None
    /\ AtRest \in CallerStates /\ AtRest.pc = "idle" /\ AtRest.batch = None
    /\ AtRest.key = None /\ AtRest.job = NewJob /\ AtRest.left = <<>>
    /\ Idle \in WorkerStates /\ Idle.pc = "idle" /\ Idle.job = NewJob
  <1>1. NewJob \in JobRows /\ NewJob.active = None
    BY MaxVersionIsNumber DEF NewJob, JobRows, Lifecycles, Versions
  <1>2. <<>> \in Seq(Templates) /\ Nothing \in [Cases -> SUBSET Facts]
    BY DEF Nothing
  <1> HIDE DEF NewJob, Nothing
  <1> QED BY <1>1, <1>2 DEF AtRest, Idle, CallerStates, WorkerStates

\* Items are only added, and keep what they are bound to.
Grown(it, later) ==
    \A i \in Ids : There(i, it) =>
        There(i, later) /\ later[i].hash = it[i].hash /\ later[i].case = it[i].case

\* The items that are new are of batch b.
NewOf(b, it, later) == \A i \in Ids : There(i, later) => There(i, it) \/ i[1] = b

NoneNew(it, later) == \A i \in Ids : There(i, later) => There(i, it)

\* An item is bound to a specification exactly when it is there.
Bound(it) == \A i \in Ids : There(i, it) <=> it[i].hash # None

\* Seeds stay.
LEMMA SeededStays ==
    ASSUME NEW it, NEW later, Grown(it, later), Bound(it), NEW a, Seeded(a, it)
    PROVE  Seeded(a, later)
  <1> SUFFICES ASSUME a # None, a[1] = 1
               PROVE  \E b \in SeedBatches : \A t \in Range(SeedTemplates) : later[<<b, t>>].hash = a
    BY DEF Seeded
  <1>1. PICK b \in SeedBatches : \A t \in Range(SeedTemplates) : it[<<b, t>>].hash = a
    BY DEF Seeded
  <1>2. \A t \in Range(SeedTemplates) : <<b, t>> \in Ids
    BY DEF Ids, Batches, Templates
  <1> QED BY <1>1, <1>2 DEF Grown, Bound

\* What a call knows lasts while others save items of their own batches.
LEMMA CallerStays ==
    ASSUME NEW it, NEW later, Grown(it, later), Bound(it),
           NEW b, NewOf(b, it, later), NEW me \in CallerStates, me.batch = None \/ me.batch # b,
           NEW named, NEW named2, named \subseteq named2,
           NEW passed, NEW passed2, passed \subseteq passed2, passed \subseteq Hashes,
           CallerKnown(me, it, named, passed)
    PROVE  CallerKnown(me, later, named2, passed2)
  <1>1. Seeded(me.job.active, later)
    BY SeededStays DEF CallerKnown
  <1>2. ASSUME me.batch \in Batches, NEW t \in Templates, There(<<me.batch, t>>, later)
        PROVE  There(<<me.batch, t>>, it)
    BY <1>2, NoneIsNothing DEF NewOf, Ids
  <1>3. me.pc \in {"check", "approve"} => Unused(me.batch, later)
    BY <1>2 DEF CallerKnown, Unused, Batches
  <1>4. me.pc = "save" => \A t \in Range(me.left) : ~There(<<me.batch, t>>, later)
    <2>1. \A t \in Range(me.left) : t \in Templates
      <3>1. me.left \in Seq(Templates)
        BY DEF CallerStates
      <3>2. \A n \in DOMAIN me.left : me.left[n] \in Templates
        BY <3>1
      <3> QED BY <3>2 DEF Range
    <2> QED BY <1>2, <2>1 DEF CallerKnown
  <1>5. me.pc \in {"save", "activate"} /\ me.key = None =>
           \A t \in Range(SeedTemplates) \ Range(me.left) : later[<<me.batch, t>>].hash = me.hash
    <2> SUFFICES ASSUME me.pc \in {"save", "activate"}, me.key = None,
                        NEW t \in Range(SeedTemplates) \ Range(me.left)
                 PROVE  later[<<me.batch, t>>].hash = me.hash
      OBVIOUS
    <2>1. me.hash # None /\ me.batch \in SeedBatches /\ it[<<me.batch, t>>].hash = me.hash
      BY NoneIsNothing DEF CallerKnown
    <2>2. <<me.batch, t>> \in Ids
      BY <2>1 DEF Ids, Batches, Templates
    <2> QED BY <2>1, <2>2 DEF Grown, Bound
  <1> QED BY <1>1, <1>3, <1>4, <1>5 DEF CallerKnown

\* What a worker knows lasts while items are added and attempts complete.
LEMMA WorkerStays ==
    ASSUME NEW it, NEW later, Grown(it, later), Bound(it), NEW me \in WorkerStates,
           NEW over, NEW over2, over \subseteq over2, WorkerKnown(me, it, over)
    PROVE  WorkerKnown(me, later, over2)
  <1>1. Seeded(me.job.active, later)
    BY SeededStays DEF WorkerKnown
  <1>2. me.pc \in {"claim", "begin", "run"} =>
           There(me.item, later) /\ MayOpen(me.item, later, over2)
    BY DEF WorkerKnown, Grown, MayOpen
  <1> QED BY <1>1, <1>2 DEF WorkerKnown

\* The rows that a step of a call leaves well: typed, and what they owe each
\* other intact.
RowsKeep ==
    /\ job' \in JobRows /\ spec' \in [Versions -> SpecRows]
    /\ caseFacts' \in [Cases -> SUBSET Facts] /\ item' \in [Ids -> ItemRows]
    /\ confirmed \subseteq confirmed' /\ confirmed' \subseteq Hashes
    /\ ratified \subseteq ratified' /\ ratified' \subseteq Hashes
    /\ completed \subseteq completed' /\ completed' \subseteq Ids
    /\ SpecsKnown' /\ Seeded(job'.active, item')
    /\ Grown(item, item') /\ ItemsKnown(item', completed')

\* A step of a call: the others, and the workers, know what they knew.
LEMMA CallerSteps ==
    ASSUME IInv, RowsKeep, NEW c \in Callers, NEW r \in CallerStates,
           caller' = [caller EXCEPT ![c] = r], worker' = worker,
           \/ NoneNew(item, item')
           \/ caller[c].batch # None /\ NewOf(caller[c].batch, item, item'),
           CallerKnown(r, item', confirmed', ratified'),
           \/ r.batch \in {None, caller[c].batch}
           \/ \A d \in Callers : caller[d].batch # r.batch
    PROVE  IInv'
  <1>1. TypeOK'
    BY DEF IInv, TypeOK, RowsKeep
  <1>2. Bound(item)
    BY DEF IInv, ItemsKnown, Bound
  <1>3. ASSUME NEW d \in Callers
        PROVE  CallerKnown(caller'[d], item', confirmed', ratified')
    <2>1. CASE d = c
      BY <2>1 DEF IInv, TypeOK
    <2>2. CASE d # c
      <3>1. caller'[d] = caller[d] /\ caller[d] \in CallerStates /\ ratified \subseteq Hashes
        BY <2>2 DEF IInv, TypeOK
      <3>2. CallerKnown(caller[d], item, confirmed, ratified)
        BY DEF IInv
      <3>3. PICK b : NewOf(b, item, item') /\ (caller[d].batch = None \/ caller[d].batch # b)
        <4>1. CASE NoneNew(item, item')
          <5>1. \A b : NewOf(b, item, item')
            BY <4>1 DEF NewOf, NoneNew
          <5>2. \E b : b # caller[d].batch
            BY SomethingElse
          <5> QED BY <5>1, <5>2
        <4>2. CASE caller[c].batch # None /\ NewOf(caller[c].batch, item, item')
          BY <2>2, <4>2 DEF IInv, Apart
        <4> QED BY <4>1, <4>2
      <3> QED BY <3>1, <3>2, <3>3, <1>2, CallerStays DEF RowsKeep
    <2> QED BY <2>1, <2>2
  <1>4. ASSUME NEW w \in Workers
        PROVE  WorkerKnown(worker'[w], item', completed')
    BY <1>2, WorkerStays DEF IInv, TypeOK, RowsKeep
  <1>5. Apart(caller')
    BY DEF IInv, Apart, TypeOK
  <1> QED BY <1>1, <1>3, <1>4, <1>5 DEF IInv, RowsKeep

\* A step of a worker, which adds no item.
LEMMA WorkerSteps ==
    ASSUME IInv, RowsKeep, NEW w \in Workers, NEW r \in WorkerStates,
           worker' = [worker EXCEPT ![w] = r], caller' = caller,
           NoneNew(item, item'),
           WorkerKnown(r, item', completed')
    PROVE  IInv'
  <1>1. TypeOK'
    BY DEF IInv, TypeOK, RowsKeep
  <1>2. Bound(item)
    BY DEF IInv, ItemsKnown, Bound
  <1>3. ASSUME NEW d \in Callers
        PROVE  CallerKnown(caller'[d], item', confirmed', ratified')
    <2>1. \A b : NewOf(b, item, item')
      BY DEF NewOf, NoneNew
    <2>2. PICK b : b # caller[d].batch
      BY SomethingElse
    <2>3. CallerKnown(caller[d], item, confirmed, ratified) /\ caller[d] \in CallerStates
      BY DEF IInv, TypeOK
    <2>4. ratified \subseteq Hashes
      BY DEF IInv, TypeOK
    <2> QED BY <1>2, <2>1, <2>2, <2>3, <2>4, CallerStays DEF RowsKeep
  <1>4. ASSUME NEW v \in Workers
        PROVE  WorkerKnown(worker'[v], item', completed')
    <2>1. CASE v = w
      BY <2>1 DEF IInv, TypeOK
    <2>2. CASE v # w
      <3>1. worker'[v] = worker[v] /\ worker[v] \in WorkerStates
        BY <2>2 DEF IInv, TypeOK
      <3> QED BY <3>1, <1>2, WorkerStays DEF IInv, RowsKeep
    <2> QED BY <2>1, <2>2
  <1>5. Apart(caller')
    BY DEF IInv
  <1> QED BY <1>1, <1>3, <1>4, <1>5 DEF IInv, RowsKeep

----------------------------------------------------------------------------
(* The rows.                                                               *)

\* Items that are not written to keep what they owe.
LEMMA RowsStay ==
    ASSUME IInv, UNCHANGED <<rows, history>>
    PROVE  RowsKeep
  <1>1. UNCHANGED <<job, spec, caseFacts, item, confirmed, ratified, completed>>
    BY DEF rows, history
  <1> QED BY <1>1 DEF IInv, TypeOK, RowsKeep, SpecsKnown, HashOf, Grown

\* A specification is saved: an approved one was ratified.
LEMMA SpecSaved ==
    ASSUME IInv, NEW h \in Hashes, NEW status \in {"proposed", "approved"},
           SaveSpec(h, status), ratified \subseteq ratified',
           status = "approved" => h \in ratified'
    PROVE  spec' \in [Versions -> SpecRows] /\ SpecsKnown'
  <1>1. h[1] \in Versions /\ h[2] \in Drafts /\ h = <<h[1], h[2]>>
    BY DEF Hashes
  <1>2. spec' \in [Versions -> SpecRows]
    BY <1>1 DEF SaveSpec, SpecRows, IInv, TypeOK
  <1>3. ASSUME NEW v \in Versions, spec'[v].status = "approved"
        PROVE  <<v, spec'[v].draft>> \in ratified'
    <2>1. CASE v = h[1]
      BY <1>1, <1>3, <2>1 DEF SaveSpec, IInv, TypeOK
    <2>2. CASE v # h[1]
      BY <1>1, <1>3, <2>2 DEF SaveSpec, IInv, TypeOK, SpecsKnown, HashOf
    <2> QED BY <2>1, <2>2
  <1> QED BY <1>2, <1>3 DEF SpecsKnown, HashOf

\* The latest approved specification was ratified.
LEMMA LatestApproved ==
    ASSUME IInv, NEW h \in Hashes, IsLatestApproved(h)
    PROVE  h \in ratified
  <1>1. h = <<h[1], h[2]>> /\ h[1] \in Versions
    BY DEF Hashes
  <1>2. spec[h[1]].status = "approved" /\ spec[h[1]].draft = h[2]
    BY DEF IsLatestApproved
  <1> QED BY <1>1, <1>2 DEF IInv, SpecsKnown, HashOf

\* Items that are there are cancelled.
LEMMA CancelledKeeps ==
    ASSUME IInv, NEW S \in SUBSET Ids, \A i \in S : Present(i),
           Cancelled(S)
    PROVE  /\ item' \in [Ids -> ItemRows] /\ Grown(item, item')
           /\ NoneNew(item, item')
           /\ ItemsKnown(item', completed)
  <1>1. item' \in [Ids -> ItemRows]
    BY DEF Cancelled, ItemRows, IInv, TypeOK
  <1>2. ASSUME NEW i \in Ids
        PROVE  /\ item'[i].hash = item[i].hash /\ item'[i].case = item[i].case
               /\ There(i, item') <=> There(i, item)
               /\ item'[i].status = item[i].status \/ item'[i].status = "cancelled"
    BY DEF Cancelled, ItemRows, IInv, TypeOK, There, Present
  <1>3. Grown(item, item')
    BY <1>2 DEF Grown
  <1>4. ItemsKnown(item', completed)
    BY <1>2 DEF ItemsKnown, MayOpen, IInv
  <1> QED BY <1>1, <1>2, <1>3, <1>4 DEF NoneNew

\* A migration cancels some of the items that are there.
LEMMA MigrateKeeps ==
    ASSUME IInv, Migrate
    PROVE  /\ item' \in [Ids -> ItemRows] /\ Grown(item, item')
           /\ NoneNew(item, item')
           /\ ItemsKnown(item', completed)
  <1>1. CASE UNCHANGED item
    BY <1>1 DEF IInv, TypeOK, Grown, NoneNew
  <1>2. CASE \E S \in SUBSET Ids : (\A i \in S : Present(i)) /\ Cancelled(S)
    BY <1>2, CancelledKeeps
  <1>3. CASE \E S \in SUBSET {i \in Ids : Present(i)} : Cancelled(Unfinished \ S)
    <2>1. PICK S \in SUBSET {i \in Ids : Present(i)} : Cancelled(Unfinished \ S)
      BY <1>3
    <2>2. Unfinished \ S \in SUBSET Ids /\ \A i \in Unfinished \ S : Present(i)
      BY DEF Unfinished
    <2> QED BY <1>2, <2>1, <2>2
  <1>4. CASE Cancelled(Unfinished)
    <2>1. Unfinished \in SUBSET Ids /\ \A i \in Unfinished : Present(i)
      BY DEF Unfinished
    <2> QED BY <1>2, <1>4, <2>1
  <1> QED BY <1>1, <1>2, <1>3, <1>4 DEF Migrate

\* The status of an item changes by a claim or by the end of an attempt.
LEMMA WorkedKeeps ==
    ASSUME IInv, NEW i \in Ids, There(i, item), MayOpen(i, item, completed),
           NEW status \in {"leased", "done", "failed"},
           item' = [item EXCEPT ![i].status = status],
           completed \subseteq completed', status = "done" => i \in completed'
    PROVE  /\ item' \in [Ids -> ItemRows] /\ Grown(item, item')
           /\ NoneNew(item, item')
           /\ ItemsKnown(item', completed')
  <1>1. item' \in [Ids -> ItemRows]
    BY DEF ItemRows, IInv, TypeOK
  <1>2. ASSUME NEW j \in Ids
        PROVE  /\ item'[j].hash = item[j].hash /\ item'[j].case = item[j].case
               /\ There(j, item') <=> There(j, item)
               /\ item'[j].status = IF j = i THEN status ELSE item[j].status
    BY DEF ItemRows, IInv, TypeOK, There
  <1>3. Grown(item, item')
    BY <1>2 DEF Grown
  <1>4. ASSUME NEW j \in Ids
        PROVE  /\ There(j, item') <=> item'[j].hash # None
               /\ item'[j].status = "done" => j \in completed'
               /\ item'[j].case # None /\ item'[j].status = "ready" => DepsOf[j[2]] = {}
               /\ item'[j].status \in {"leased", "done", "failed"} => MayOpen(j, item', completed')
    <2>1. /\ There(j, item) <=> item[j].hash # None
          /\ item[j].status = "done" => j \in completed
          /\ item[j].case # None /\ item[j].status = "ready" => DepsOf[j[2]] = {}
          /\ item[j].status \in {"leased", "done", "failed"} => MayOpen(j, item, completed)
      BY DEF IInv, ItemsKnown
    <2>2. MayOpen(j, item, completed) => MayOpen(j, item', completed')
      BY <1>2 DEF MayOpen
    <2>3. CASE j = i
      BY <1>2, <2>1, <2>2, <2>3
    <2>4. CASE j # i
      BY <1>2, <2>1, <2>2, <2>4
    <2> QED BY <2>3, <2>4
  <1> QED BY <1>1, <1>2, <1>3, <1>4 DEF ItemsKnown, NoneNew

----------------------------------------------------------------------------
(* Proposals and approvals.                                                *)

\* A call that is at rest again.
LEMMA CallEnds ==
    ASSUME IInv, RowsKeep, NEW c \in Callers, caller' = [caller EXCEPT ![c] = AtRest],
           worker' = worker, NoneNew(item, item')
    PROVE  IInv'
  <1>1. CallerKnown(AtRest, item', confirmed', ratified')
    BY RestFacts DEF CallerKnown, Seeded
  <1> QED BY <1>1, RestFacts, CallerSteps

\* A call that only reads, and goes on.
LEMMA CallReads ==
    ASSUME IInv, UNCHANGED <<rows, history, worker>>, NEW c \in Callers, NEW r \in CallerStates,
           caller' = [caller EXCEPT ![c] = r], CallerKnown(r, item, confirmed, ratified),
           r.batch \in {None, caller[c].batch} \/ \A d \in Callers : caller[d].batch # r.batch
    PROVE  IInv'
  <1>1. RowsKeep
    BY RowsStay
  <1>2. UNCHANGED <<item, confirmed, ratified>>
    BY DEF rows, history
  <1>3. NoneNew(item, item')
    BY <1>2 DEF NoneNew
  <1> QED BY <1>1, <1>2, <1>3, CallerSteps

\* propose.
LEMMA ProposalKeeps ==
    ASSUME IInv, NEW c \in Callers,
           (\E d \in Drafts : Propose(c, d)) \/ SaveProposal(c) \/ AwaitApproval(c)
    PROVE  IInv'
  <1> DEFINE me == caller[c]
  <1>0. me \in CallerStates /\ CallerKnown(me, item, confirmed, ratified)
    BY DEF IInv, TypeOK
  <1>1. ASSUME NEW d \in Drafts, Propose(c, d) PROVE IInv'
    <2> DEFINE h == <<job.draft, d>>
               r == [AtRest EXCEPT !.pc = "propose", !.job = job, !.hash = h]
    <2>1. h \in Hashes /\ job \in JobRows
      BY DEF Hashes, JobRows, IInv, TypeOK
    <2>3. caller' = [caller EXCEPT ![c] = r] /\ UNCHANGED <<rows, history, worker>>
      BY <1>1 DEF Propose
    <2> HIDE DEF h
    <2>2. r \in CallerStates /\ r.pc = "propose" /\ r.hash = h /\ r.job = job /\ r.batch = None
      BY <2>1, RestFacts DEF CallerStates
    <2> HIDE DEF r
    <2>4. CallerKnown(r, item, confirmed, ratified)
      BY <2>1, <2>2 DEF CallerKnown, IInv
    <2> QED BY <2>2, <2>3, <2>4, CallReads
  <1>2. CASE SaveProposal(c)
    <2>1. me.pc = "propose" /\ me.hash \in Hashes /\ SaveSpec(me.hash, "proposed")
          /\ UNCHANGED <<job, caseFacts, item, worker, history>>
      BY <1>0, <1>2 DEF SaveProposal, CallerKnown
    <2>2. UNCHANGED <<item, confirmed, ratified, completed>>
      BY <2>1 DEF history
    <2>3. spec' \in [Versions -> SpecRows] /\ SpecsKnown'
      BY <2>1, <2>2, SpecSaved
    <2>4. RowsKeep
      BY <2>1, <2>2, <2>3 DEF IInv, TypeOK, RowsKeep, Grown
    <2>5. NoneNew(item, item')
      BY <2>2 DEF NoneNew
    <2>6. CASE caller' = [caller EXCEPT ![c] = AtRest]
      BY <2>1, <2>4, <2>5, <2>6, CallEnds
    <2>7. CASE caller' = [caller EXCEPT ![c] = [me EXCEPT !.pc = "await"]]
      <3> DEFINE r == [me EXCEPT !.pc = "await"]
      <3>1. r \in CallerStates /\ r.pc = "await" /\ r.batch = me.batch /\ r.job = me.job
        BY <1>0 DEF CallerStates
      <3>2. caller' = [caller EXCEPT ![c] = r]
        BY <2>7
      <3> HIDE DEF r
      <3>3. CallerKnown(r, item', confirmed', ratified')
        BY <1>0, <2>2, <3>1 DEF CallerKnown
      <3> QED BY <2>1, <2>4, <2>5, <3>1, <3>2, <3>3, CallerSteps
    <2> QED BY <1>2, <2>6, <2>7 DEF SaveProposal
  <1>3. CASE AwaitApproval(c)
    <2>1. /\ job' = [me.job EXCEPT !.lifecycle = "awaiting_plan_approval"]
          /\ UNCHANGED <<spec, caseFacts, item, worker, history>>
          /\ caller' = [caller EXCEPT ![c] = AtRest]
      BY <1>3 DEF AwaitApproval
    <2>2. UNCHANGED <<item, confirmed, ratified, completed>>
      BY <2>1 DEF history
    <2>3. job' \in JobRows /\ job'.active = me.job.active
      BY <1>0, <2>1 DEF CallerStates, JobRows, Lifecycles
    <2>4. RowsKeep
      BY <1>0, <2>1, <2>2, <2>3
         DEF IInv, TypeOK, RowsKeep, Grown, SpecsKnown, HashOf, CallerKnown
    <2>5. NoneNew(item, item')
      BY <2>2 DEF NoneNew
    <2> QED BY <2>1, <2>4, <2>5, CallEnds
  <1> QED BY <1>1, <1>2, <1>3

\* approve, up to the row of the version.
LEMMA ApprovalKeeps ==
    ASSUME IInv, NEW c \in Callers,
           (\E h \in Hashes : Approve(c, h)) \/ CheckProposal(c) \/ SaveApproved(c)
    PROVE  IInv'
  <1> DEFINE me == caller[c]
  <1>0. me \in CallerStates /\ CallerKnown(me, item, confirmed, ratified)
    BY DEF IInv, TypeOK
  <1>1. ASSUME NEW h \in Hashes, Approve(c, h) PROVE IInv'
    <2>1. PICK b \in SeedBatches :
             /\ FreshBatch(b)
             /\ caller' = [caller EXCEPT ![c] = [AtRest EXCEPT !.pc = "check", !.job = job,
                                                               !.hash = h, !.batch = b]]
      BY <1>1 DEF Approve
    <2> DEFINE r == [AtRest EXCEPT !.pc = "check", !.job = job, !.hash = h, !.batch = b]
    <2>2. job \in JobRows /\ Seeded(job.active, item)
      BY DEF IInv, TypeOK
    <2>3. /\ r \in CallerStates /\ r.pc = "check" /\ r.hash = h /\ r.job = job /\ r.batch = b
          /\ r.key = None
      BY <2>2, RestFacts DEF CallerStates, Batches
    <2>4. caller' = [caller EXCEPT ![c] = r]
      BY <2>1
    <2> HIDE DEF r
    <2>5. /\ confirmed' = confirmed \cup {h}
          /\ UNCHANGED <<job, spec, caseFacts, item, worker, ratified, completed>>
      BY <1>1 DEF Approve, rows
    <2>6. RowsKeep
      BY <2>5 DEF IInv, TypeOK, RowsKeep, Grown, SpecsKnown, HashOf
    <2>7. Unused(b, item')
      BY <2>1, <2>5 DEF FreshBatch, Unused, There, Present
    <2>8. CallerKnown(r, item', confirmed', ratified')
      BY <2>2, <2>3, <2>5, <2>7 DEF CallerKnown
    <2>9. NoneNew(item, item') /\ \A d \in Callers : caller[d].batch # b
      BY <2>1, <2>5 DEF NoneNew, FreshBatch
    <2> QED BY <2>3, <2>4, <2>5, <2>6, <2>8, <2>9, CallerSteps
  <1>2. CASE CheckProposal(c)
    <2> DEFINE v == me.job.draft
               r == [me EXCEPT !.pc = "approve", !.hash = HashOf(v)]
    <2>1. me.pc = "check" /\ UNCHANGED <<rows, history, worker>>
      BY <1>2 DEF CheckProposal
    <2>2. CASE caller' = [caller EXCEPT ![c] = AtRest]
      <3>1. RowsKeep /\ NoneNew(item, item')
        BY <2>1, RowsStay DEF NoneNew, rows
      <3> QED BY <2>1, <2>2, <3>1, CallEnds
    <2>3. CASE HashOf(v) = me.hash /\ caller' = [caller EXCEPT ![c] = r]
      <3>1. me.hash \in confirmed /\ confirmed \subseteq Hashes
        BY <1>0, <2>1 DEF CallerKnown, IInv, TypeOK
      <3>2. /\ r \in CallerStates /\ r.pc = "approve" /\ r.hash = me.hash /\ r.job = me.job
            /\ r.batch = me.batch /\ r.key = me.key
        BY <1>0, <2>3, <3>1 DEF CallerStates
      <3>3. caller' = [caller EXCEPT ![c] = r]
        BY <2>3
      <3> HIDE DEF r
      <3>4. CallerKnown(r, item, confirmed, ratified)
        BY <1>0, <2>1, <3>2 DEF CallerKnown
      <3> QED BY <2>1, <3>2, <3>3, <3>4, CallReads
    <2> QED BY <1>2, <2>2, <2>3 DEF CheckProposal
  <1>3. CASE SaveApproved(c)
    <2> DEFINE pc == IF SeedTemplates = <<>> THEN "activate" ELSE "save"
               r == [me EXCEPT !.pc = pc, !.left = SeedTemplates]
    <2>1. /\ me.pc = "approve" /\ SaveSpec(me.hash, "approved")
          /\ ratified' = ratified \cup {me.hash}
          /\ UNCHANGED <<job, caseFacts, item, worker, confirmed, completed>>
          /\ caller' = [caller EXCEPT ![c] = r]
      BY <1>3 DEF SaveApproved
    <2>2. me.hash \in Hashes /\ me.batch \in SeedBatches /\ me.key = None /\ Unused(me.batch, item)
      BY <1>0, <2>1 DEF CallerKnown, IInv, TypeOK
    <2>3. spec' \in [Versions -> SpecRows] /\ SpecsKnown'
      BY <2>1, <2>2, SpecSaved
    <2>4. RowsKeep
      BY <2>1, <2>2, <2>3 DEF IInv, TypeOK, RowsKeep, Grown
    <2>5. /\ r \in CallerStates /\ r.pc = pc /\ r.hash = me.hash /\ r.job = me.job
          /\ r.batch = me.batch /\ r.key = None /\ r.left = SeedTemplates
      BY <1>0, <2>2, TemplateFacts DEF CallerStates
    <2> HIDE DEF r
    <2>6. \A t \in Range(SeedTemplates) : ~There(<<me.batch, t>>, item)
      BY <2>2, TemplateFacts DEF Unused
    <2>7. CallerKnown(r, item', confirmed', ratified')
      <3>1. Seeded(r.job.active, item)
        BY <1>0, <2>5 DEF CallerKnown
      <3> HIDE DEF me
      <3> QED BY <2>1, <2>2, <2>5, <2>6, <3>1, TemplateFacts DEF CallerKnown, Batches
    <2>8. NoneNew(item, item')
      BY <2>1 DEF NoneNew
    <2> QED BY <2>1, <2>4, <2>5, <2>7, <2>8, CallerSteps
  <1> QED BY <1>1, <1>2, <1>3

\* saveWorkItem: the next item is bound to the hash in hand.
LEMMA SavedItem ==
    ASSUME IInv, NEW c \in Callers, SaveItem(c)
    PROVE  LET i == <<caller[c].batch, Head(caller[c].left)>> IN
           /\ i \in Ids /\ ~There(i, item) /\ caller[c].hash \in ratified
           /\ \E row \in ItemRows :
                 /\ item' = [item EXCEPT ![i] = row]
                 /\ row.hash = caller[c].hash /\ row.case = caller[c].key
                 /\ row.status \in {"ready", "pending"}
                 /\ row.case # None /\ row.status = "ready" => DepsOf[i[2]] = {}
  <1> DEFINE me == caller[c]
             t == Head(me.left)
             i == <<me.batch, t>>
             status == IF me.key = None \/ DepsOf[t] = {} THEN "ready" ELSE "pending"
             row == [status |-> status, case |-> me.key, hash |-> me.hash]
  <1>1. /\ me \in CallerStates /\ me.pc = "save" /\ me.left \in Seq(Templates)
        /\ CallerKnown(me, item, confirmed, ratified) /\ ratified \subseteq Hashes
    BY DEF SaveItem, IInv, TypeOK, CallerStates
  <1>2. t \in Templates /\ t \in Range(me.left)
    BY <1>1, TailFacts DEF CallerKnown
  <1>3. i \in Ids /\ ~There(i, item) /\ me.hash \in ratified
    BY <1>1, <1>2 DEF CallerKnown, Ids
  <1>4. row \in ItemRows
    BY <1>1, <1>3 DEF ItemRows, CallerStates
  <1>5. item' = [item EXCEPT ![i] = row]
    BY DEF SaveItem
  <1> QED BY <1>3, <1>4, <1>5

\* Items in hand are saved.
LEMMA SaveItemKeeps ==
    ASSUME IInv, NEW c \in Callers, SaveItem(c)
    PROVE  IInv'
  <1> DEFINE me == caller[c]
             t == Head(me.left)
             i == <<me.batch, t>>
             pc == IF Tail(me.left) # <<>> THEN "save"
                   ELSE IF me.key = None THEN "activate" ELSE "case"
             rest == Tail(me.left)
             r == [me EXCEPT !.left = rest, !.pc = pc]
  <1>1. /\ me \in CallerStates /\ me.pc = "save" /\ me.left \in Seq(Templates)
        /\ CallerKnown(me, item, confirmed, ratified) /\ ratified \subseteq Hashes
    BY DEF SaveItem, IInv, TypeOK, CallerStates
  <1>2. me.left # <<>> /\ Distinct(me.left) /\ me.batch \in Batches /\ me.hash \in ratified
    BY <1>1 DEF CallerKnown
  <1>3. /\ rest \in Seq(Templates) /\ Distinct(rest) /\ t \in Templates
        /\ t \notin Range(rest) /\ Range(me.left) = Range(rest) \cup {t}
    BY <1>1, <1>2, TailFacts
  <1>4. PICK row \in ItemRows :
           /\ item' = [item EXCEPT ![i] = row]
           /\ row.hash = me.hash /\ row.case = me.key
           /\ row.status \in {"ready", "pending"}
           /\ row.case # None /\ row.status = "ready" => DepsOf[t] = {}
    BY SavedItem
  <1>5. i \in Ids /\ ~There(i, item)
    BY SavedItem
  <1>6. UNCHANGED <<job, spec, caseFacts, worker, confirmed, ratified, completed>>
    BY DEF SaveItem, history
  <1>7. item' \in [Ids -> ItemRows] /\ item'[i] = row /\ \A j \in Ids : j # i => item'[j] = item[j]
    BY <1>4, <1>5 DEF IInv, TypeOK
  <1>8. Grown(item, item') /\ NewOf(me.batch, item, item')
    BY <1>5, <1>7 DEF Grown, NewOf, There
  <1>9. ItemsKnown(item', completed')
    <2> SUFFICES ASSUME NEW j \in Ids
                 PROVE  /\ There(j, item') <=> item'[j].hash # None
                        /\ item'[j].status = "done" => j \in completed'
                        /\ item'[j].case # None /\ item'[j].status = "ready" => DepsOf[j[2]] = {}
                        /\ item'[j].status \in {"leased", "done", "failed"} =>
                              MayOpen(j, item', completed')
      BY DEF ItemsKnown
    <2>1. CASE j = i
      <3>1. row.hash # None
        BY <1>1, <1>2, <1>4, NoneIsNothing
      <3> QED BY <1>4, <1>7, <2>1, <3>1 DEF There
    <2>2. CASE j # i
      BY <1>6, <1>7, <2>2 DEF IInv, ItemsKnown, There, MayOpen
    <2> QED BY <2>1, <2>2
  <1>10. Bound(item)
    BY DEF IInv, ItemsKnown, Bound
  <1>11. Seeded(job'.active, item')
    BY <1>6, <1>8, <1>10, SeededStays DEF IInv
  <1>12. RowsKeep
    BY <1>6, <1>7, <1>8, <1>9, <1>11 DEF IInv, TypeOK, RowsKeep, SpecsKnown, HashOf
  <1>13. caller' = [caller EXCEPT ![c] = r]
    BY DEF SaveItem
  <1>14. /\ r \in CallerStates /\ r.pc = pc /\ r.left = rest /\ r.hash = me.hash
         /\ r.batch = me.batch /\ r.key = me.key /\ r.job = me.job
    <2> HIDE DEF rest
    <2> QED BY <1>1, <1>3 DEF CallerStates
  <1> HIDE DEF r
  <1>15. \A u \in Range(rest) : ~There(<<me.batch, u>>, item')
    <2> SUFFICES ASSUME NEW u \in Range(rest) PROVE ~There(<<me.batch, u>>, item')
      OBVIOUS
    <2>1. \A n \in DOMAIN rest : rest[n] \in Templates
      BY <1>3
    <2>2. u \in Templates /\ u # t /\ u \in Range(me.left)
      BY <1>3, <2>1 DEF Range
    <2>3. <<me.batch, u>> \in Ids /\ <<me.batch, u>> # i /\ ~There(<<me.batch, u>>, item)
      BY <1>1, <1>2, <2>2 DEF Ids, CallerKnown
    <2> QED BY <1>7, <2>3 DEF There
  <1>16. me.key = None => \A u \in Range(SeedTemplates) \ Range(rest) :
                              item'[<<me.batch, u>>].hash = me.hash
    <2> SUFFICES ASSUME me.key = None, NEW u \in Range(SeedTemplates) \ Range(rest)
                 PROVE  item'[<<me.batch, u>>].hash = me.hash
      OBVIOUS
    <2>1. <<me.batch, u>> \in Ids
      BY <1>2, TemplateFacts DEF Ids
    <2>2. CASE u = t
      BY <1>4, <1>7, <2>2
    <2>3. CASE u # t
      <3>1. item[<<me.batch, u>>].hash = me.hash
        BY <1>1, <1>3, <2>3 DEF CallerKnown
      <3> QED BY <1>7, <2>1, <2>3, <3>1
    <2> QED BY <2>2, <2>3
  <1>17. Seeded(me.job.active, item')
    BY <1>1, <1>8, <1>10, SeededStays DEF CallerKnown
  <1>18. CallerKnown(r, item', confirmed', ratified')
    <2>1. pc \in {"save", "activate", "case"} /\ (pc = "save" => rest # <<>>)
          /\ (pc = "activate" => me.key = None /\ rest = <<>>)
      OBVIOUS
    <2>2. me.key = None => me.batch \in SeedBatches
      BY <1>1 DEF CallerKnown
    <2> HIDE DEF pc, rest, me
    <2> QED BY <1>2, <1>3, <1>6, <1>14, <1>15, <1>16, <1>17, <2>1, <2>2 DEF CallerKnown
  <1>19. me.batch # None
    BY <1>2, NoneIsNothing
  <1> QED BY <1>6, <1>8, <1>12, <1>13, <1>14, <1>18, <1>19, CallerSteps

\* The job becomes active with the specification whose seeds are all there.
LEMMA ActivateKeeps ==
    ASSUME IInv, NEW c \in Callers, Activate(c)
    PROVE  IInv'
  <1> DEFINE me == caller[c]
  <1>1. /\ me \in CallerStates /\ me.pc = "activate"
        /\ CallerKnown(me, item, confirmed, ratified) /\ ratified \subseteq Hashes
        /\ UNCHANGED <<spec, caseFacts, item, worker, history>>
        /\ caller' = [caller EXCEPT ![c] = AtRest]
    BY DEF Activate, IInv, TypeOK
  <1>2. UNCHANGED <<item, confirmed, ratified, completed>>
    BY <1>1 DEF history
  <1>3. me.hash \in Hashes /\ me.batch \in SeedBatches
        /\ \A t \in Range(SeedTemplates) : item[<<me.batch, t>>].hash = me.hash
    <2>1. me.key = None /\ me.left = <<>> /\ Range(me.left) = {}
      BY <1>1 DEF CallerKnown, Range
    <2> QED BY <1>1, <2>1 DEF CallerKnown
  <1>4. Seeded(me.hash, item)
    BY <1>3 DEF Seeded
  <1>5. job' \in JobRows /\ job'.active \in {me.hash, job.active}
    <2>1. CASE job' = job
      BY <2>1 DEF IInv, TypeOK
    <2>2. CASE job' = [me.job EXCEPT !.lifecycle = "active", !.active = me.hash]
      <3>1. me.job \in JobRows
        BY <1>1 DEF CallerStates
      <3> QED BY <1>3, <2>2, <3>1 DEF JobRows, Lifecycles
    <2> QED BY <2>1, <2>2 DEF Activate
  <1>6. RowsKeep
    BY <1>1, <1>2, <1>4, <1>5 DEF IInv, TypeOK, RowsKeep, Grown, SpecsKnown, HashOf
  <1>7. NoneNew(item, item')
    BY <1>2 DEF NoneNew
  <1> QED BY <1>1, <1>6, <1>7, CallEnds

----------------------------------------------------------------------------
(* Discoveries, revisions and the job's end.                               *)

\* ingestDiscovery, up to the items.
LEMMA IngestKeeps ==
    ASSUME IInv, NEW c \in Callers,
           (\E K \in SUBSET Cases \ {{}}, f \in Facts : Ingest(c, K, f)) \/ IngestStep(c)
    PROVE  IInv'
  <1> DEFINE me == caller[c]
  <1>0. me \in CallerStates /\ CallerKnown(me, item, confirmed, ratified)
    BY DEF IInv, TypeOK
  <1>1. ASSUME NEW K \in SUBSET Cases \ {{}}, NEW f \in Facts, Ingest(c, K, f) PROVE IInv'
    <2>1. PICK h \in Hashes :
             /\ IsLatestApproved(h)
             /\ caller' = [caller EXCEPT ![c] = [AtRest EXCEPT !.pc = "list", !.hash = h,
                                                               !.cases = K, !.fact = f]]
      BY <1>1 DEF Ingest
    <2> DEFINE r == [AtRest EXCEPT !.pc = "list", !.hash = h, !.cases = K, !.fact = f]
    <2>2. /\ r \in CallerStates /\ r.pc = "list" /\ r.hash = h /\ r.batch = None
          /\ r.job.active = None /\ r.fact = f
      BY RestFacts DEF CallerStates
    <2>3. caller' = [caller EXCEPT ![c] = r] /\ UNCHANGED <<rows, history, worker>>
      BY <1>1, <2>1 DEF Ingest
    <2> HIDE DEF r
    <2>4. CallerKnown(r, item, confirmed, ratified)
      BY <2>1, <2>2, LatestApproved DEF CallerKnown, Seeded
    <2> QED BY <2>2, <2>3, <2>4, CallReads
  <1>2. CASE ListCases(c)
    <2> DEFINE merged == [k \in Cases |-> IF k \in me.cases
                                          THEN caseFacts[k] \cup {me.fact} ELSE caseFacts[k]]
               todo == {k \in Cases : merged[k] # {}}
               r == [me EXCEPT !.pc = "upsert", !.known = merged, !.todo = todo]
    <2>1. merged \in [Cases -> SUBSET Facts]
      <3>1. me.fact \in Facts
        BY <1>0, <1>2 DEF ListCases, CallerKnown
      <3> QED BY <3>1 DEF IInv, TypeOK
    <2>2. caller' = [caller EXCEPT ![c] = r] /\ UNCHANGED <<rows, history, worker>>
          /\ me.pc = "list"
      BY <1>2 DEF ListCases
    <2> HIDE DEF merged
    <2>3. /\ r \in CallerStates /\ r.pc = "upsert" /\ r.hash = me.hash /\ r.batch = me.batch
          /\ r.job = me.job
      BY <1>0, <2>1 DEF CallerStates
    <2> HIDE DEF r
    <2>4. CallerKnown(r, item, confirmed, ratified)
      BY <1>0, <2>2, <2>3 DEF CallerKnown
    <2> QED BY <2>2, <2>3, <2>4, CallReads
  <1>3. ASSUME NEW k \in Cases, UpsertCase(c, k) PROVE IInv'
    <2> DEFINE pc == IF me.todo = {k} THEN "case" ELSE "upsert"
               todo == me.todo \ {k}
               r == [me EXCEPT !.todo = todo, !.pc = pc]
    <2>1. /\ caller' = [caller EXCEPT ![c] = r] /\ me.pc = "upsert"
          /\ caseFacts' = [caseFacts EXCEPT ![k] = me.known[k]]
          /\ UNCHANGED <<job, spec, item, worker, confirmed, ratified, completed>>
      BY <1>3 DEF UpsertCase, history
    <2>2. /\ r \in CallerStates /\ r.pc \in {"case", "upsert"} /\ r.hash = me.hash
          /\ r.batch = me.batch /\ r.job = me.job
      BY <1>0 DEF CallerStates
    <2> HIDE DEF r
    <2>3. CallerKnown(r, item', confirmed', ratified')
      BY <1>0, <2>1, <2>2 DEF CallerKnown
    <2>4. caseFacts' \in [Cases -> SUBSET Facts]
      BY <1>0, <2>1 DEF CallerStates, IInv, TypeOK
    <2>5. RowsKeep
      BY <2>1, <2>4 DEF IInv, TypeOK, RowsKeep, Grown, SpecsKnown, HashOf
    <2>6. NoneNew(item, item')
      BY <2>1 DEF NoneNew
    <2> QED BY <2>1, <2>2, <2>3, <2>5, <2>6, CallerSteps
  <1>4. ASSUME NEW k \in Cases, SkipCase(c, k) PROVE IInv'
    <2> DEFINE cases == me.cases \ {k}
               r == [me EXCEPT !.cases = cases]
    <2>1. caller' = [caller EXCEPT ![c] = r] /\ UNCHANGED <<rows, history, worker>>
          /\ me.pc = "case"
      BY <1>4 DEF SkipCase
    <2>2. /\ r \in CallerStates /\ r.pc = "case" /\ r.hash = me.hash /\ r.batch = me.batch
          /\ r.job = me.job
      BY <1>0, <2>1 DEF CallerStates
    <2> HIDE DEF r
    <2>3. CallerKnown(r, item, confirmed, ratified)
      BY <1>0, <2>1, <2>2 DEF CallerKnown
    <2> QED BY <2>1, <2>2, <2>3, CallReads
  <1>5. ASSUME NEW k \in Cases, MaterializeCase(c, k) PROVE IInv'
    <2>1. PICK b \in CaseBatches :
             /\ FreshBatch(b)
             /\ caller' = [caller EXCEPT ![c] =
                             [me EXCEPT !.pc = "save", !.cases = me.cases \ {k}, !.key = k,
                                        !.batch = b, !.left = CaseTemplates]]
      BY <1>5 DEF MaterializeCase
    <2> DEFINE cases == me.cases \ {k}
               r == [me EXCEPT !.pc = "save", !.cases = cases, !.key = k,
                               !.batch = b, !.left = CaseTemplates]
    <2>2. caller' = [caller EXCEPT ![c] = r] /\ UNCHANGED <<rows, history, worker>>
          /\ me.pc = "case"
      BY <1>5, <2>1 DEF MaterializeCase
    <2>3. /\ r \in CallerStates /\ r.pc = "save" /\ r.hash = me.hash /\ r.batch = b
          /\ r.job = me.job /\ r.key = k /\ r.left = CaseTemplates
      BY <1>0, <2>1, TemplateFacts DEF CallerStates, Batches
    <2>4. \A t \in Range(CaseTemplates) : ~There(<<b, t>>, item)
      BY <2>1 DEF FreshBatch, There, Present, Templates
    <2>5. k # None /\ b \in Batches /\ CaseTemplates # <<>> /\ Distinct(CaseTemplates)
      BY NoneIsNothing, TemplateFacts DEF Batches
    <2> HIDE DEF r
    <2>6. CallerKnown(r, item, confirmed, ratified)
      BY <1>0, <2>2, <2>3, <2>4, <2>5 DEF CallerKnown
    <2>7. \A d \in Callers : caller[d].batch # b
      BY <2>1 DEF FreshBatch
    <2> QED BY <2>2, <2>3, <2>6, <2>7, CallReads
  <1>6. CASE EndIngest(c)
    <2>1. caller' = [caller EXCEPT ![c] = AtRest] /\ UNCHANGED <<rows, history, worker>>
      BY <1>6 DEF EndIngest
    <2>2. RowsKeep /\ NoneNew(item, item')
      BY <2>1, RowsStay DEF NoneNew, rows
    <2> QED BY <2>1, <2>2, CallEnds
  <1> QED BY <1>1, <1>2, <1>3, <1>4, <1>5, <1>6 DEF IngestStep

\* activateRevision, cancelJob, and a caller that dies.
LEMMA RevisionKeeps ==
    ASSUME IInv, NEW c \in Callers, RevisionStep(c) \/ CrashCaller(c)
    PROVE  IInv'
  <1> DEFINE me == caller[c]
  <1>0. me \in CallerStates /\ CallerKnown(me, item, confirmed, ratified)
    BY DEF IInv, TypeOK
  <1>1. ASSUME NEW d \in Drafts, Revise(c, d) PROVE IInv'
    <2> DEFINE v == (IF job.active = None THEN job.draft ELSE job.active[1]) + 1
               h == <<v, d>>
               r == [AtRest EXCEPT !.pc = "revise", !.hash = h]
    <2>1. /\ v \in Versions /\ caller' = [caller EXCEPT ![c] = r]
          /\ confirmed' = confirmed \cup {h}
          /\ UNCHANGED <<job, spec, caseFacts, item, worker, ratified, completed>>
      BY <1>1 DEF Revise, rows
    <2>2. h \in Hashes /\ h[1] # 1
      <3>1. (IF job.active = None THEN job.draft ELSE job.active[1]) \in 1..MaxVersion
        BY DEF IInv, TypeOK, JobRows, Hashes, Versions
      <3>2. v # 1
        BY <3>1, MaxVersionIsNumber
      <3> QED BY <2>1, <3>2 DEF Hashes
    <2> HIDE DEF h
    <2>3. /\ r \in CallerStates /\ r.pc = "revise" /\ r.hash = h /\ r.batch = None
          /\ r.job.active = None
      BY <2>2, RestFacts DEF CallerStates
    <2> HIDE DEF r
    <2>4. CallerKnown(r, item', confirmed', ratified')
      BY <2>1, <2>2, <2>3 DEF CallerKnown, Seeded
    <2>5. RowsKeep
      BY <2>1, <2>2 DEF IInv, TypeOK, RowsKeep, Grown, SpecsKnown, HashOf
    <2>6. NoneNew(item, item')
      BY <2>1 DEF NoneNew
    <2> QED BY <2>1, <2>3, <2>4, <2>5, <2>6, CallerSteps
  <1>2. CASE CommitRevision(c) \/ CommitArchive(c)
    <2>1. /\ me.pc = "revise" /\ SaveSpec(me.hash, "approved")
          /\ ratified' = ratified \cup {me.hash} /\ caller' = [caller EXCEPT ![c] = AtRest]
          /\ UNCHANGED <<caseFacts, worker, confirmed, completed>>
      BY <1>2 DEF CommitRevision, CommitArchive
    <2>2. me.hash \in Hashes /\ me.hash[1] # 1
      BY <1>0, <2>1 DEF CallerKnown, IInv, TypeOK
    <2>3. spec' \in [Versions -> SpecRows] /\ SpecsKnown'
      BY <2>1, <2>2, SpecSaved
    <2>4. /\ item' \in [Ids -> ItemRows] /\ Grown(item, item') /\ NoneNew(item, item')
          /\ ItemsKnown(item', completed)
      <3>1. CASE UNCHANGED item
        BY <3>1 DEF IInv, TypeOK, Grown, NoneNew
      <3>2. CASE Migrate
        BY <3>2, MigrateKeeps
      <3> QED BY <1>2, <3>1, <3>2 DEF CommitRevision, CommitArchive
    <2>5. job' \in JobRows /\ (job'.active = me.hash \/ job'.active = job.active)
      <3>1. CASE job' = [lifecycle |-> "active", draft |-> me.hash[1], active |-> me.hash]
        BY <2>2, <3>1 DEF JobRows, Lifecycles, Hashes
      <3>2. CASE job' = [job EXCEPT !.lifecycle = "archived"]
        BY <3>2 DEF IInv, TypeOK, JobRows, Lifecycles
      <3> QED BY <1>2, <3>1, <3>2 DEF CommitRevision, CommitArchive
    <2>6. Seeded(job'.active, item')
      <3>1. CASE job'.active = me.hash
        BY <2>2, <3>1 DEF Seeded
      <3>2. CASE job'.active = job.active
        <4>1. Bound(item)
          BY DEF IInv, ItemsKnown, Bound
        <4> QED BY <2>4, <3>2, <4>1, SeededStays DEF IInv
      <3> QED BY <2>5, <3>1, <3>2
    <2>7. RowsKeep
      BY <2>1, <2>2, <2>3, <2>4, <2>5, <2>6 DEF IInv, TypeOK, RowsKeep
    <2> QED BY <2>1, <2>4, <2>7, CallEnds
  <1>3. CASE RevisionRejected(c) \/ CrashCaller(c)
    <2>1. caller' = [caller EXCEPT ![c] = AtRest] /\ UNCHANGED <<rows, history, worker>>
      BY <1>3 DEF RevisionRejected, CrashCaller
    <2>2. RowsKeep /\ NoneNew(item, item')
      BY <2>1, RowsStay DEF NoneNew, rows
    <2> QED BY <2>1, <2>2, CallEnds
  <1>4. CASE CancelJob(c)
    <2> DEFINE S == {i \in Ids : item[i].status \in {"pending", "ready", "leased"}}
    <2>1. /\ job' = [job EXCEPT !.lifecycle = "cancelled"] /\ Cancelled(S)
          /\ UNCHANGED <<spec, caseFacts, caller, worker, confirmed, ratified, completed>>
      BY <1>4 DEF CancelJob, history
    <2>2. S \in SUBSET Ids /\ \A i \in S : Present(i)
      BY DEF Present
    <2>3. /\ item' \in [Ids -> ItemRows] /\ Grown(item, item') /\ NoneNew(item, item')
          /\ ItemsKnown(item', completed)
      BY <2>1, <2>2, CancelledKeeps
    <2>4. job' \in JobRows /\ job'.active = job.active
      BY <2>1 DEF IInv, TypeOK, JobRows, Lifecycles
    <2>5. Bound(item)
      BY DEF IInv, ItemsKnown, Bound
    <2>6. RowsKeep
      BY <2>1, <2>3, <2>4, <2>5, SeededStays DEF IInv, TypeOK, RowsKeep, SpecsKnown, HashOf
    <2>7. caller' = [caller EXCEPT ![c] = me]
      BY <2>1 DEF IInv, TypeOK
    <2>8. CallerKnown(me, item', confirmed', ratified')
      <3>1. PICK b : b # me.batch
        BY SomethingElse
      <3>2. NewOf(b, item, item')
        BY <2>3 DEF NewOf, NoneNew
      <3>3. ratified \subseteq Hashes
        BY DEF IInv, TypeOK
      <3> QED BY <1>0, <2>1, <2>3, <2>5, <3>1, <3>2, <3>3, CallerStays
    <2> QED BY <1>0, <2>1, <2>3, <2>6, <2>7, <2>8, CallerSteps
  <1> QED BY <1>1, <1>2, <1>3, <1>4 DEF RevisionStep

----------------------------------------------------------------------------
(* A tick.                                                                 *)

\* A worker that only reads.
LEMMA WorkerReads ==
    ASSUME IInv, UNCHANGED <<rows, history, caller>>, NEW w \in Workers, NEW r \in WorkerStates,
           worker' = [worker EXCEPT ![w] = r], WorkerKnown(r, item, completed)
    PROVE  IInv'
  <1>1. RowsKeep
    BY RowsStay
  <1>2. UNCHANGED <<item, completed>>
    BY DEF rows, history
  <1>3. NoneNew(item, item')
    BY <1>2 DEF NoneNew
  <1> QED BY <1>1, <1>2, <1>3, WorkerSteps

\* A worker at rest knows nothing.
LEMMA IdleKnows ==
    ASSUME NEW it, NEW over
    PROVE  Idle \in WorkerStates /\ WorkerKnown(Idle, it, over)
  BY RestFacts DEF WorkerKnown, Seeded

\* An item that may be picked may be opened.
LEMMA EligibleMayOpen ==
    ASSUME IInv, NEW i \in Ids, Eligible(i)
    PROVE  There(i, item) /\ MayOpen(i, item, completed)
  <1>1. There(i, item)
    BY DEF Eligible, There
  <1>2. ASSUME item[i].case # None, NEW t \in DepsOf[i[2]]
        PROVE  <<i[1], t>> \in completed
    <2>1. i[1] \in Batches /\ i[2] \in Templates
      BY DEF Ids
    <2>2. <<i[1], t>> \in Ids
      BY <2>1, TemplateFacts DEF Ids
    <2>3. CASE item[i].status = "ready"
      BY <1>2, <2>3 DEF IInv, ItemsKnown
    <2>4. CASE DepsDone(i)
      BY <2>2, <2>4 DEF DepsDone, IInv, ItemsKnown
    <2> QED BY <2>3, <2>4 DEF Eligible
  <1> QED BY <1>1, <1>2 DEF MayOpen

\* Everything a worker does in a tick, and its death.
LEMMA TickKeeps ==
    ASSUME IInv, NEW w \in Workers, TickStep(w) \/ CrashWorker(w)
    PROVE  IInv'
  <1> DEFINE me == worker[w]
  <1>0. me \in WorkerStates /\ WorkerKnown(me, item, completed)
    BY DEF IInv, TypeOK
  <1>1. CASE TickStart(w)
    <2> DEFINE r == [me EXCEPT !.pc = "approved", !.job = job]
    <2>1. worker' = [worker EXCEPT ![w] = r] /\ UNCHANGED <<rows, history, caller>>
      BY <1>1 DEF TickStart, IInv, TypeOK
    <2>2. job \in JobRows /\ Seeded(job.active, item)
      BY DEF IInv, TypeOK
    <2>3. r \in WorkerStates /\ r.pc = "approved" /\ r.job = job
      BY <1>0, <2>2 DEF WorkerStates
    <2> HIDE DEF r
    <2>4. WorkerKnown(r, item, completed)
      BY <2>2, <2>3 DEF WorkerKnown
    <2> QED BY <2>1, <2>3, <2>4, WorkerReads
  <1>2. CASE TickApproved(w)
    <2>1. PICK h \in Hashes \cup {None} : worker' = [worker EXCEPT ![w].pc = "pick", ![w].hash = h]
      BY <1>2 DEF TickApproved
    <2> DEFINE r == [me EXCEPT !.pc = "pick", !.hash = h]
    <2>2. worker' = [worker EXCEPT ![w] = r] /\ UNCHANGED <<rows, history, caller>>
      BY <1>2, <2>1 DEF TickApproved, IInv, TypeOK
    <2>3. r \in WorkerStates /\ r.pc = "pick" /\ r.job = me.job
      BY <1>0 DEF WorkerStates
    <2> HIDE DEF r
    <2>4. WorkerKnown(r, item, completed)
      BY <1>0, <2>3 DEF WorkerKnown
    <2> QED BY <2>2, <2>3, <2>4, WorkerReads
  <1>3. ASSUME NEW i \in Ids, TickPick(w, i) PROVE IInv'
    <2> DEFINE r == [me EXCEPT !.pc = "claim", !.item = i]
    <2>1. worker' = [worker EXCEPT ![w] = r] /\ UNCHANGED <<rows, history, caller>>
      BY <1>3 DEF TickPick, IInv, TypeOK
    <2>2. r \in WorkerStates /\ r.pc = "claim" /\ r.job = me.job /\ r.item = i
      BY <1>0 DEF WorkerStates
    <2>3. There(i, item) /\ MayOpen(i, item, completed)
      BY <1>3, EligibleMayOpen DEF TickPick
    <2> HIDE DEF r
    <2>4. WorkerKnown(r, item, completed)
      BY <1>0, <2>2, <2>3 DEF WorkerKnown
    <2> QED BY <2>1, <2>2, <2>4, WorkerReads
  <1>4. CASE TickNothing(w) \/ CrashWorker(w)
    BY <1>4, IdleKnows, WorkerReads DEF TickNothing, CrashWorker
  <1>5. CASE TickClaim(w)
    <2>1. /\ me.pc = "claim" /\ me.item \in Ids /\ There(me.item, item)
          /\ MayOpen(me.item, item, completed)
          /\ UNCHANGED <<job, spec, caseFacts, caller, confirmed, ratified, completed>>
      BY <1>0, <1>5 DEF TickClaim, WorkerKnown, history
    <2>2. CASE worker' = [worker EXCEPT ![w] = Idle] /\ UNCHANGED item
      <3>1. UNCHANGED <<rows, history, caller>>
        BY <2>1, <2>2 DEF rows, history
      <3> QED BY <2>2, <3>1, IdleKnows, WorkerReads
    <2>3. CASE /\ item' = [item EXCEPT ![me.item].status = "leased"]
               /\ worker' = [worker EXCEPT ![w].pc = "begin"]
      <3> DEFINE r == [me EXCEPT !.pc = "begin"]
      <3>1. worker' = [worker EXCEPT ![w] = r]
        BY <2>3 DEF IInv, TypeOK
      <3>2. r \in WorkerStates /\ r.pc = "begin" /\ r.job = me.job /\ r.item = me.item
        BY <1>0 DEF WorkerStates
      <3>3. /\ item' \in [Ids -> ItemRows] /\ Grown(item, item') /\ NoneNew(item, item')
            /\ ItemsKnown(item', completed')
        BY <2>1, <2>3, WorkedKeeps
      <3>4. Bound(item)
        BY DEF IInv, ItemsKnown, Bound
      <3>5. RowsKeep
        BY <2>1, <3>3, <3>4, SeededStays DEF IInv, TypeOK, RowsKeep, SpecsKnown, HashOf
      <3>6. Seeded(me.job.active, item')
        BY <1>0, <3>3, <3>4, SeededStays DEF WorkerKnown
      <3> HIDE DEF r
      <3>7. WorkerKnown(r, item', completed')
        BY <2>1, <3>2, <3>3, <3>6 DEF WorkerKnown, Grown, MayOpen
      <3> QED BY <2>1, <3>1, <3>2, <3>3, <3>5, <3>7, WorkerSteps
    <2> QED BY <1>5, <2>2, <2>3 DEF TickClaim
  <1>6. CASE TickBegin(w)
    <2>1. UNCHANGED <<rows, history, caller>> /\ me.pc = "begin"
      BY <1>6 DEF TickBegin
    <2>2. CASE worker' = [worker EXCEPT ![w] = Idle]
      BY <2>1, <2>2, IdleKnows, WorkerReads
    <2>3. CASE worker' = [worker EXCEPT ![w] = [me EXCEPT !.pc = "run"]]
      <3> DEFINE r == [me EXCEPT !.pc = "run"]
      <3>1. r \in WorkerStates /\ r.pc = "run" /\ r.job = me.job /\ r.item = me.item
        BY <1>0 DEF WorkerStates
      <3>2. worker' = [worker EXCEPT ![w] = r]
        BY <2>3
      <3> HIDE DEF r
      <3>3. WorkerKnown(r, item, completed)
        BY <1>0, <2>1, <3>1 DEF WorkerKnown
      <3> QED BY <2>1, <3>1, <3>2, <3>3, WorkerReads
    <2> QED BY <1>6, <2>2, <2>3 DEF TickBegin
  <1>7. ASSUME NEW status \in {"done", "failed"}, NEW lifecycle \in {"active", "completed"},
               TickCommit(w, status, lifecycle)
        PROVE  IInv'
    <2> DEFINE i == me.item
    <2>1. /\ i \in Ids /\ There(i, item) /\ MayOpen(i, item, completed)
          /\ UNCHANGED <<spec, caseFacts, caller, confirmed, ratified>>
          /\ item' = [item EXCEPT ![i].status = status]
          /\ completed' = IF status = "done" THEN completed \cup {i} ELSE completed
          /\ job' = [me.job EXCEPT !.lifecycle = lifecycle]
          /\ worker' = [worker EXCEPT ![w] = Idle]
      BY <1>0, <1>7 DEF TickCommit, WorkerKnown
    <2>2. completed \subseteq completed' /\ completed' \subseteq Ids
          /\ (status = "done" => i \in completed')
      BY <2>1 DEF IInv, TypeOK
    <2>3. /\ item' \in [Ids -> ItemRows] /\ Grown(item, item') /\ NoneNew(item, item')
          /\ ItemsKnown(item', completed')
      BY <2>1, <2>2, WorkedKeeps
    <2>4. Bound(item)
      BY DEF IInv, ItemsKnown, Bound
    <2>5. job' \in JobRows /\ job'.active = me.job.active
      <3>1. me.job \in JobRows
        BY <1>0 DEF WorkerStates
      <3> QED BY <2>1, <3>1 DEF JobRows, Lifecycles
    <2>6. Seeded(job'.active, item')
      BY <1>0, <2>3, <2>4, <2>5, SeededStays DEF WorkerKnown
    <2>7. RowsKeep
      BY <2>1, <2>2, <2>3, <2>5, <2>6 DEF IInv, TypeOK, RowsKeep, SpecsKnown, HashOf
    <2> QED BY <2>1, <2>3, <2>7, IdleKnows, WorkerSteps
  <1> QED BY <1>1, <1>2, <1>3, <1>4, <1>5, <1>6, <1>7 DEF TickStep

----------------------------------------------------------------------------
(* The theorems.                                                           *)

\* The invariant holds of every reachable state.
THEOREM Invariance == Spec => []IInv
  <1>1. Init => IInv
    <2> SUFFICES ASSUME Init PROVE IInv
      OBVIOUS
    <2>1. TypeOK
      BY RestFacts DEF Init, TypeOK, SpecRows, ItemRows, Nothing
    <2>2. \A c \in Callers : CallerKnown(caller[c], item, confirmed, ratified)
      BY RestFacts DEF Init, CallerKnown, Seeded
    <2>3. \A w \in Workers : WorkerKnown(worker[w], item, completed)
      BY IdleKnows DEF Init
    <2>4. ItemsKnown(item, completed)
      BY DEF Init, ItemsKnown, There
    <2>5. Apart(caller) /\ SpecsKnown /\ Seeded(job.active, item)
      BY RestFacts DEF Init, Apart, SpecsKnown, Seeded
    <2> QED BY <2>1, <2>2, <2>3, <2>4, <2>5 DEF IInv
  <1>2. IInv /\ [Next]_vars => IInv'
    <2> SUFFICES ASSUME IInv, [Next]_vars PROVE IInv'
      OBVIOUS
    <2>1. CASE UNCHANGED vars
      <3>1. UNCHANGED <<job, spec, caseFacts, item, caller, worker, confirmed, ratified, completed>>
        BY <2>1 DEF vars, rows, history
      <3> QED BY <3>1 DEF IInv, TypeOK, SpecsKnown, HashOf
    <2>2. ASSUME NEW c \in Callers, ApprovalStep(c) PROVE IInv'
      BY <2>2, ProposalKeeps, ApprovalKeeps, SaveItemKeeps, ActivateKeeps DEF ApprovalStep
    <2>3. ASSUME NEW c \in Callers,
                 IngestStep(c) \/ \E K \in SUBSET Cases \ {{}}, f \in Facts : Ingest(c, K, f)
          PROVE  IInv'
      BY <2>3, IngestKeeps
    <2>4. ASSUME NEW c \in Callers, RevisionStep(c) \/ CrashCaller(c) PROVE IInv'
      BY <2>4, RevisionKeeps
    <2>5. ASSUME NEW w \in Workers, TickStep(w) \/ CrashWorker(w) PROVE IInv'
      BY <2>5, TickKeeps
    <2> QED BY <2>1, <2>2, <2>3, <2>4, <2>5 DEF Next
  <1> QED BY <1>1, <1>2, PTL DEF Spec

\* Rows and copies have their types, for any number of callers, workers,
\* drafts, cases and batches, wherever a process dies.
THEOREM TypeCorrect == Spec => []TypeOK
  <1>1. IInv => TypeOK
    BY DEF IInv
  <1> QED BY <1>1, Invariance, PTL

\* Work of a case starts only after attempts completed all it depends on
\* (listReadyWorkItems, claimWork, materializeCaseWorkItems).
THEOREM StartsAfterDeps == Spec => []StartedAfterDeps
  <1>1. IInv => StartedAfterDeps
    BY DEF IInv, ItemsKnown, MayOpen, StartedAfterDeps
  <1> QED BY <1>1, Invariance, PTL

\* An activated job has every seed of its specification (service.ts approve).
THEOREM SeedsAreThere == Spec => []ActiveHasSeeds
  <1>1. IInv => ActiveHasSeeds
    BY DEF IInv, Seeded, ActiveHasSeeds
  <1> QED BY <1>1, Invariance, PTL

\* DurableSpecs implements ConfirmedWork: only what was named by its hash is
\* approved, work is bound to an approved hash when it is made, and keeps it.
THEOREM ImplementsConfirmedWork == Spec => WorkIsConfirmed
  <1>1. Init => Promise!Init
    BY DEF Init, Promise!Init
  <1>2. IInv /\ [Next]_vars => [Promise!Next]_(Promise!vars)
    <2> SUFFICES ASSUME IInv, [Next]_vars
                 PROVE  Promise!Next \/ UNCHANGED Promise!vars
      OBVIOUS
    <2> DEFINE bound == [i \in Ids |-> item[i].hash]
    <2>1. ASSUME NEW h \in Hashes, confirmed' = confirmed \cup {h}, UNCHANGED <<ratified, bound>>
          PROVE  Promise!Next
      BY <2>1 DEF Promise!Next, Promise!Confirm
    <2>2. ASSUME NEW h \in Hashes, h \in confirmed, ratified' = ratified \cup {h},
                 UNCHANGED <<confirmed, bound>>
          PROVE  Promise!Next
      BY <2>2 DEF Promise!Next, Promise!Approve
    <2>3. ASSUME UNCHANGED <<confirmed, ratified, bound>>
          PROVE  UNCHANGED Promise!vars
      BY <2>3 DEF Promise!vars
    <2>4. UNCHANGED item => UNCHANGED bound
      OBVIOUS
    <2>5. ASSUME NEW S \in SUBSET Ids, Cancelled(S) PROVE UNCHANGED bound
      BY <2>5 DEF Cancelled, IInv, TypeOK, ItemRows
    <2>6. ASSUME NEW i \in Ids, NEW status, item' = [item EXCEPT ![i].status = status]
          PROVE  UNCHANGED bound
      BY <2>6 DEF IInv, TypeOK, ItemRows
    <2>7. ASSUME NEW c \in Callers, SaveItem(c)
          PROVE  Promise!Next
      <3> DEFINE i == <<caller[c].batch, Head(caller[c].left)>>
                 h == caller[c].hash
      <3>1. PICK row \in ItemRows : item' = [item EXCEPT ![i] = row] /\ row.hash = h
        BY <2>7, SavedItem
      <3>2. i \in Ids /\ ~There(i, item) /\ h \in ratified
        BY <2>7, SavedItem
      <3>3. bound[i] = None /\ h \in Hashes
        BY <3>2 DEF IInv, TypeOK, ItemsKnown
      <3>4. bound' = [bound EXCEPT ![i] = h]
        BY <3>1, <3>2 DEF IInv, TypeOK
      <3>5. UNCHANGED <<confirmed, ratified>>
        BY <2>7 DEF SaveItem, history
      <3> QED BY <3>2, <3>3, <3>4, <3>5 DEF Promise!Next, Promise!Bind
    <2>8. CASE UNCHANGED vars
      <3>1. UNCHANGED <<item, confirmed, ratified>>
        BY <2>8 DEF vars, rows, history
      <3> QED BY <2>3, <2>4, <3>1
    <2>9. ASSUME NEW c \in Callers, ApprovalStep(c)
          PROVE  Promise!Next \/ UNCHANGED Promise!vars
      <3>1. CASE \E h \in Hashes : Approve(c, h)
        BY <2>1, <2>4, <3>1 DEF Approve, rows
      <3>2. CASE SaveApproved(c)
        <4>1. caller[c].hash \in confirmed /\ confirmed \subseteq Hashes
          BY <3>2 DEF SaveApproved, IInv, TypeOK, CallerKnown
        <4> QED BY <2>2, <2>4, <3>2, <4>1 DEF SaveApproved
      <3>3. CASE SaveItem(c)
        BY <2>7, <3>3
      <3>4. CASE (\E d \in Drafts : Propose(c, d)) \/ SaveProposal(c) \/ AwaitApproval(c)
                 \/ CheckProposal(c) \/ Activate(c)
        <4>1. UNCHANGED <<item, confirmed, ratified>>
          BY <3>4 DEF Propose, SaveProposal, AwaitApproval, CheckProposal, Activate, rows, history
        <4> QED BY <2>3, <2>4, <4>1
      <3> QED BY <2>9, <3>1, <3>2, <3>3, <3>4 DEF ApprovalStep
    <2>10. ASSUME NEW c \in Callers, RevisionStep(c)
           PROVE  Promise!Next \/ UNCHANGED Promise!vars
      <3>1. ASSUME NEW d \in Drafts, Revise(c, d) PROVE Promise!Next
        <4> DEFINE v == (IF job.active = None THEN job.draft ELSE job.active[1]) + 1
        <4>1. v \in Versions /\ confirmed' = confirmed \cup {<<v, d>>} /\ UNCHANGED <<item, ratified>>
          BY <3>1 DEF Revise, rows
        <4>2. <<v, d>> \in Hashes
          BY <4>1 DEF Hashes
        <4> HIDE DEF v
        <4> QED BY <2>1, <2>4, <4>1, <4>2
      <3>2. CASE CommitRevision(c) \/ CommitArchive(c)
        <4>1. /\ caller[c].hash \in confirmed /\ confirmed \subseteq Hashes
              /\ ratified' = ratified \cup {caller[c].hash} /\ UNCHANGED confirmed
          BY <3>2 DEF CommitRevision, CommitArchive, IInv, TypeOK, CallerKnown
        <4>2. UNCHANGED bound
          <5>1. CASE CommitArchive(c)
            BY <2>4, <5>1 DEF CommitArchive
          <5>2. CASE Migrate
            <6>1. Unfinished \in SUBSET Ids
              BY DEF Unfinished
            <6> QED BY <2>4, <2>5, <5>2, <6>1 DEF Migrate
          <5> QED BY <3>2, <5>1, <5>2 DEF CommitRevision
        <4> QED BY <2>2, <4>1, <4>2
      <3>3. CASE RevisionRejected(c)
        <4>1. UNCHANGED <<item, confirmed, ratified>>
          BY <3>3 DEF RevisionRejected, rows, history
        <4> QED BY <2>3, <2>4, <4>1
      <3>4. CASE CancelJob(c)
        <4>1. UNCHANGED <<confirmed, ratified, bound>>
          BY <2>5, <3>4 DEF CancelJob, history
        <4> QED BY <2>3, <4>1
      <3> QED BY <2>10, <3>1, <3>2, <3>3, <3>4 DEF RevisionStep
    <2>11. ASSUME NEW c \in Callers,
                  \/ IngestStep(c) \/ CrashCaller(c)
                  \/ \E K \in SUBSET Cases \ {{}}, f \in Facts : Ingest(c, K, f)
           PROVE  UNCHANGED Promise!vars
      <3>1. UNCHANGED <<item, confirmed, ratified>>
        BY <2>11 DEF IngestStep, ListCases, UpsertCase, SkipCase, MaterializeCase, EndIngest,
                     CrashCaller, Ingest, rows, history
      <3> QED BY <2>3, <2>4, <3>1
    <2>12. ASSUME NEW w \in Workers, TickStep(w) \/ CrashWorker(w)
           PROVE  UNCHANGED Promise!vars
      <3>1. CASE TickClaim(w)
        <4>1. worker[w].item \in Ids
          BY <3>1 DEF TickClaim, IInv, WorkerKnown
        <4>2. UNCHANGED <<confirmed, ratified, bound>>
          BY <2>4, <2>6, <3>1, <4>1 DEF TickClaim, history
        <4> QED BY <2>3, <4>2
      <3>2. ASSUME NEW status \in {"done", "failed"}, NEW lifecycle \in {"active", "completed"},
                   TickCommit(w, status, lifecycle)
            PROVE  UNCHANGED Promise!vars
        <4>1. worker[w].item \in Ids
          BY <3>2 DEF TickCommit, IInv, WorkerKnown
        <4>2. UNCHANGED <<confirmed, ratified, bound>>
          BY <2>6, <3>2, <4>1 DEF TickCommit
        <4> QED BY <2>3, <4>2
      <3>3. CASE \/ TickStart(w) \/ TickApproved(w) \/ TickNothing(w) \/ TickBegin(w)
                 \/ CrashWorker(w) \/ \E i \in Ids : TickPick(w, i)
        <4>1. UNCHANGED <<item, confirmed, ratified>>
          BY <3>3 DEF TickStart, TickApproved, TickNothing, TickBegin, CrashWorker, TickPick,
                      rows, history
        <4> QED BY <2>3, <2>4, <4>1
      <3> QED BY <2>12, <3>1, <3>2, <3>3 DEF TickStep
    <2> QED BY <2>8, <2>9, <2>10, <2>11, <2>12 DEF Next
  <1> QED BY <1>1, <1>2, Invariance, PTL DEF Spec, WorkIsConfirmed, Promise!Spec

====
