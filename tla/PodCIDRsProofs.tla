--------------------------- MODULE PodCIDRsProofs ---------------------------
(***************************************************************************)
(* Theorems about PodCIDRs, for every set of Nodes, CIDRs, specs, tags and *)
(* disturbances and every width of addresses.                              *)
(***************************************************************************)
EXTENDS PodCIDRs, ShellProofs, SupernetsProofs

\* The steps Reconcile adds to those of the shell.
Steps ==
    {"stale", "drop", "node", "nodes", "list", "prune", "tag", "ensure", "rir", "update", "create"}

Jobs ==
    [found : {Nil} \cup SUBSET Cidrs, names : SUBSET Keys, todo : SUBSET (Cidrs \cup Families),
     at : Cidrs \cup Families \cup {Nil}, ids : SUBSET Ids]

(***************************************************************************)
(* What the program counter says of the worker's job.                      *)
(***************************************************************************)
\* Between two objects the worker has none in hand.
HandsEmpty ==
    /\ w.pc \in {"idle", "get"} => job = NoJob
    /\ w.pc \in {"stale", "node", "nodes", "list", "tag", "ensure"} => job.ids = {}
    /\ w.pc \in {"stale", "node", "nodes", "list", "prune", "tag", "ensure"} => job.at = Nil
    /\ w.pc = "create" => job.ids = {}

\* Aggregates nobody wants go: there is nothing else on the worker's mind.
Purging == w.pc = "stale" \/ (w.pc = "drop" /\ ~Aggregating)

PurgeOK ==
    /\ Purging =>
          /\ ~Aggregating /\ (Prefixes(w.spec) \/ ~Paused(w.spec))
          /\ job.todo \subseteq Families /\ job.found = Nil /\ job.names = {}
    /\ w.pc = "drop" => job.at \in Families /\ job.todo \subseteq Families

\* One Prefix per CIDR of the Node: first they are ensured, then pruned.
PrefixOK ==
    w.pc \in Steps /\ Prefixes(w.spec) =>
        /\ w.pc \notin {"nodes", "rir"}
        /\ w.pc \in {"list", "prune"} =>
              /\ job.todo = {} /\ job.names = (IF w.pc = "list" THEN {w.key} ELSE {})
              /\ Paused(w.spec) => job.found = Nil
        /\ w.pc \in {"tag", "ensure", "update", "create"} =>
              /\ w.spec.enabled /\ job.found \in SUBSET Cidrs
              /\ job.todo \subseteq Cidrs /\ job.names = {w.key}
        /\ w.pc \in {"update", "create"} => job.at \in Cidrs

\* One Aggregate per family: first the Prefixes go.
AggregateOK ==
    w.pc \in Steps /\ ~Prefixes(w.spec) =>
        /\ w.pc # "node"
        /\ w.pc \notin {"stale", "drop"} => w.spec.enabled /\ job.todo \subseteq Families
        /\ w.pc \notin {"stale", "drop", "nodes"} => job.found \in SUBSET Cidrs
        /\ w.pc = "drop" /\ Aggregating => job.found \in SUBSET Cidrs
        /\ w.pc \in {"rir", "update", "create"} =>
              job.at \in Families /\ Of(job.at, job.found) # {}

JobOK == HandsEmpty /\ PurgeOK /\ PrefixOK /\ AggregateOK

\* The inductive form of PodCIDRsTypeOK.
TypeInv ==
    /\ ShellInv(Steps)
    /\ node \in [Keys -> {Nil} \cup SUBSET Cidrs]
    /\ objs \in [Ids -> PodCIDRObject \cup {Nil}]
    /\ rir \in BOOLEAN
    /\ job \in Jobs
    /\ JobOK
-----------------------------------------------------------------------------
(* TypeInv is inductive: one lemma for each part of Next. *)

\* No job is a job.
LEMMA NoJobType ==
    /\ NoJob \in Jobs
    /\ NoJob.found = Nil /\ NoJob.names = {} /\ NoJob.todo = {} /\ NoJob.at = Nil /\ NoJob.ids = {}
BY DEF NoJob, Jobs

\* The types hold in a new process (main.go).
LEMMA InitTypes == Init => TypeInv
<1> SUFFICES ASSUME Init PROVE TypeInv
  OBVIOUS
<1>1. ShellInv(Steps)
  BY ShellInitTypes DEF Init
<1>2. job = NoJob /\ w.pc = "idle"
  BY ShellIdle DEF Init, ShellInit
<1>3. JobOK
  BY <1>2 DEF JobOK, HandsEmpty, PurgeOK, Purging, PrefixOK, AggregateOK, Steps
<1> QED
  BY <1>1, <1>2, <1>3, NoJobType DEF Init, TypeInv, Assignable

\* What is to be known of the specs.
LEMMA SpecTypes ==
    ASSUME NEW spec \in Specs
    PROVE  /\ spec.enabled \in BOOLEAN /\ spec.retain \in BOOLEAN /\ spec.slug \in Slugs
BY PodCIDRsAssumption DEF PodCIDRsAssumption, PodCIDRsConfig

\* The worker goes on with a job that fits.
LEMMA WorkTypes ==
    ASSUME TypeInv, w.pc # "idle", NEW pc \in Steps, Proceed(pc), UNCHANGED <<node, rir>>,
           objs' \in [Ids -> PodCIDRObject \cup {Nil}], job' \in Jobs, JobOK'
    PROVE  TypeInv'
BY ShellProceed DEF TypeInv

\* The work is over, whatever the job says.
LEMMA EndTypes ==
    ASSUME TypeInv, w.pc # "idle", Fail \/ Succeed(TRUE) \/ Succeed(FALSE),
           UNCHANGED <<node, rir>>,
           objs' \in [Ids -> PodCIDRObject \cup {Nil}], job' \in Jobs
    PROVE  /\ TypeInv' /\ w'.pc = "status" /\ w'.key = w.key /\ w'.spec = w.spec
           /\ Fail => w'.err
<1>1. /\ ShellInv(Steps)' /\ w'.pc = "status" /\ w'.key = w.key /\ w'.spec = w.spec
      /\ Fail => w'.err
  BY ShellEnd DEF TypeInv
<1>2. JobOK'
  BY <1>1 DEF JobOK, HandsEmpty, PurgeOK, Purging, PrefixOK, AggregateOK, Steps
<1> QED
  BY <1>1, <1>2 DEF TypeInv

\* The next family is one of those to be dealt with.
LEMMA NextFamilyType == job.todo # {} => NextFamily \in job.todo
BY DEF NextFamily

\* What EnsurePodCIDRPrefix writes is a Prefix of the Node and CIDR.
LEMMA PrefixWritten ==
    ASSUME TypeInv, w.pc \in {"update", "create"}, Prefixes(w.spec)
    PROVE  /\ Written \in PodCIDRObject /\ Written # Nil
           /\ Written.kind = "Prefix" /\ Written.tag = w.spec.slug
           /\ Written.xid = <<w.key, job.at>> /\ Written.cidr = job.at
<1>1. w.key \in Keys /\ w.spec.slug \in Slugs /\ job.at \in Cidrs
  BY SpecTypes DEF TypeInv, ShellInv, JobOK, PrefixOK, Steps
<1>2. Written \in PodCIDRObject
  BY <1>1 DEF Written, PodCIDRObject
<1> QED
  BY <1>2, PodCIDRsAssumption DEF Written, PodCIDRsAssumption

\* What EnsurePodCIDRAggregate writes is the smallest block over the CIDRs found.
LEMMA AggregateWritten ==
    ASSUME TypeInv, w.pc \in {"update", "create"}, ~Prefixes(w.spec)
    PROVE  /\ Written \in PodCIDRObject /\ Written # Nil
           /\ Written.kind = "Aggregate" /\ Written.tag = w.spec.slug /\ Written.xid = job.at
           /\ SmallestEnclosing(Written.cidr, job.at, Of(job.at, job.found))
<1> DEFINE mine == Of(job.at, job.found)
<1>1. /\ w.spec.slug \in Slugs /\ job.at \in Families /\ job.found \in SUBSET Cidrs
      /\ mine # {}
  BY SpecTypes DEF TypeInv, ShellInv, JobOK, AggregateOK, Steps
<1>2. mine \in SUBSET Blocks(job.at)
  <2>1. ASSUME NEW c \in mine PROVE c \in Blocks(job.at)
    <3>1. c \in AllBlocks /\ c.family = job.at
      BY <1>1, PodCIDRsAssumption DEF Of, PodCIDRsAssumption
    <3>2. PICK f \in Families : c \in Blocks(f)
      BY <3>1 DEF AllBlocks
    <3>3. c.family = f
      BY <3>2, BlockFields
    <3> QED
      BY <3>1, <3>2, <3>3
  <2> QED
    BY <2>1
<1>3. SmallestEnclosing(Supernet(job.at, mine), job.at, mine)
  BY <1>1, <1>2, SupernetIsSmallest
<1>4. computeSupernets(job.found)[job.at] = Supernet(job.at, mine)
  <2>1. job.at \in {c.family : c \in job.found}
    BY <1>1 DEF Of
  <2> QED
    BY <2>1 DEF computeSupernets
<1> DEFINE block == computeSupernets(job.found)[job.at]
<1>5. SmallestEnclosing(block, job.at, mine)
  BY <1>3, <1>4
<1>6. block \in AllBlocks
  BY <1>1, <1>5 DEF SmallestEnclosing, AllBlocks
<1>7. Written = [kind |-> "Aggregate", tag |-> w.spec.slug, xid |-> job.at, cidr |-> block]
  BY DEF Written
<1> HIDE DEF block, mine
<1>8. Written \in PodCIDRObject
  BY <1>1, <1>6, <1>7 DEF PodCIDRObject
<1> QED
  BY <1>5, <1>7, <1>8, PodCIDRsAssumption DEF PodCIDRsAssumption, mine

\* Reconcile chooses the representation.
LEMMA ChooseTypes ==
    ASSUME TypeInv, reconcilePrefixForNode \/ reconcileAggregates
    PROVE  /\ TypeInv' /\ w'.key = w.key /\ w'.spec = w.spec /\ UNCHANGED <<node, objs, rir>>
           /\ \/ w'.pc \in {"stale", "nodes"} /\ job'.todo = Families
              \/ w'.pc = "status" /\ Paused(w.spec) /\ ~Prefixes(w.spec)
<1>1. /\ w.pc = "get" /\ w.spec \in Specs /\ UNCHANGED <<node, objs, rir>>
      /\ objs' \in [Ids -> PodCIDRObject \cup {Nil}]
      /\ w.spec.enabled \in BOOLEAN /\ w.spec.retain \in BOOLEAN
  BY SpecTypes DEF reconcilePrefixForNode, reconcileAggregates, TypeInv, ShellInv
<1>2. /\ job' \in Jobs /\ job'.todo \subseteq Families /\ job'.names = {} /\ job'.found = Nil
      /\ job'.at = Nil /\ job'.ids = {}
  BY DEF reconcilePrefixForNode, reconcileAggregates, NoJob, Jobs
<1>3. CASE reconcileAggregates /\ Paused(w.spec)
  <2>1. Succeed(TRUE) /\ ~Prefixes(w.spec)
    BY <1>3 DEF reconcileAggregates
  <2> QED
    BY <1>1, <1>2, <1>3, <2>1, EndTypes
<1>4. ASSUME NEW pc \in {"stale", "nodes"}, Proceed(pc),
             pc = "stale" => ~Aggregating /\ (Prefixes(w.spec) \/ ~Paused(w.spec)),
             pc = "nodes" => Aggregating
      PROVE  TypeInv' /\ w'.pc = pc /\ w'.key = w.key /\ w'.spec = w.spec
  <2>1. w'.pc = pc /\ w'.key = w.key /\ w'.spec = w.spec
    BY <1>1, <1>4, ShellProceed DEF TypeInv, Steps
  <2>2. JobOK'
    BY <1>2, <1>4, <2>1
       DEF JobOK, HandsEmpty, PurgeOK, Purging, PrefixOK, AggregateOK, Aggregating, Steps
  <2> QED
    BY <1>1, <1>2, <1>4, <2>1, <2>2, WorkTypes DEF Steps
<1>5. CASE reconcilePrefixForNode \/ ~Paused(w.spec)
  <2>1. job'.todo = Families
    BY <1>5 DEF reconcilePrefixForNode, reconcileAggregates, NoJob
  <2>2. \E pc \in {"stale", "nodes"} :
           /\ Proceed(pc)
           /\ pc = "stale" => ~Aggregating /\ (Prefixes(w.spec) \/ ~Paused(w.spec))
           /\ pc = "nodes" => Aggregating
    BY <1>5 DEF reconcilePrefixForNode, reconcileAggregates, Aggregating
  <2> QED
    BY <1>1, <1>4, <2>1, <2>2
<1> QED
  BY <1>3, <1>5

\* findAggregateByExternalID before a delete.
LEMMA FindStaleTypes ==
    ASSUME TypeInv, FindStaleAggregate
    PROVE  /\ TypeInv' /\ w'.key = w.key /\ w'.spec = w.spec /\ UNCHANGED <<node, objs, rir>>
           /\ w.pc \in {"stale", "ensure"} /\ (w.pc = "ensure" => Aggregating)
           /\ w.pc = "stale" => ~Aggregating
           /\ NextFamily \in job.todo
           /\ job'.found = job.found /\ job'.names = job.names
           /\ \E page \in Pages(Managed("Aggregate", w.spec.slug)) :
                 \/ /\ w'.pc = "drop" /\ job'.at = NextFamily /\ job'.todo = job.todo
                    /\ \E i \in Aggregate(page) : job'.ids = {i}
                 \/ /\ w'.pc = w.pc /\ job'.at = Nil /\ job'.ids = {}
                    /\ Aggregate(page) = {} /\ job'.todo = job.todo \ {NextFamily}
<1>1. /\ w.pc \in {"stale", "ensure"} /\ (w.pc = "ensure" => Aggregating)
      /\ w.pc = "stale" => ~Aggregating
      /\ UNCHANGED <<node, objs, rir>> /\ objs' \in [Ids -> PodCIDRObject \cup {Nil}]
      /\ job.todo \subseteq Families /\ NextFamily \in job.todo /\ job \in Jobs
      /\ job.at = Nil /\ job.ids = {}
  BY NextFamilyType
     DEF FindStaleAggregate, TypeInv, JobOK, HandsEmpty, PurgeOK, Purging, AggregateOK, Aggregating,
         Steps
<1>2. PICK page \in Pages(Managed("Aggregate", w.spec.slug)) :
          \/ \E i \in Aggregate(page) :
                /\ job' = [job EXCEPT !.at = NextFamily, !.ids = {i}]
                /\ Proceed("drop")
          \/ /\ Aggregate(page) = {}
             /\ job' = [job EXCEPT !.todo = @ \ {NextFamily}]
             /\ Proceed(w.pc)
  BY DEF FindStaleAggregate
<1>3. Aggregate(page) \subseteq Ids
  BY DEF Pages, Managed, Aggregate
<1>4. ASSUME NEW i \in Aggregate(page), job' = [job EXCEPT !.at = NextFamily, !.ids = {i}],
             Proceed("drop")
      PROVE  /\ TypeInv' /\ w'.key = w.key /\ w'.spec = w.spec
             /\ job'.found = job.found /\ job'.names = job.names
             /\ w'.pc = "drop" /\ job'.at = NextFamily /\ job'.todo = job.todo /\ job'.ids = {i}
  <2>1. w'.pc = "drop" /\ w'.key = w.key /\ w'.spec = w.spec
    BY <1>1, <1>4, ShellProceed DEF TypeInv, Steps
  <2>2. /\ job' \in Jobs /\ job'.found = job.found /\ job'.names = job.names
        /\ job'.at = NextFamily /\ job'.todo = job.todo /\ job'.ids = {i}
    BY <1>1, <1>3, <1>4 DEF Jobs
  <2>3. JobOK'
    BY <1>1, <2>1, <2>2
       DEF TypeInv, JobOK, HandsEmpty, PurgeOK, Purging, PrefixOK, AggregateOK, Aggregating, Steps
  <2> QED
    BY <1>1, <1>4, <2>1, <2>2, <2>3, WorkTypes DEF Steps
<1>5. ASSUME job' = [job EXCEPT !.todo = @ \ {NextFamily}], Proceed(w.pc)
      PROVE  /\ TypeInv' /\ w'.key = w.key /\ w'.spec = w.spec
             /\ job'.found = job.found /\ job'.names = job.names
             /\ w'.pc = w.pc /\ job'.at = Nil /\ job'.todo = job.todo \ {NextFamily}
             /\ job'.ids = {}
  <2>1. w'.pc = w.pc /\ w'.key = w.key /\ w'.spec = w.spec
    BY <1>1, <1>5, ShellProceed DEF TypeInv, Steps
  <2>2. /\ job' \in Jobs /\ job'.found = job.found /\ job'.names = job.names
        /\ job'.at = Nil /\ job'.todo = job.todo \ {NextFamily} /\ job'.ids = {}
    BY <1>1, <1>5 DEF Jobs
  <2>3. JobOK'
    BY <1>1, <2>1, <2>2
       DEF TypeInv, JobOK, HandsEmpty, PurgeOK, Purging, PrefixOK, AggregateOK, Aggregating, Steps
  <2> QED
    BY <1>1, <1>5, <2>1, <2>2, <2>3, WorkTypes DEF Steps
<1> QED
  BY <1>1, <1>2, <1>4, <1>5

\* The steps that only look at the job: on with the next part.
LEMMA TurnTypes ==
    ASSUME TypeInv, StaleDone \/ EnsureManagedTag \/ EnsureDone \/ PruneDone \/ LookupRIR
    PROVE  /\ TypeInv' /\ w'.key = w.key /\ w'.spec = w.spec /\ UNCHANGED podVars
           /\ \/ w.pc = "stale" /\ w'.pc \in {"node", "status"} /\ job.todo = {}
              \/ w.pc = "tag" /\ w'.pc = "ensure"
              \/ w.pc = "ensure" /\ w'.pc \in {"list", "status"} /\ job.todo = {}
              \/ w.pc = "prune" /\ w'.pc \in {"list", "tag", "status"} /\ job.ids = {}
              \/ w.pc = "rir" /\ w'.pc \in {"create", "update"}
           /\ w'.pc = "node" => Prefixes(w.spec)
           /\ w.pc \in {"stale", "ensure"} /\ w'.pc = "status" => ~Prefixes(w.spec)
           /\ w.pc = "prune" /\ w'.pc = "status" => Prefixes(w.spec)
           /\ w.pc = "prune" /\ w'.pc \in {"list", "tag"} => ~Prefixes(w.spec)
<1>1. /\ w.pc \in {"stale", "tag", "ensure", "prune", "rir"} /\ UNCHANGED podVars
      /\ UNCHANGED <<node, rir, job, objs>>
      /\ job' \in Jobs /\ objs' \in [Ids -> PodCIDRObject \cup {Nil}]
      /\ w.spec.enabled \in BOOLEAN /\ w.spec.retain \in BOOLEAN
  BY SpecTypes
     DEF StaleDone, EnsureManagedTag, EnsureDone, PruneDone, LookupRIR, podVars, TypeInv, ShellInv
<1>2. CASE Succeed(TRUE) \/ Succeed(FALSE)
  <2>1. TypeInv' /\ w'.pc = "status" /\ w'.key = w.key /\ w'.spec = w.spec
    BY <1>1, <1>2, EndTypes
  <2>2. w'.pc \notin Steps
    BY <2>1 DEF Steps
  <2>3. ~ \E pc \in Steps : Proceed(pc)
    BY <2>1, <2>2, <1>1, ShellProceed DEF TypeInv
  <2> QED
    BY <1>1, <2>1, <2>3 DEF StaleDone, EnsureManagedTag, EnsureDone, PruneDone, LookupRIR, Steps
<1>3. ASSUME NEW pc \in Steps, Proceed(pc),
             \/ w.pc = "stale" /\ pc = "node" /\ Prefixes(w.spec) /\ job.todo = {}
             \/ w.pc = "tag" /\ pc = "ensure"
             \/ w.pc = "ensure" /\ pc = "list" /\ Prefixes(w.spec) /\ job.todo = {}
             \/ w.pc = "prune" /\ pc \in {"list", "tag"} /\ ~Prefixes(w.spec) /\ job.ids = {}
             \/ w.pc = "rir" /\ pc = "create" /\ job.ids = {}
             \/ w.pc = "rir" /\ pc = "update"
      PROVE  TypeInv' /\ w'.pc = pc /\ w'.key = w.key /\ w'.spec = w.spec
  <2>1. w'.pc = pc /\ w'.key = w.key /\ w'.spec = w.spec
    BY <1>1, <1>3, ShellProceed DEF TypeInv
  <2>2. HandsEmpty' /\ PurgeOK'
    BY <1>1, <1>3, <2>1
       DEF TypeInv, JobOK, HandsEmpty, PurgeOK, Purging
  <2>3. PrefixOK' /\ AggregateOK'
    BY <1>1, <1>3, <2>1
       DEF TypeInv, JobOK, PrefixOK, AggregateOK, Paused, Steps
  <2> QED
    BY <1>1, <1>3, <2>1, <2>2, <2>3, WorkTypes DEF JobOK
<1>4. w.pc = "prune" /\ Prefixes(w.spec) => job.names = {}
  BY DEF TypeInv, JobOK, PrefixOK, Steps
<1>5. CASE ~(Succeed(TRUE) \/ Succeed(FALSE))
  <2>1. \E pc \in {"node", "ensure", "list", "tag", "create", "update"} :
             /\ Proceed(pc)
             /\ \/ w.pc = "stale" /\ pc = "node" /\ Prefixes(w.spec) /\ job.todo = {}
                \/ w.pc = "tag" /\ pc = "ensure"
                \/ w.pc = "ensure" /\ pc = "list" /\ Prefixes(w.spec) /\ job.todo = {}
                \/ w.pc = "prune" /\ pc \in {"list", "tag"} /\ ~Prefixes(w.spec) /\ job.ids = {}
                \/ w.pc = "rir" /\ pc = "create" /\ job.ids = {}
                \/ w.pc = "rir" /\ pc = "update"
    BY <1>4, <1>5 DEF StaleDone, EnsureManagedTag, EnsureDone, PruneDone, LookupRIR
  <2> QED
    BY <1>1, <1>3, <2>1 DEF Steps
<1> QED
  BY <1>2, <1>5

\* reconcilePrefixForNode reads the Node.
LEMMA SeeTypes ==
    ASSUME TypeInv, SeeUnsynced \/ SeePaused \/ SeeAssigned
    PROVE  /\ TypeInv' /\ w'.key = w.key /\ w'.spec = w.spec /\ UNCHANGED <<node, objs, rir>>
           /\ w.pc = "node" /\ w'.pc \in {"list", "tag", "status"} /\ Prefixes(w.spec)
           /\ job'.found = node[w.key] /\ job'.ids = {} /\ job'.at = Nil
           /\ w'.pc = "status" => job'.found # Nil /\ Paused(w.spec)
<1>1. /\ w.pc = "node" /\ w.key \in Keys /\ UNCHANGED <<node, objs, rir>>
      /\ objs' \in [Ids -> PodCIDRObject \cup {Nil}] /\ Prefixes(w.spec)
      /\ node[w.key] \in {Nil} \cup SUBSET Cidrs
      /\ w.spec.enabled \in BOOLEAN /\ w.spec.retain \in BOOLEAN
  BY SpecTypes
     DEF SeeUnsynced, SeePaused, SeeAssigned, TypeInv, ShellInv, JobOK, AggregateOK, Steps
<1>2. CASE SeePaused
  <2>1. job' \in Jobs /\ job'.found = node[w.key] /\ job'.ids = {} /\ job'.at = Nil
    BY <1>1, <1>2 DEF SeePaused, NoJob, Jobs
  <2> QED
    BY <1>1, <1>2, <2>1, EndTypes DEF SeePaused
<1>3. CASE SeeUnsynced
  <2>1. /\ job' \in Jobs /\ job'.found = node[w.key] /\ job'.ids = {} /\ job'.at = Nil
        /\ job'.todo = {} /\ job'.names = {w.key}
    BY <1>1, <1>3 DEF SeeUnsynced, NoJob, Jobs
  <2>2. w'.pc = "list" /\ w'.key = w.key /\ w'.spec = w.spec
    BY <1>1, <1>3, ShellProceed DEF SeeUnsynced, TypeInv, Steps
  <2>3. Paused(w.spec) => node[w.key] = Nil
    BY <1>1, <1>3 DEF SeeUnsynced, Paused
  <2>4. JobOK'
    BY <1>1, <2>1, <2>2, <2>3
       DEF JobOK, HandsEmpty, PurgeOK, Purging, PrefixOK, AggregateOK, Steps
  <2> QED
    BY <1>1, <1>3, <2>1, <2>2, <2>4, WorkTypes DEF SeeUnsynced, Steps
<1>4. CASE SeeAssigned
  <2>1. /\ job' \in Jobs /\ job'.found = node[w.key] /\ job'.ids = {} /\ job'.at = Nil
        /\ job'.todo = node[w.key] /\ job'.names = {w.key} /\ node[w.key] \in SUBSET Cidrs
    BY <1>1, <1>4 DEF SeeAssigned, NoJob, Jobs
  <2>2. w'.pc = "tag" /\ w'.key = w.key /\ w'.spec = w.spec /\ w.spec.enabled
    BY <1>1, <1>4, ShellProceed DEF SeeAssigned, Qualifies, TypeInv, Steps
  <2>4. JobOK'
    BY <1>1, <2>1, <2>2
       DEF JobOK, HandsEmpty, PurgeOK, Purging, PrefixOK, AggregateOK, Steps
  <2> QED
    BY <1>1, <1>4, <2>1, <2>2, <2>4, WorkTypes DEF SeeAssigned, Steps
<1> QED
  BY <1>2, <1>3, <1>4

\* findPrefixByExternalID, and findAggregateByExternalID before a write.
LEMMA FindPrefixTypes ==
    ASSUME TypeInv, NEW c \in Cidrs, FindPrefix(c)
    PROVE  /\ TypeInv' /\ w'.key = w.key /\ w'.spec = w.spec /\ UNCHANGED <<node, objs, rir>>
           /\ w.pc = "ensure" /\ w'.pc \in {"update", "create"} /\ Prefixes(w.spec)
           /\ job'.at = c /\ job'.found = job.found /\ job'.todo = job.todo
           /\ \E page \in Pages(Managed("Prefix", w.spec.slug)) :
                 LET match == {i \in page : objs[i].xid = <<w.key, c>>}
                 IN  \/ \E i \in match : job'.ids = {i}
                     \/ match = {} /\ job'.ids = {}
<1>1. /\ w.pc = "ensure" /\ Prefixes(w.spec) /\ UNCHANGED <<node, objs, rir>> /\ job \in Jobs
      /\ objs' \in [Ids -> PodCIDRObject \cup {Nil}] /\ job.ids = {} /\ JobOK
  BY DEF FindPrefix, TypeInv, JobOK, HandsEmpty
<1>2. PICK page \in Pages(Managed("Prefix", w.spec.slug)) :
          LET match == {i \in page : objs[i].xid = <<w.key, c>>}
          IN  \/ \E i \in match :
                    /\ job' = [job EXCEPT !.at = c, !.ids = {i}]
                    /\ Proceed("update")
              \/ /\ match = {}
                 /\ job' = [job EXCEPT !.at = c]
                 /\ Proceed("create")
  BY DEF FindPrefix
<1> DEFINE match == {i \in page : objs[i].xid = <<w.key, c>>}
<1>3. match \subseteq Ids
  BY DEF Pages, Managed
<1>4. /\ \/ \E i \in match : job'.ids = {i} /\ Proceed("update")
         \/ match = {} /\ job'.ids = {} /\ Proceed("create")
      /\ job' \in Jobs /\ job'.at = c /\ job'.found = job.found /\ job'.todo = job.todo
      /\ job'.names = job.names
  <2>1. ASSUME NEW i \in match, job' = [job EXCEPT !.at = c, !.ids = {i}]
        PROVE  /\ job' \in Jobs /\ job'.at = c /\ job'.found = job.found /\ job'.todo = job.todo
               /\ job'.names = job.names /\ job'.ids = {i}
    BY <1>1, <1>3, <2>1 DEF Jobs
  <2>2. ASSUME job' = [job EXCEPT !.at = c]
        PROVE  /\ job' \in Jobs /\ job'.at = c /\ job'.found = job.found /\ job'.todo = job.todo
               /\ job'.names = job.names /\ job'.ids = {}
    BY <1>1, <2>2 DEF Jobs
  <2> QED
    BY <1>2, <2>1, <2>2
<1> HIDE DEF match
<1>5. PICK pc \in {"update", "create"} : Proceed(pc) /\ (pc = "create" => job'.ids = {})
  BY <1>4
<1>6. w'.pc = pc /\ w'.key = w.key /\ w'.spec = w.spec
  BY <1>1, <1>5, ShellProceed DEF TypeInv, Steps
<1>7. JobOK'
  BY <1>1, <1>4, <1>5, <1>6
     DEF JobOK, HandsEmpty, PurgeOK, Purging, PrefixOK, AggregateOK, Steps
<1>8. TypeInv'
  BY <1>1, <1>4, <1>5, <1>7, WorkTypes DEF Steps
<1> QED
  BY <1>1, <1>4, <1>6, <1>8 DEF match

LEMMA FindAggregateTypes ==
    ASSUME TypeInv, FindAggregate
    PROVE  /\ TypeInv' /\ w'.key = w.key /\ w'.spec = w.spec /\ UNCHANGED <<node, objs, rir>>
           /\ w.pc = "ensure" /\ w'.pc = "rir" /\ Aggregating
           /\ job'.at = NextFamily /\ job'.found = job.found /\ job'.todo = job.todo
           /\ \E page \in Pages(Managed("Aggregate", w.spec.slug)) :
                 \/ \E i \in Aggregate(page) : job'.ids = {i}
                 \/ Aggregate(page) = {} /\ job'.ids = {}
<1>1. /\ w.pc = "ensure" /\ Aggregating /\ ~Prefixes(w.spec) /\ UNCHANGED <<node, objs, rir>>
      /\ objs' \in [Ids -> PodCIDRObject \cup {Nil}] /\ job.ids = {} /\ JobOK /\ job \in Jobs
      /\ job.todo \subseteq Families /\ NextFamily \in Families /\ Of(NextFamily, job.found) # {}
  BY NextFamilyType
     DEF FindAggregate, TypeInv, JobOK, HandsEmpty, AggregateOK, Aggregating, Steps
<1>2. PICK page \in Pages(Managed("Aggregate", w.spec.slug)) :
          \/ \E i \in Aggregate(page) : job' = [job EXCEPT !.at = NextFamily, !.ids = {i}]
          \/ Aggregate(page) = {} /\ job' = [job EXCEPT !.at = NextFamily]
  BY DEF FindAggregate
<1>3. Aggregate(page) \subseteq Ids
  BY DEF Pages, Managed, Aggregate
<1>4. /\ \/ \E i \in Aggregate(page) : job'.ids = {i}
         \/ Aggregate(page) = {} /\ job'.ids = {}
      /\ job' \in Jobs /\ job'.at = NextFamily /\ job'.found = job.found /\ job'.todo = job.todo
      /\ job'.names = job.names
  <2>1. ASSUME NEW i \in Aggregate(page), job' = [job EXCEPT !.at = NextFamily, !.ids = {i}]
        PROVE  /\ job' \in Jobs /\ job'.at = NextFamily /\ job'.found = job.found
               /\ job'.todo = job.todo /\ job'.names = job.names /\ job'.ids = {i}
    BY <1>1, <1>3, <2>1 DEF Jobs
  <2>2. ASSUME job' = [job EXCEPT !.at = NextFamily]
        PROVE  /\ job' \in Jobs /\ job'.at = NextFamily /\ job'.found = job.found
               /\ job'.todo = job.todo /\ job'.names = job.names /\ job'.ids = {}
    BY <1>1, <2>2 DEF Jobs
  <2> QED
    BY <1>2, <2>1, <2>2
<1>5. Proceed("rir") /\ w'.pc = "rir" /\ w'.key = w.key /\ w'.spec = w.spec
  <2>1. Proceed("rir")
    BY DEF FindAggregate
  <2> QED
    BY <1>1, <2>1, ShellProceed DEF TypeInv, Steps
<1>6. JobOK'
  BY <1>1, <1>4, <1>5
     DEF JobOK, HandsEmpty, PurgeOK, Purging, PrefixOK, AggregateOK, Steps
<1>7. TypeInv'
  BY <1>1, <1>4, <1>5, <1>6, WorkTypes DEF Steps
<1> QED
  BY <1>1, <1>2, <1>4, <1>5, <1>7

\* ListNodePodCIDRPrefixes.
LEMMA ListTypes ==
    ASSUME TypeInv, NEW k \in Keys, ListPrefixes(k)
    PROVE  /\ TypeInv' /\ w'.key = w.key /\ w'.spec = w.spec /\ UNCHANGED <<node, objs, rir>>
           /\ w.pc = "list" /\ w'.pc = "prune" /\ k \in job.names
           /\ job'.found = job.found /\ job'.todo = job.todo
           /\ \E page \in Pages(Managed("Prefix", w.spec.slug)) :
                 job'.ids = {i \in Owned(page, k) : objs[i].xid[2] \notin Desired}
<1>1. /\ w.pc = "list" /\ UNCHANGED <<node, objs, rir>> /\ k \in job.names
      /\ objs' \in [Ids -> PodCIDRObject \cup {Nil}] /\ JobOK /\ job \in Jobs
  BY DEF ListPrefixes, TypeInv
<1>2. PICK page \in Pages(Managed("Prefix", w.spec.slug)) :
          job' = [job EXCEPT !.names = @ \ {k},
                             !.ids = {i \in Owned(page, k) : objs[i].xid[2] \notin Desired}]
  BY DEF ListPrefixes
<1>3. {i \in Owned(page, k) : objs[i].xid[2] \notin Desired} \subseteq Ids
  BY DEF Pages, Managed, Owned
<1>4. /\ job'.ids = {i \in Owned(page, k) : objs[i].xid[2] \notin Desired}
      /\ job' \in Jobs /\ job'.found = job.found /\ job'.todo = job.todo /\ job'.at = job.at
      /\ job'.names = job.names \ {k}
  BY <1>1, <1>2, <1>3 DEF Jobs
<1>5. Proceed("prune") /\ w'.pc = "prune" /\ w'.key = w.key /\ w'.spec = w.spec
  BY <1>1, ShellProceed DEF ListPrefixes, TypeInv, Steps
<1>6. JobOK'
  BY <1>1, <1>4, <1>5
     DEF JobOK, HandsEmpty, PurgeOK, Purging, PrefixOK, AggregateOK, Steps
<1>7. TypeInv'
  BY <1>1, <1>4, <1>5, <1>6, WorkTypes DEF Steps
<1> QED
  BY <1>1, <1>4, <1>5, <1>7

\* List of the Nodes.
LEMMA ListNodesTypes ==
    ASSUME TypeInv, ListNodes
    PROVE  /\ TypeInv' /\ w'.key = w.key /\ w'.spec = w.spec /\ UNCHANGED <<node, objs, rir>>
           /\ w.pc = "nodes" /\ w'.pc = "prune" /\ ~Prefixes(w.spec)
           /\ job'.ids = {} /\ job'.todo = job.todo
<1>1. /\ w.pc = "nodes" /\ UNCHANGED <<node, objs, rir>> /\ ~Prefixes(w.spec)
      /\ objs' \in [Ids -> PodCIDRObject \cup {Nil}] /\ JobOK /\ job \in Jobs
      /\ job.ids = {} /\ job.at = Nil
  BY DEF ListNodes, TypeInv, JobOK, HandsEmpty, PrefixOK, Steps
<1>2. Assigned \in SUBSET Cidrs /\ Existing \in SUBSET Keys
  BY DEF Assigned, Existing, TypeInv
<1>3. /\ job' \in Jobs /\ job'.found = Assigned /\ job'.todo = job.todo /\ job'.at = Nil
      /\ job'.ids = {}
  BY <1>1, <1>2 DEF ListNodes, Jobs
<1>4. Proceed("prune") /\ w'.pc = "prune" /\ w'.key = w.key /\ w'.spec = w.spec
  BY <1>1, ShellProceed DEF ListNodes, TypeInv, Steps
<1>5. JobOK'
  BY <1>1, <1>2, <1>3, <1>4
     DEF JobOK, HandsEmpty, PurgeOK, Purging, PrefixOK, AggregateOK, Steps
<1>6. TypeInv'
  BY <1>1, <1>3, <1>4, <1>5, WorkTypes DEF Steps
<1> QED
  BY <1>1, <1>3, <1>4, <1>6

\* The writes and deletes that are answered.
LEMMA WriteTypes ==
    ASSUME TypeInv, NEW i \in Ids, DropAggregate(i) \/ DeletePrefix(i) \/ WriteObject(i)
    PROVE  /\ TypeInv' /\ w'.key = w.key /\ w'.spec = w.spec /\ UNCHANGED <<node, rir>>
           /\ job'.found = job.found
           /\ \/ /\ DropAggregate(i) /\ w.pc = "drop" /\ i \in job.ids
                 /\ w'.pc = (IF Aggregating THEN "ensure" ELSE "stale")
                 /\ job'.todo = job.todo \ {job.at} /\ job'.ids = {}
                 /\ objs' = [objs EXCEPT ![i] = Nil]
              \/ /\ DeletePrefix(i) /\ w.pc = "prune" /\ w'.pc = "prune" /\ i \in job.ids
                 /\ job'.todo = job.todo /\ job'.ids = job.ids \ {i}
                 /\ objs' = [objs EXCEPT ![i] = Nil]
              \/ /\ WriteObject(i) /\ w.pc \in {"update", "create"} /\ w'.pc = "ensure"
                 /\ job'.todo = job.todo \ {job.at} /\ job'.ids = {}
                 /\ w.pc = "update" => i \in job.ids
                 /\ objs' = [objs EXCEPT ![i] = Written]
<1>1. job \in Jobs /\ objs \in [Ids -> PodCIDRObject \cup {Nil}] /\ JobOK
  BY DEF TypeInv
<1>2. CASE DropAggregate(i)
  <2>1. /\ w.pc = "drop" /\ i \in job.ids /\ UNCHANGED <<node, rir>>
        /\ objs' = [objs EXCEPT ![i] = Nil] /\ objs' \in [Ids -> PodCIDRObject \cup {Nil}]
    BY <1>1, <1>2 DEF DropAggregate
  <2>2. /\ job' \in Jobs /\ job'.todo = job.todo \ {job.at} /\ job'.ids = {} /\ job'.at = Nil
        /\ job'.found = job.found /\ job'.names = job.names
    BY <1>1, <1>2 DEF DropAggregate, Done, Jobs
  <2>3. PICK pc \in {"ensure", "stale"} :
           Proceed(pc) /\ pc = (IF Aggregating THEN "ensure" ELSE "stale")
    BY <1>2 DEF DropAggregate
  <2>4. w'.pc = pc /\ w'.key = w.key /\ w'.spec = w.spec
    BY <2>1, <2>3, ShellProceed DEF TypeInv, Steps
  <2>5. JobOK'
    BY <1>1, <2>1, <2>2, <2>3, <2>4
       DEF JobOK, HandsEmpty, PurgeOK, Purging, PrefixOK, AggregateOK, Aggregating, Steps
  <2>6. TypeInv'
    BY <2>1, <2>2, <2>3, <2>5, WorkTypes DEF Steps
  <2> QED
    BY <1>2, <2>1, <2>2, <2>3, <2>4, <2>6
<1>3. CASE DeletePrefix(i)
  <2>1. /\ w.pc = "prune" /\ i \in job.ids /\ UNCHANGED <<node, rir>>
        /\ objs' = [objs EXCEPT ![i] = Nil] /\ objs' \in [Ids -> PodCIDRObject \cup {Nil}]
    BY <1>1, <1>3 DEF DeletePrefix
  <2>2. /\ job' \in Jobs /\ job'.todo = job.todo /\ job'.ids = job.ids \ {i} /\ job'.at = job.at
        /\ job'.found = job.found /\ job'.names = job.names
    BY <1>1, <1>3 DEF DeletePrefix, Jobs
  <2>3. Proceed("prune") /\ w'.pc = "prune" /\ w'.key = w.key /\ w'.spec = w.spec
    BY <1>3, <2>1, ShellProceed DEF DeletePrefix, TypeInv, Steps
  <2>4. JobOK'
    BY <1>1, <2>1, <2>2, <2>3
       DEF JobOK, HandsEmpty, PurgeOK, Purging, PrefixOK, AggregateOK, Steps
  <2>5. TypeInv'
    BY <2>1, <2>2, <2>3, <2>4, WorkTypes DEF Steps
  <2> QED
    BY <1>3, <2>1, <2>2, <2>3, <2>5
<1>4. CASE WriteObject(i)
  <2>1. /\ w.pc \in {"update", "create"} /\ UNCHANGED <<node, rir>>
        /\ w.pc = "update" => i \in job.ids
        /\ objs' = [objs EXCEPT ![i] = Written] /\ objs' \in [Ids -> PodCIDRObject \cup {Nil}]
    BY <1>1, <1>4, PrefixWritten, AggregateWritten DEF WriteObject
  <2>2. /\ job' \in Jobs /\ job'.todo = job.todo \ {job.at} /\ job'.ids = {} /\ job'.at = Nil
        /\ job'.found = job.found /\ job'.names = job.names
    BY <1>1, <1>4 DEF WriteObject, Done, Jobs
  <2>3. Proceed("ensure") /\ w'.pc = "ensure" /\ w'.key = w.key /\ w'.spec = w.spec
    BY <1>4, <2>1, ShellProceed DEF WriteObject, TypeInv, Steps
  <2>4. JobOK'
    BY <1>1, <2>1, <2>2, <2>3
       DEF JobOK, HandsEmpty, PurgeOK, Purging, PrefixOK, AggregateOK, Steps
  <2>5. TypeInv'
    BY <2>1, <2>2, <2>3, <2>4, WorkTypes DEF Steps
  <2> QED
    BY <1>4, <2>1, <2>2, <2>3, <2>5
<1> QED
  BY <1>2, <1>3, <1>4

\* The steps that fail.
LEMMA FailureTypes ==
    ASSUME TypeInv, CallFails \/ ObjectGone \/ LookupRIRFails
    PROVE  /\ TypeInv' /\ w'.pc = "status" /\ w'.err
           /\ job'.ids = {}
           /\ w'.key = w.key /\ w'.spec = w.spec /\ UNCHANGED <<node, rir>>
<1>1. Fail /\ Abandon /\ UNCHANGED <<node, rir>> /\ w.pc \in Steps /\ w.pc # "idle"
  BY DEF CallFails, ObjectGone, LookupRIRFails, Steps
<1>2. job' \in Jobs /\ job'.ids = {}
  BY <1>1 DEF Abandon, TypeInv, Jobs
<1>3. objs' \in [Ids -> PodCIDRObject \cup {Nil}]
  BY PrefixWritten, AggregateWritten DEF CallFails, ObjectGone, LookupRIRFails, Outcomes, TypeInv
<1> QED
  BY <1>1, <1>2, <1>3, EndTypes

\* syncStatus and the errors of the Kubernetes API.
LEMMA ReportTypes ==
    ASSUME TypeInv, syncStatus \/ KubeFails
    PROVE  /\ TypeInv' /\ UNCHANGED <<node, objs, rir>>
           /\ \/ w' = IdleWorker /\ job' = NoJob
              \/ /\ w.pc = "status" /\ w'.pc = "write" /\ job' = job
                 /\ w'.key = w.key /\ w'.spec = w.spec /\ w'.err = w.err
              \/ w'.pc = "status" /\ w'.err /\ job'.ids = {}
<1>1. UNCHANGED <<node, objs, rir>>
  BY DEF syncStatus, KubeFails
<1>2. CASE syncStatus
  <2>1. /\ ShellInv(Steps)'
        /\ \/ w' = IdleWorker /\ job' = NoJob
           \/ /\ w.pc = "status" /\ w'.pc = "write" /\ job' = job
              /\ w'.key = w.key /\ w'.spec = w.spec /\ w'.err = w.err
    BY <1>2, ShellReport, ShellIdle, SpecTypes DEF syncStatus, TypeInv
  <2>2. w'.pc \in {"idle", "write"} /\ (w'.pc = "idle" => job' = NoJob)
    BY <2>1, ShellIdle
  <2>3. JobOK'
    BY <2>2 DEF JobOK, HandsEmpty, PurgeOK, Purging, PrefixOK, AggregateOK, Steps
  <2> QED
    BY <1>1, <2>1, <2>3, NoJobType DEF TypeInv
<1>3. CASE KubeFails /\ w.pc = "nodes" /\ Fail /\ Abandon
  <2>1. job' \in Jobs /\ job'.ids = {} /\ objs' \in [Ids -> PodCIDRObject \cup {Nil}]
    BY <1>1, <1>3 DEF Abandon, TypeInv, Jobs
  <2> QED
    BY <1>1, <1>3, <2>1, EndTypes
<1>4. CASE /\ job' = NoJob
           /\ \/ w.pc = "node" /\ ReturnError /\ UNCHANGED <<storeVars, cfgEvent, status>>
              \/ ReportFault
  <2>1. ShellInv(Steps)' /\ w' = IdleWorker
    <3>1. CASE ReportFault
      <4>1. w' = IdleWorker
        BY <3>1 DEF ReportFault, ReadForStatusFails, WriteStatusFails, ReturnError
      <4> QED
        BY <3>1, <4>1, ShellReport, SpecTypes DEF TypeInv
    <3>2. CASE w.pc = "node" /\ ReturnError /\ UNCHANGED <<storeVars, cfgEvent, status>>
      <4>1. status' \in Statuses
        BY <3>2 DEF TypeInv, ShellInv
      <4> QED
        BY <3>2, <4>1, ShellReturn DEF TypeInv
    <3> QED
      BY <1>4, <3>1, <3>2
  <2>2. JobOK'
    BY <1>4, <2>1, ShellIdle
       DEF JobOK, HandsEmpty, PurgeOK, Purging, PrefixOK, AggregateOK, Steps
  <2> QED
    BY <1>1, <1>4, <2>1, <2>2, NoJobType DEF TypeInv
<1> QED
  BY <1>2, <1>3, <1>4 DEF KubeFails

\* Taking a Node.
LEMMA TakeTypes ==
    ASSUME TypeInv, NEW k \in Keys, TakeNode(k)
    PROVE  /\ TypeInv' /\ w.pc = "idle" /\ w'.pc \in {"idle", "get"}
           /\ UNCHANGED podVars /\ job' = NoJob
<1>1. ShellInv(Steps)' /\ UNCHANGED podVars
  BY ShellTake DEF TakeNode, TypeInv
<1>2. w.pc = "idle" /\ w'.pc \in {"idle", "get"}
  BY DEF TakeNode, PollStore, StartReconcile, IdleWorker
<1>3. job' = NoJob
  BY <1>1, <1>2 DEF TypeInv, JobOK, HandsEmpty, podVars
<1>4. JobOK'
  BY <1>2, <1>3
     DEF JobOK, HandsEmpty, PurgeOK, Purging, PrefixOK, AggregateOK, Steps
<1> QED
  BY <1>1, <1>2, <1>3, <1>4 DEF TypeInv, podVars

\* Users, Nodes, timers and restarts.
LEMMA EnvironmentTypes ==
    ASSUME TypeInv, Environment
    PROVE  /\ TypeInv'
           /\ \A i \in Ids : objs'[i] = objs[i] \/ objs'[i] = Nil
           /\ \/ w' = IdleWorker /\ job' = NoJob /\ UNCHANGED objs
              \/ /\ w'.pc = w.pc /\ w'.key = w.key /\ w'.spec = w.spec /\ w'.err = w.err
                 /\ job' = job
           /\ UNCHANGED objs \/ UNCHANGED <<w, job>>
<1>1. CASE PodCIDRsRestart
  <2>1. ShellInv(Steps)' /\ w' = IdleWorker
    BY <1>1, ShellRestartTypes DEF PodCIDRsRestart, TypeInv
  <2>2. JobOK'
    BY <1>1, <2>1, ShellIdle
       DEF PodCIDRsRestart, JobOK, HandsEmpty, PurgeOK, Purging, PrefixOK, AggregateOK, Steps
  <2> QED
    BY <1>1, <2>1, <2>2, NoJobType DEF PodCIDRsRestart, TypeInv
<1>2. CASE ~PodCIDRsRestart
  <2>1. ShellInv(Steps)'
    BY <1>2, ShellConfig, ShellEvents, ShellUnchanged, ShellQueued
       DEF Environment, enqueueAllNodes, Heartbeat, NodeLeaves, NodeJoins, Drift, ChangeRIR, TypeInv
  <2>2. w'.pc = w.pc /\ w'.key = w.key /\ w'.spec = w.spec /\ w'.err = w.err
    BY <1>2, ShellKeepsWorker
       DEF Environment, enqueueAllNodes, Heartbeat, NodeLeaves, NodeJoins, Drift, ChangeRIR,
           TypeInv, shellVars
  <2>3. job' = job
    BY <1>2
       DEF Environment, enqueueAllNodes, Heartbeat, NodeLeaves, NodeJoins, Drift, ChangeRIR, podVars
  <2>4. rir' \in BOOLEAN /\ node' \in [Keys -> {Nil} \cup SUBSET Cidrs]
    BY <1>2
       DEF Environment, enqueueAllNodes, Heartbeat, NodeLeaves, NodeJoins, Drift, ChangeRIR,
           Assignable, podVars, TypeInv
  <2>5. /\ objs' \in [Ids -> PodCIDRObject \cup {Nil}]
        /\ \A i \in Ids : objs'[i] = objs[i] \/ objs'[i] = Nil
        /\ UNCHANGED objs \/ UNCHANGED <<w, job>>
    BY <1>2
       DEF Environment, enqueueAllNodes, Heartbeat, NodeLeaves, NodeJoins, Drift, ChangeRIR,
           podVars, shellVars, TypeInv
  <2>6. JobOK'
    BY <2>2, <2>3
       DEF TypeInv, JobOK, HandsEmpty, PurgeOK, Purging, PrefixOK, AggregateOK, Aggregating
  <2> QED
    BY <2>1, <2>2, <2>3, <2>4, <2>5, <2>6 DEF TypeInv
<1> QED
  BY <1>1, <1>2

\* The types are inductive.
LEMMA NextTypes == TypeInv /\ [Next]_vars => TypeInv'
<1> SUFFICES ASSUME TypeInv, [Next]_vars PROVE TypeInv'
  OBVIOUS
<1>1. CASE UNCHANGED vars
  <2>1. ShellInv(Steps)'
    BY <1>1, ShellUnchanged DEF vars, TypeInv
  <2>2. UNCHANGED <<w, job, node, rir, objs>>
    BY <1>1 DEF vars, shellVars, podVars
  <2>3. JobOK'
    BY <2>2
       DEF TypeInv, JobOK, HandsEmpty, PurgeOK, Purging, PrefixOK, AggregateOK, Aggregating
  <2> QED
    BY <2>1, <2>2, <2>3 DEF TypeInv
<1>2. CASE WorkerStep
  BY <1>2, ChooseTypes, FindStaleTypes, TurnTypes, SeeTypes, FindPrefixTypes, FindAggregateTypes,
     ListTypes, ListNodesTypes, WriteTypes, FailureTypes, ReportTypes
     DEF WorkerStep
<1> QED
  BY <1>1, <1>2, TakeTypes, FailureTypes, ReportTypes, EnvironmentTypes DEF Next

(***************************************************************************)
(* Type correctness: every variable keeps its type; in particular, what    *)
(* EnsurePodCIDRAggregate writes is a block of the family, for every width *)
(* of addresses.                                                           *)
(***************************************************************************)
THEOREM PodCIDRsTypes == SafetySpec => []PodCIDRsTypeOK
<1>1. TypeInv => PodCIDRsTypeOK
  BY DEF TypeInv, ShellInv, ShellWorkers, Statuses, Steps, Jobs, PodCIDRsTypeOK, ShellTypeOK
<1> QED
  BY <1>1, InitTypes, NextTypes, PTL DEF SafetySpec
-----------------------------------------------------------------------------
(***************************************************************************)
(* One object per external ID.                                             *)
(***************************************************************************)
\* The external ID of the object at work.
Target == IF Prefixes(w.spec) /\ w.pc # "drop" THEN <<w.key, job.at>> ELSE job.at

\* Object j is the one of this tag and external ID that the worker searches for.
Claimed(j) == objs[j] # Nil /\ objs[j].tag = w.spec.slug /\ objs[j].xid = Target

\* The worker is past the search by external ID, and yet to write.
Aiming == w.pc \in {"rir", "update", "create", "drop"}

\* There is still no other object than the one found, which is at most one.
OnlyFound ==
    Aiming => /\ \A j \in Ids : Claimed(j) => j \in job.ids
              /\ \A i, j \in job.ids : i = j

DupInv == TypeInv /\ OneObjectPerExternalID /\ OnlyFound

\* The external ID tells the kind.
LEMMA KindOfObject ==
    ASSUME TypeInv, NEW i \in Ids, objs[i] # Nil
    PROVE  /\ objs[i].xid \in Families => objs[i].kind = "Aggregate"
           /\ objs[i].xid \in Keys \X Cidrs => objs[i].kind = "Prefix"
           /\ objs[i].kind = "Aggregate" => objs[i].xid \in Families
           /\ objs[i].kind = "Prefix" => objs[i].xid \in Keys \X Cidrs
<1>1. objs[i] \in PodCIDRObject
  BY DEF TypeInv
<1>2. CASE objs[i] \in [kind : {"Prefix"}, tag : Slugs, xid : Keys \X Cidrs, cidr : Cidrs]
  BY <1>2, PodCIDRsAssumption DEF PodCIDRsAssumption
<1>3. CASE objs[i] \in [kind : {"Aggregate"}, tag : Slugs, xid : Families, cidr : AllBlocks]
  BY <1>3, PodCIDRsAssumption DEF PodCIDRsAssumption
<1> QED
  BY <1>1, <1>2, <1>3 DEF PodCIDRObject

\* A step that brings no object and, if a write lies ahead, keeps what the worker
\* knows.
LEMMA NothingNew ==
    ASSUME DupInv, TypeInv',
           \A i \in Ids : objs'[i] = objs[i] \/ objs'[i] = Nil,
           Aiming' =>
               /\ Aiming /\ w'.spec = w.spec /\ w'.key = w.key
               /\ job'.ids = job.ids /\ job'.at = job.at
               /\ w'.pc = "drop" <=> w.pc = "drop"
    PROVE  DupInv'
<1>1. OneObjectPerExternalID'
  BY DEF DupInv, OneObjectPerExternalID
<1>2. Aiming' => Target' = Target
  BY DEF Target, Prefixes
<1>3. OnlyFound'
  BY <1>2 DEF DupInv, OnlyFound, Claimed
<1> QED
  BY <1>1, <1>3 DEF DupInv

\* A search by external ID finds the one object there is.
LEMMA SearchDup ==
    ASSUME Cardinality(Ids) <= PageSize, DupInv, TypeInv', UNCHANGED objs,
           w'.spec = w.spec, w'.key = w.key, NEW kind \in {"Prefix", "Aggregate"},
           kind = "Prefix" => Target' \in Keys \X Cidrs,
           kind = "Aggregate" => Target' \in Families,
           NEW page \in Pages(Managed(kind, w.spec.slug)),
           \/ \E i \in page : objs[i].xid = Target' /\ job'.ids = {i}
           \/ {i \in page : objs[i].xid = Target'} = {} /\ job'.ids = {}
    PROVE  DupInv'
<1>1. TypeInv /\ page = Managed(kind, w.spec.slug)
  BY WholePage DEF DupInv, Managed
<1>2. \A j \in Ids : Claimed(j)' => j \in page /\ objs[j].xid = Target'
  BY <1>1, KindOfObject DEF Claimed, Managed
<1>3. \A i, j \in page : objs[i].xid = objs[j].xid => i = j
  BY <1>1 DEF DupInv, OneObjectPerExternalID, Managed
<1>4. OnlyFound'
  BY <1>2, <1>3 DEF OnlyFound
<1> QED
  BY <1>4 DEF DupInv, OneObjectPerExternalID

\* A write makes no duplicate, and leaves no object with its external ID but the
\* one written, answered or not.
LEMMA WriteIsSafe ==
    ASSUME DupInv, w.pc \in {"update", "create"}, NEW i \in Ids,
           w.pc = "update" => i \in job.ids,
           objs' = [objs EXCEPT ![i] = Written]
    PROVE  /\ OneObjectPerExternalID'
           /\ objs'[i] = Written /\ Written # Nil
           /\ \A j \in Ids \ {i} : objs'[j] = objs[j] /\ ~Claimed(j)
<1>1. TypeInv /\ objs'[i] = Written /\ \A j \in Ids \ {i} : objs'[j] = objs[j]
  BY DEF DupInv, TypeInv
<1>2. Written.tag = w.spec.slug /\ Written.xid = Target /\ Written # Nil
  BY <1>1, PrefixWritten, AggregateWritten DEF Target
<1>3. w.pc = "create" => job.ids = {}
  BY <1>1 DEF TypeInv, JobOK, HandsEmpty
<1>4. \A j \in Ids \ {i} : ~Claimed(j)
  BY <1>3 DEF DupInv, OnlyFound, Aiming
<1>5. OneObjectPerExternalID'
  BY <1>1, <1>2, <1>4 DEF Claimed, DupInv, OneObjectPerExternalID
<1> QED
  BY <1>1, <1>2, <1>4, <1>5

\* The searches.
LEMMA FindDup ==
    ASSUME Cardinality(Ids) <= PageSize, DupInv,
           FindStaleAggregate \/ FindAggregate \/ \E c \in Cidrs : FindPrefix(c)
    PROVE  DupInv'
<1>1. TypeInv
  BY DEF DupInv
<1>2. CASE FindStaleAggregate
  <2>1. /\ TypeInv' /\ w'.key = w.key /\ w'.spec = w.spec /\ UNCHANGED objs
        /\ w'.pc = "drop" \/ w'.pc \in {"stale", "ensure"}
    BY <1>1, <1>2, FindStaleTypes
  <2>2. CASE w'.pc = "drop"
    <3>1. PICK page \in Pages(Managed("Aggregate", w.spec.slug)) :
             job'.at = NextFamily /\ \E i \in Aggregate(page) : job'.ids = {i}
      BY <1>1, <1>2, <2>2, FindStaleTypes
    <3>2. Target' = NextFamily /\ NextFamily \in Families
      BY <2>1, <2>2, <3>1 DEF Target, TypeInv, JobOK, PurgeOK
    <3> QED
      BY <2>1, <3>1, <3>2, SearchDup DEF Aggregate
  <2>3. CASE w'.pc \in {"stale", "ensure"}
    BY <2>1, <2>3, NothingNew DEF Aiming
  <2> QED
    BY <2>1, <2>2, <2>3
<1>3. CASE FindAggregate
  <2>1. /\ TypeInv' /\ w'.key = w.key /\ w'.spec = w.spec /\ UNCHANGED objs
        /\ w'.pc = "rir" /\ ~Prefixes(w.spec) /\ job'.at = NextFamily
    BY <1>1, <1>3, FindAggregateTypes DEF Aggregating
  <2>2. PICK page \in Pages(Managed("Aggregate", w.spec.slug)) :
           \/ \E i \in Aggregate(page) : job'.ids = {i}
           \/ Aggregate(page) = {} /\ job'.ids = {}
    BY <1>1, <1>3, FindAggregateTypes
  <2>3. Target' = NextFamily /\ NextFamily \in Families
    BY <2>1 DEF Target, TypeInv, JobOK, AggregateOK, Steps
  <2> QED
    BY <2>1, <2>2, <2>3, SearchDup DEF Aggregate
<1>4. ASSUME NEW c \in Cidrs, FindPrefix(c) PROVE DupInv'
  <2>1. /\ TypeInv' /\ w'.key = w.key /\ w'.spec = w.spec /\ UNCHANGED objs
        /\ w.pc = "ensure" /\ w'.pc \in {"update", "create"} /\ Prefixes(w.spec) /\ job'.at = c
    BY <1>1, <1>4, FindPrefixTypes
  <2>2. PICK page \in Pages(Managed("Prefix", w.spec.slug)) :
           \/ \E i \in {j \in page : objs[j].xid = <<w.key, c>>} : job'.ids = {i}
           \/ {i \in page : objs[i].xid = <<w.key, c>>} = {} /\ job'.ids = {}
    BY <1>1, <1>4, FindPrefixTypes
  <2>3. Target' = <<w.key, c>> /\ w.key \in Keys
    BY <1>1, <2>1 DEF Target, TypeInv, ShellInv
  <2> QED
    BY <2>1, <2>2, <2>3, SearchDup
<1> QED
  BY <1>2, <1>3, <1>4

\* Writes and deletes that are answered, and calls that fail.
LEMMA WriteDup ==
    ASSUME DupInv,
           \/ \E i \in Ids : DropAggregate(i) \/ DeletePrefix(i) \/ WriteObject(i)
           \/ CallFails \/ ObjectGone \/ LookupRIRFails
    PROVE  DupInv'
<1>1. TypeInv /\ TypeInv' /\ w'.pc \in {"ensure", "stale", "prune", "status"}
  BY WriteTypes, FailureTypes DEF DupInv
<1>2. OnlyFound'
  BY <1>1 DEF OnlyFound, Aiming
<1>3. CASE \A i \in Ids : objs'[i] = objs[i] \/ objs'[i] = Nil
  BY <1>1, <1>3, NothingNew DEF Aiming
<1>4. CASE /\ w.pc \in {"update", "create"}
           /\ \E i \in Ids : /\ w.pc = "update" => i \in job.ids
                             /\ objs' = [objs EXCEPT ![i] = Written]
  BY <1>1, <1>2, <1>4, WriteIsSafe DEF DupInv
<1>5. objs \in [Ids -> PodCIDRObject \cup {Nil}] /\ job.ids \subseteq Ids
  BY <1>1 DEF TypeInv, Jobs
<1>6. ASSUME NEW i \in Ids, DropAggregate(i) \/ DeletePrefix(i) \/ WriteObject(i) PROVE DupInv'
  BY <1>1, <1>3, <1>4, <1>5, <1>6, WriteTypes
<1> QED
  BY <1>3, <1>4, <1>5, <1>6 DEF CallFails, ObjectGone, LookupRIRFails, Outcomes, FreshIds

\* All other steps write nothing, or take an object away.
LEMMA OtherDup ==
    ASSUME DupInv,
           \/ \E k \in Keys : TakeNode(k) \/ ListPrefixes(k)
           \/ reconcilePrefixForNode \/ reconcileAggregates
           \/ SeeUnsynced \/ SeePaused \/ SeeAssigned \/ ListNodes
           \/ StaleDone \/ EnsureManagedTag \/ EnsureDone \/ PruneDone \/ LookupRIR
           \/ syncStatus \/ KubeFails
           \/ Environment
    PROVE  DupInv'
<1>1. TypeInv
  BY DEF DupInv
<1>2. CASE \E k \in Keys : TakeNode(k) \/ ListPrefixes(k)
  BY <1>1, <1>2, TakeTypes, ListTypes, NothingNew DEF Aiming, podVars
<1>3. CASE reconcilePrefixForNode \/ reconcileAggregates
  <2>1. w'.pc \in {"stale", "nodes", "status"} /\ UNCHANGED objs
    BY <1>1, <1>3
       DEF reconcilePrefixForNode, reconcileAggregates, Proceed, Succeed, TypeInv, ShellInv,
           ShellWorkers
  <2> QED
    BY <1>1, <1>3, <2>1, ChooseTypes, NothingNew DEF Aiming
<1>4. CASE SeeUnsynced \/ SeePaused \/ SeeAssigned \/ ListNodes
  BY <1>1, <1>4, SeeTypes, ListNodesTypes, NothingNew DEF Aiming
<1>5. CASE StaleDone \/ EnsureManagedTag \/ EnsureDone \/ PruneDone \/ LookupRIR
  BY <1>1, <1>5, TurnTypes, NothingNew DEF Aiming, podVars
<1>6. CASE syncStatus \/ KubeFails
  <2>1. TypeInv' /\ UNCHANGED objs /\ w'.pc \in {"idle", "write", "status"}
    BY <1>1, <1>6, ReportTypes, ShellIdle
  <2> QED
    BY <2>1, NothingNew DEF Aiming
<1>7. CASE Environment
  BY <1>1, <1>7, EnvironmentTypes, ShellIdle, NothingNew DEF Aiming
<1> QED
  BY <1>2, <1>3, <1>4, <1>5, <1>6, <1>7

\* DupInv holds at first and is inductive.
LEMMA InitDup == Init => DupInv
<1> SUFFICES ASSUME Init PROVE DupInv
  OBVIOUS
<1>1. w.pc = "idle" /\ \A i \in Ids : objs[i] = Nil
  BY ShellIdle DEF Init, ShellInit
<1> QED
  BY <1>1, InitTypes DEF DupInv, OneObjectPerExternalID, OnlyFound, Aiming

LEMMA NextDup ==
    ASSUME Cardinality(Ids) <= PageSize
    PROVE  DupInv /\ [Next]_vars => DupInv'
<1> SUFFICES ASSUME DupInv, [Next]_vars PROVE DupInv'
  OBVIOUS
<1>1. CASE UNCHANGED vars
  <2>1. TypeInv'
    BY NextTypes DEF DupInv
  <2> QED
    BY <1>1, <2>1, NothingNew DEF vars, shellVars, podVars, Aiming
<1>2. CASE WorkerStep
  BY <1>2, FindDup, WriteDup, OtherDup DEF WorkerStep
<1> QED
  BY <1>1, <1>2, WriteDup, OtherDup DEF Next

(***************************************************************************)
(* Provided a list returns all objects (as the code takes for granted),    *)
(* NetBox never holds two Prefixes of one Node and CIDR or two Aggregates  *)
(* of one family, however often answers are lost, objects deleted by       *)
(* others and the process replaced (EnsurePodCIDRPrefix,                   *)
(* EnsurePodCIDRAggregate).                                                *)
(***************************************************************************)
THEOREM PodCIDRsAreUnique ==
    Cardinality(Ids) <= PageSize => (SafetySpec => []OneObjectPerExternalID)
<1> SUFFICES ASSUME Cardinality(Ids) <= PageSize PROVE SafetySpec => []OneObjectPerExternalID
  OBVIOUS
<1>1. DupInv => OneObjectPerExternalID
  BY DEF DupInv
<1> QED
  BY <1>1, InitDup, NextDup, PTL DEF SafetySpec
-----------------------------------------------------------------------------
(***************************************************************************)
(* What the worker may write or delete.                                    *)
(***************************************************************************)
InHand ==
    \A i \in job.ids : objs[i] # Nil =>
        /\ w.pc = "drop" => objs[i].kind = "Aggregate"
        /\ w.pc = "prune" =>
              objs[i].kind = "Prefix" /\ (Prefixes(w.spec) => objs[i].xid[1] = w.key)

PauseInv == TypeInv /\ InHand

\* A step after which the worker holds nothing new.
LEMMA HandKept ==
    ASSUME PauseInv, TypeInv',
           \A i \in Ids : objs'[i] = objs[i] \/ objs'[i] = Nil,
           w'.pc \in {"drop", "prune"} /\ job'.ids # {} =>
               /\ w'.pc = w.pc /\ w'.spec = w.spec /\ w'.key = w.key
               /\ job'.ids \subseteq job.ids
    PROVE  PauseInv'
<1>1. job'.ids \subseteq Ids
  BY DEF TypeInv, Jobs
<1>2. InHand'
  BY <1>1 DEF PauseInv, InHand
<1> QED
  BY <1>2 DEF PauseInv

\* A step after which the worker has nothing to delete.
LEMMA NothingInHand ==
    ASSUME TypeInv', w'.pc \notin {"drop", "prune"} \/ job'.ids = {}
    PROVE  PauseInv'
BY DEF PauseInv, InHand

LEMMA NextPause == PauseInv /\ [Next]_vars => PauseInv'
<1> SUFFICES ASSUME PauseInv, [Next]_vars PROVE PauseInv'
  OBVIOUS
<1>1. TypeInv /\ TypeInv'
  BY NextTypes DEF PauseInv
<1>2. CASE UNCHANGED vars
  BY <1>1, <1>2, HandKept DEF vars, shellVars, podVars
<1>3. CASE FindStaleAggregate
  <2>1. CASE w'.pc = "drop"
    <3>1. /\ UNCHANGED objs
          /\ \E page \in Pages(Managed("Aggregate", w.spec.slug)) :
                \E i \in Aggregate(page) : job'.ids = {i}
      BY <1>1, <1>3, <2>1, FindStaleTypes
    <3>2. \A i \in job'.ids : objs'[i].kind = "Aggregate"
      BY <3>1 DEF Aggregate, Pages, Managed
    <3> QED
      BY <1>1, <2>1, <3>2 DEF PauseInv, InHand
  <2>2. CASE w'.pc # "drop"
    BY <1>1, <1>3, <2>2, FindStaleTypes, NothingInHand
  <2> QED
    BY <2>1, <2>2
<1>4. ASSUME NEW k \in Keys, ListPrefixes(k) PROVE PauseInv'
  <2>1. /\ UNCHANGED objs /\ w'.pc = "prune" /\ w'.key = w.key /\ w'.spec = w.spec
        /\ w.pc = "list" /\ k \in job.names
        /\ \E page \in Pages(Managed("Prefix", w.spec.slug)) :
              job'.ids = {i \in Owned(page, k) : objs[i].xid[2] \notin Desired}
    BY <1>1, <1>4, ListTypes
  <2>2. \A i \in job'.ids : objs'[i].kind = "Prefix" /\ objs'[i].xid[1] = k
    BY <2>1 DEF Owned, Pages, Managed
  <2>3. Prefixes(w.spec) => k = w.key
    BY <1>1, <2>1 DEF TypeInv, JobOK, PrefixOK, Steps
  <2> QED
    BY <1>1, <2>1, <2>2, <2>3 DEF PauseInv, InHand
<1>5. ASSUME NEW i \in Ids, DropAggregate(i) \/ DeletePrefix(i) \/ WriteObject(i) PROVE PauseInv'
  <2>1. CASE DeletePrefix(i)
    <3>1. /\ w.pc = "prune" /\ w'.spec = w.spec /\ w'.key = w.key /\ w'.pc = "prune"
          /\ job'.ids = job.ids \ {i} /\ objs' = [objs EXCEPT ![i] = Nil]
      BY <1>1, <1>5, <2>1, WriteTypes DEF DropAggregate, WriteObject, DeletePrefix
    <3>2. \A j \in Ids : objs'[j] = objs[j] \/ objs'[j] = Nil
      BY <1>1, <3>1 DEF TypeInv
    <3> QED
      BY <1>1, <3>1, <3>2, HandKept
  <2>2. CASE DropAggregate(i) \/ WriteObject(i)
    BY <1>1, <2>2, WriteTypes, NothingInHand DEF DropAggregate, WriteObject, DeletePrefix
  <2> QED
    BY <1>5, <2>1, <2>2
<1>6. CASE reconcilePrefixForNode \/ reconcileAggregates
  <2>1. w'.pc \in {"stale", "nodes", "status"}
    BY <1>1, <1>6
       DEF reconcilePrefixForNode, reconcileAggregates, Proceed, Succeed, TypeInv, ShellInv,
           ShellWorkers
  <2> QED
    BY <1>1, <2>1, NothingInHand
<1>7. CASE Environment
  BY <1>1, <1>7, EnvironmentTypes, ShellIdle, HandKept
<1>8. CASE syncStatus \/ KubeFails
  BY <1>1, <1>8, ReportTypes, ShellIdle, NothingInHand
<1>9. CASE StaleDone \/ EnsureManagedTag \/ EnsureDone \/ PruneDone \/ LookupRIR
  BY <1>1, <1>9, TurnTypes, NothingInHand
<1>10. CASE \/ \E k \in Keys : TakeNode(k)
            \/ SeeUnsynced \/ SeePaused \/ SeeAssigned \/ ListNodes
            \/ FindAggregate \/ (\E c \in Cidrs : FindPrefix(c))
            \/ CallFails \/ ObjectGone \/ LookupRIRFails
  BY <1>1, <1>10, TakeTypes, SeeTypes, ListNodesTypes, FindAggregateTypes, FindPrefixTypes,
     FailureTypes, NothingInHand
<1> QED
  BY <1>2, <1>3, <1>4, <1>5, <1>6, <1>7, <1>8, <1>9, <1>10 DEF Next, WorkerStep

\* A paused reconcile neither ensures anything nor works with Aggregates, and it
\* prunes only for a Node that is gone.
LEMMA PausedSteps ==
    ASSUME PauseInv, w.pc # "idle", Paused(w.spec)
    PROVE  /\ w.pc \notin {"update", "create"}
           /\ w.pc \in {"drop", "prune"} => Prefixes(w.spec)
           /\ w.pc = "prune" => job.found = Nil
<1>1. ~w.spec.enabled /\ ~Aggregating
  BY DEF Paused, Aggregating
<1> QED
  BY <1>1 DEF PauseInv, TypeInv, JobOK, PurgeOK, Purging, PrefixOK, AggregateOK, Steps

(***************************************************************************)
(* A reconcile that found the sync off and retainOnDisable set writes      *)
(* nothing, and deletes nothing but Aggregates of a representation no      *)
(* longer in use and the Prefixes of a Node that is gone, whatever the     *)
(* pages of a list hold (reconcilePrefixForNode, reconcileAggregates).     *)
(***************************************************************************)
THEOREM PausedObjectsAreKept == SafetySpec => PausedKeepsObjects
<1> DEFINE Keeps ==
        (w.spec # Nil /\ Paused(w.spec)) =>
            \A i \in Ids : objs'[i] # objs[i] =>
                /\ Prefixes(w.spec)
                /\ objs[i].kind = "Prefix" => job.found = Nil /\ objs[i].xid[1] = w.key
<1>1. Init => PauseInv
  <2> SUFFICES ASSUME Init PROVE PauseInv
    OBVIOUS
  <2>1. TypeInv /\ job.ids = {}
    BY InitTypes, NoJobType DEF Init
  <2> QED
    BY <2>1 DEF PauseInv, InHand
<1>2. PauseInv /\ [Next]_vars => [Keeps]_<<w, job>>
  <2> SUFFICES ASSUME PauseInv, Next, UNCHANGED <<w, job>> => FALSE, Paused(w.spec),
                      NEW i \in Ids, objs'[i] # objs[i]
               PROVE  /\ Prefixes(w.spec)
                      /\ objs[i].kind = "Prefix" => job.found = Nil /\ objs[i].xid[1] = w.key
    BY DEF vars, shellVars, podVars
  <2>1. TypeInv /\ objs \in [Ids -> PodCIDRObject \cup {Nil}]
    BY DEF PauseInv, TypeInv
  <2>2. CASE /\ w.pc \in {"drop", "prune"}
             /\ \E j \in job.ids : objs' = [objs EXCEPT ![j] = Nil]
    <3>1. i \in job.ids /\ objs[i] # Nil
      BY <2>1, <2>2
    <3> QED
      BY <2>2, <3>1, PausedSteps DEF PauseInv, InHand
  <2>3. CASE w.pc \in {"update", "create"}
    BY <2>3, PausedSteps
  <2>4. ~ UNCHANGED objs /\ ~Environment
    BY <2>1, EnvironmentTypes
  <2>5. ASSUME NEW j \in Ids, DropAggregate(j) \/ DeletePrefix(j) \/ WriteObject(j)
        PROVE  \/ w.pc \in {"update", "create"}
               \/ /\ w.pc \in {"drop", "prune"}
                  /\ \E l \in job.ids : objs' = [objs EXCEPT ![l] = Nil]
    BY <2>5 DEF DropAggregate, DeletePrefix, WriteObject
  <2>6. CASE CallFails
    BY <2>2, <2>3, <2>4, <2>6 DEF CallFails, Outcomes
  <2> QED
    BY <2>2, <2>3, <2>4, <2>5, <2>6
       DEF Next, WorkerStep, TakeNode, reconcilePrefixForNode, reconcileAggregates,
           FindStaleAggregate, StaleDone, SeeUnsynced, SeePaused, SeeAssigned, EnsureManagedTag,
           EnsureDone, PruneDone, FindPrefix, ListPrefixes, ListNodes, FindAggregate, LookupRIR,
           LookupRIRFails, ObjectGone, syncStatus, KubeFails, podVars
<1> QED
  BY <1>1, <1>2, NextPause, PTL DEF SafetySpec, PausedKeepsObjects
-----------------------------------------------------------------------------
(***************************************************************************)
(* Nothing wrong is left.  What is to be said of NetBox while a reconcile  *)
(* is on its way depends on what it has dealt with.                        *)
(***************************************************************************)
\* Objects the worker's lists select: Aggregates, and Prefixes of its Node.
AggregateHere(i) ==
    objs[i] # Nil /\ objs[i].kind = "Aggregate" /\ objs[i].tag = w.spec.slug

PrefixHere(i) ==
    /\ objs[i] # Nil /\ objs[i].kind = "Prefix" /\ objs[i].tag = w.spec.slug
    /\ objs[i].xid[1] = w.key

\* The Aggregate is as computeSupernets says for these CIDRs.
Fits(i, cidrs) ==
    /\ Of(objs[i].xid, cidrs) # {}
    /\ SmallestEnclosing(objs[i].cidr, objs[i].xid, Of(objs[i].xid, cidrs))

\* The external ID of a Prefix names its CIDR.
PrefixesNamed ==
    \A i \in Ids : objs[i] # Nil /\ objs[i].kind = "Prefix" => objs[i].xid[2] = objs[i].cidr

\* Aggregates nobody wants are those of families still to be dealt with.
PurgeRight == Purging => \A i \in Ids : AggregateHere(i) => objs[i].xid \in job.todo

\* While Prefixes are worked on there are none.
NoneLeft ==
    w.pc \in Steps \ {"stale", "drop"} /\ Prefixes(w.spec) => \A i \in Ids : ~AggregateHere(i)

\* The Prefixes to be deleted are all that is not desired.
PruneRight ==
    w.pc = "prune" /\ Prefixes(w.spec) =>
        \A i \in Ids : PrefixHere(i) => objs[i].xid[2] \in Desired \/ i \in job.ids

\* Aggregates fit, but for the families still to be dealt with.
EnsureRight ==
    w.pc \in Steps /\ Aggregating =>
        /\ w.pc = "nodes" => job.todo = Families
        /\ \A i \in Ids : AggregateHere(i) => objs[i].xid \in job.todo \/ Fits(i, job.found)

\* NothingWrongReported, object by object.
ReportRight ==
    w.pc \in {"status", "write"} /\ ~w.err =>
        /\ Prefixes(w.spec) =>
              /\ \A i \in Ids : ~AggregateHere(i)
              /\ job.found = Nil \/ ~Paused(w.spec) =>
                    \A i \in Ids : PrefixHere(i) => objs[i].cidr \in Desired
        /\ Aggregating => \A i \in Ids : AggregateHere(i) => Fits(i, job.found)
        /\ ~Prefixes(w.spec) /\ ~Aggregating /\ ~Paused(w.spec) => \A i \in Ids : ~AggregateHere(i)

Right == PurgeRight /\ NoneLeft /\ PruneRight /\ EnsureRight /\ ReportRight

RightInv == DupInv /\ PrefixesNamed /\ Right

LEMMA ReportIsRight == ReportRight => NothingWrongReported
<1> SUFFICES ASSUME ReportRight, w.pc \in {"status", "write"}, ~w.err PROVE NothingWrongReported
  BY DEF NothingWrongReported
<1>1. CASE Prefixes(w.spec)
  <2>1. Managed("Aggregate", w.spec.slug) = {}
    BY <1>1 DEF ReportRight, AggregateHere, Managed
  <2>2. job.found = Nil \/ ~Paused(w.spec) => PrefixesOf(w.spec.slug, w.key) \subseteq Desired
    BY <1>1 DEF ReportRight, PrefixHere, PrefixesOf, Owned, Managed
  <2> QED
    BY <1>1, <2>1, <2>2 DEF NothingWrongReported, Aggregating
<1>2. CASE Aggregating
  <2>1. AggregatesFit(w.spec.slug, job.found)
    BY <1>2 DEF ReportRight, AggregateHere, Managed, AggregatesFit, Fits
  <2> QED
    BY <1>2, <2>1 DEF NothingWrongReported, Aggregating
<1>3. CASE ~Prefixes(w.spec) /\ ~Aggregating
  <2>1. Paused(w.spec) \/ Managed("Aggregate", w.spec.slug) = {}
    BY <1>3 DEF ReportRight, AggregateHere, Managed
  <2> QED
    BY <1>3, <2>1 DEF NothingWrongReported
<1> QED
  BY <1>1, <1>2, <1>3

\* Deletes and writes keep the names of Prefixes.
LEMMA NamedKept ==
    ASSUME RightInv,
           \/ \A i \in Ids : objs'[i] = objs[i] \/ objs'[i] = Nil
           \/ /\ w.pc \in {"update", "create"}
              /\ \E i \in Ids : objs' = [objs EXCEPT ![i] = Written]
    PROVE  PrefixesNamed'
<1>1. TypeInv /\ objs \in [Ids -> PodCIDRObject \cup {Nil}]
  BY DEF RightInv, DupInv, TypeInv
<1>2. CASE \A i \in Ids : objs'[i] = objs[i] \/ objs'[i] = Nil
  BY <1>2 DEF RightInv, PrefixesNamed
<1>3. ASSUME w.pc \in {"update", "create"}, NEW i \in Ids, objs' = [objs EXCEPT ![i] = Written]
      PROVE  PrefixesNamed'
  <2>1. Written.kind = "Prefix" => Written.xid[2] = Written.cidr
    BY <1>1, <1>3, PrefixWritten, AggregateWritten
  <2> QED
    BY <1>1, <1>3, <2>1 DEF RightInv, PrefixesNamed
<1> QED
  BY <1>2, <1>3

\* A step after which there is nothing to be said: no work, no success.
LEMMA NothingToSay ==
    ASSUME w'.pc \in {"idle", "get"} \/ (w'.pc = "status" /\ w'.err)
    PROVE  Right'
BY DEF Right, PurgeRight, Purging, NoneLeft, PruneRight, EnsureRight, ReportRight, Steps

\* A step that leaves the worker where it is, and brings no object.
LEMMA RightKept ==
    ASSUME RightInv, \A i \in Ids : objs'[i] = objs[i] \/ objs'[i] = Nil,
           w'.pc = w.pc \/ (w.pc = "status" /\ w'.pc = "write"),
           w'.key = w.key, w'.spec = w.spec, w'.err = w.err, job' = job
    PROVE  Right'
<1>1. \A i \in Ids :
         /\ AggregateHere(i)' => AggregateHere(i) /\ objs'[i] = objs[i]
         /\ PrefixHere(i)' => PrefixHere(i) /\ objs'[i] = objs[i]
  BY DEF AggregateHere, PrefixHere
<1>2. (Aggregating <=> Aggregating') /\ Desired' = Desired
  BY DEF Aggregating, Desired
<1>3. \A i \in Ids : objs'[i] = objs[i] /\ Fits(i, job.found) => Fits(i, job.found)'
  BY DEF Fits
<1>4. PurgeRight' /\ NoneLeft' /\ PruneRight'
  BY <1>1, <1>2 DEF RightInv, Right, PurgeRight, Purging, NoneLeft, PruneRight, Steps
<1>5. EnsureRight' /\ ReportRight'
  BY <1>1, <1>2, <1>3 DEF RightInv, Right, EnsureRight, ReportRight, Steps
<1> QED
  BY <1>4, <1>5 DEF Right

\* Reconcile chooses the representation: everything is to be dealt with.
LEMMA ChooseRight ==
    ASSUME RightInv, reconcilePrefixForNode \/ reconcileAggregates
    PROVE  Right'
<1>1. TypeInv
  BY DEF RightInv, DupInv
<1>2. /\ TypeInv' /\ w'.key = w.key /\ w'.spec = w.spec /\ UNCHANGED objs
      /\ \/ w'.pc \in {"stale", "nodes"} /\ job'.todo = Families
         \/ w'.pc = "status" /\ Paused(w.spec) /\ ~Prefixes(w.spec)
  BY <1>1, ChooseTypes
<1>3. \A i \in Ids : AggregateHere(i)' => objs'[i].xid \in Families
  BY <1>1, <1>2, KindOfObject DEF AggregateHere
<1>4. CASE w'.pc \in {"stale", "nodes"}
  <2>1. w'.pc = "nodes" => ~Prefixes(w.spec)
    BY <1>2 DEF TypeInv, JobOK, PrefixOK, Steps
  <2>2. job'.todo = Families
    BY <1>2, <1>4
  <2>3. PurgeRight' /\ EnsureRight'
    BY <1>2, <1>3, <1>4, <2>2 DEF PurgeRight, EnsureRight
  <2>4. NoneLeft' /\ PruneRight' /\ ReportRight'
    BY <1>2, <1>4, <2>1 DEF NoneLeft, PruneRight, ReportRight, Steps
  <2> QED
    BY <2>3, <2>4 DEF Right
<1>5. CASE w'.pc = "status"
  <2>1. ~Aggregating' /\ Paused(w.spec) /\ ~Prefixes(w.spec)
    BY <1>2, <1>5 DEF Aggregating, Paused
  <2> QED
    BY <1>2, <1>5, <2>1
       DEF Right, PurgeRight, Purging, NoneLeft, PruneRight, EnsureRight, ReportRight, Steps
<1> QED
  BY <1>2, <1>4, <1>5

\* A family without an Aggregate is dealt with.
LEMMA FindStaleRight ==
    ASSUME Cardinality(Ids) <= PageSize, RightInv, FindStaleAggregate
    PROVE  Right'
<1>1. TypeInv
  BY DEF RightInv, DupInv
<1>2. /\ w'.key = w.key /\ w'.spec = w.spec /\ UNCHANGED objs
      /\ w.pc \in {"stale", "ensure"} /\ (w.pc = "ensure" => Aggregating)
      /\ w.pc = "stale" => ~Aggregating
      /\ job'.found = job.found
  BY <1>1, FindStaleTypes
<1>3. \/ w'.pc = "drop" /\ job'.todo = job.todo
      \/ /\ w'.pc = w.pc /\ job'.todo = job.todo \ {NextFamily}
         /\ \A i \in Ids : AggregateHere(i) => objs[i].xid # NextFamily
  <2>1. PICK page \in Pages(Managed("Aggregate", w.spec.slug)) :
           \/ w'.pc = "drop" /\ job'.todo = job.todo
           \/ /\ w'.pc = w.pc /\ job'.todo = job.todo \ {NextFamily}
              /\ Aggregate(page) = {}
    BY <1>1, FindStaleTypes
  <2>2. page = Managed("Aggregate", w.spec.slug)
    BY WholePage DEF Managed
  <2>3. Aggregate(page) = {} => \A i \in Ids : AggregateHere(i) => objs[i].xid # NextFamily
    BY <2>2 DEF Aggregate, Managed, AggregateHere
  <2> QED
    BY <2>1, <2>3
<1>4. (Aggregating <=> Aggregating') /\ \A i \in Ids : AggregateHere(i) <=> AggregateHere(i)'
  BY <1>2 DEF Aggregating, AggregateHere
<1>5. \A i \in Ids : Fits(i, job.found) => Fits(i, job.found)'
  BY <1>2 DEF Fits
<1>6. PurgeRight'
  BY <1>2, <1>3, <1>4 DEF RightInv, Right, PurgeRight, Purging
<1>7. EnsureRight'
  BY <1>2, <1>3, <1>4, <1>5 DEF RightInv, Right, EnsureRight, Steps
<1>8. NoneLeft' /\ PruneRight' /\ ReportRight'
  BY <1>2, <1>3 DEF NoneLeft, PruneRight, ReportRight, Aggregating
<1> QED
  BY <1>6, <1>7, <1>8 DEF Right

\* So is one whose only Aggregate is deleted.
LEMMA DropRight ==
    ASSUME RightInv, NEW i \in Ids, DropAggregate(i)
    PROVE  Right'
<1>1. TypeInv /\ objs \in [Ids -> PodCIDRObject \cup {Nil}]
  BY DEF RightInv, DupInv, TypeInv
<1>2. /\ w'.key = w.key /\ w'.spec = w.spec /\ w.pc = "drop" /\ i \in job.ids
      /\ w'.pc = (IF Aggregating THEN "ensure" ELSE "stale")
      /\ job'.todo = job.todo \ {job.at} /\ job'.found = job.found
      /\ objs' = [objs EXCEPT ![i] = Nil]
  BY <1>1, WriteTypes DEF DropAggregate, DeletePrefix, WriteObject
<1>3. \A j \in Ids : AggregateHere(j) /\ objs[j].xid = job.at => j = i
  <2>1. Aiming /\ Target = job.at
    BY <1>2 DEF Aiming, Target
  <2> QED
    BY <1>2, <2>1 DEF RightInv, DupInv, OnlyFound, Claimed, AggregateHere
<1>4. \A j \in Ids : AggregateHere(j)' =>
         AggregateHere(j) /\ objs'[j] = objs[j] /\ objs[j].xid # job.at
  BY <1>1, <1>2, <1>3 DEF AggregateHere
<1>5. Aggregating <=> Aggregating'
  BY <1>2 DEF Aggregating
<1>6. \A j \in Ids : objs'[j] = objs[j] /\ Fits(j, job.found) => Fits(j, job.found)'
  BY <1>2 DEF Fits
<1>7. PurgeRight'
  BY <1>2, <1>4, <1>5 DEF RightInv, Right, PurgeRight, Purging
<1>8. EnsureRight'
  BY <1>2, <1>4, <1>5, <1>6 DEF RightInv, Right, EnsureRight, Steps
<1>9. NoneLeft' /\ PruneRight' /\ ReportRight'
  BY <1>2 DEF NoneLeft, PruneRight, ReportRight, Aggregating
<1> QED
  BY <1>7, <1>8, <1>9 DEF Right

\* So is one whose only Aggregate is written; a Prefix leaves the Aggregates alone.
LEMMA WriteRight ==
    ASSUME RightInv, NEW i \in Ids, WriteObject(i)
    PROVE  Right'
<1>1. TypeInv /\ DupInv
  BY DEF RightInv, DupInv
<1>2. /\ w'.key = w.key /\ w'.spec = w.spec /\ w.pc \in {"update", "create"} /\ w'.pc = "ensure"
      /\ job'.todo = job.todo \ {job.at} /\ job'.found = job.found
      /\ w.pc = "update" => i \in job.ids
      /\ objs' = [objs EXCEPT ![i] = Written]
  BY <1>1, WriteTypes DEF DropAggregate, DeletePrefix, WriteObject
<1>3. objs'[i] = Written /\ \A j \in Ids \ {i} : objs'[j] = objs[j] /\ ~Claimed(j)
  BY <1>1, <1>2, WriteIsSafe
<1>4. (Aggregating <=> Aggregating')
      /\ \A j \in Ids \ {i} : AggregateHere(j)' <=> AggregateHere(j)
  BY <1>2, <1>3 DEF Aggregating, AggregateHere
<1>5. CASE Prefixes(w.spec)
  <2>1. ~AggregateHere(i)'
    BY <1>1, <1>2, <1>3, <1>5, PrefixWritten DEF AggregateHere
  <2>2. NoneLeft'
    BY <1>2, <1>4, <1>5, <2>1 DEF RightInv, Right, NoneLeft, Steps
  <2> QED
    BY <1>2, <1>5, <2>2
       DEF Right, PurgeRight, Purging, PruneRight, EnsureRight, ReportRight, Aggregating
<1>6. CASE ~Prefixes(w.spec)
  <2>1. /\ Written.xid = job.at /\ Of(job.at, job.found) # {}
        /\ SmallestEnclosing(Written.cidr, job.at, Of(job.at, job.found))
    BY <1>1, <1>2, <1>6, AggregateWritten DEF TypeInv, JobOK, AggregateOK, Steps
  <2>2. Fits(i, job.found)'
    BY <1>2, <1>3, <2>1 DEF Fits
  <2>3. Target = job.at /\ Aggregating
    BY <1>1, <1>2, <1>6 DEF Target, Aggregating, TypeInv, JobOK, AggregateOK, Steps
  <2>4. \A j \in Ids \ {i} : AggregateHere(j) => objs[j].xid # job.at
    BY <1>3, <2>3 DEF Claimed, AggregateHere
  <2>5. \A j \in Ids \ {i} : Fits(j, job.found) => Fits(j, job.found)'
    BY <1>2, <1>3 DEF Fits
  <2>6. EnsureRight'
    <3>1. w.pc \in Steps
      BY <1>2 DEF Steps
    <3> QED
      BY <1>2, <1>3, <1>4, <2>2, <2>3, <2>4, <2>5, <3>1 DEF RightInv, Right, EnsureRight
  <2> QED
    BY <1>2, <1>6, <2>6 DEF Right, PurgeRight, Purging, PruneRight, NoneLeft, ReportRight
<1> QED
  BY <1>5, <1>6

\* The list of Prefixes holds all that are to be deleted.
LEMMA ListRight ==
    ASSUME Cardinality(Ids) <= PageSize, RightInv, NEW k \in Keys, ListPrefixes(k)
    PROVE  Right'
<1>1. TypeInv
  BY DEF RightInv, DupInv
<1>2. /\ w'.key = w.key /\ w'.spec = w.spec /\ UNCHANGED objs
      /\ w.pc = "list" /\ w'.pc = "prune" /\ k \in job.names
      /\ job'.found = job.found /\ job'.todo = job.todo
  BY <1>1, ListTypes
<1>3. job'.ids = {i \in Owned(Managed("Prefix", w.spec.slug), k) : objs[i].xid[2] \notin Desired}
  <2>1. Pages(Managed("Prefix", w.spec.slug)) = {Managed("Prefix", w.spec.slug)}
    BY WholePage DEF Managed
  <2> QED
    BY <1>1, <2>1, ListTypes
<1>4. (Aggregating <=> Aggregating') /\ Desired' = Desired
      /\ \A i \in Ids : AggregateHere(i) <=> AggregateHere(i)'
  BY <1>2 DEF Aggregating, Desired, AggregateHere
<1>5. \A i \in Ids : Fits(i, job.found) => Fits(i, job.found)'
  BY <1>2 DEF Fits
<1>6. PruneRight'
  <2>1. Prefixes(w.spec) => k = w.key
    BY <1>1, <1>2 DEF TypeInv, JobOK, PrefixOK, Steps
  <2>2. Prefixes(w.spec) => \A i \in Ids : PrefixHere(i)' => objs[i].xid[2] \in Desired \/ i \in job'.ids
    BY <1>2, <1>3, <2>1 DEF PrefixHere, Owned, Managed
  <2> QED
    BY <1>2, <1>4, <2>2 DEF PruneRight
<1>7. NoneLeft' /\ EnsureRight'
  BY <1>2, <1>4, <1>5 DEF RightInv, Right, NoneLeft, EnsureRight, Steps
<1>8. PurgeRight' /\ ReportRight'
  BY <1>2 DEF PurgeRight, Purging, ReportRight
<1> QED
  BY <1>6, <1>7, <1>8 DEF Right

LEMMA DeleteRight ==
    ASSUME RightInv, NEW i \in Ids, DeletePrefix(i)
    PROVE  Right'
<1>1. TypeInv /\ objs \in [Ids -> PodCIDRObject \cup {Nil}]
  BY DEF RightInv, DupInv, TypeInv
<1>2. /\ w'.key = w.key /\ w'.spec = w.spec /\ w.pc = "prune" /\ w'.pc = "prune"
      /\ job'.todo = job.todo /\ job'.found = job.found /\ job'.ids = job.ids \ {i}
      /\ objs' = [objs EXCEPT ![i] = Nil]
  BY <1>1, WriteTypes DEF DropAggregate, DeletePrefix, WriteObject
<1>3. \A j \in Ids :
         /\ AggregateHere(j)' => AggregateHere(j) /\ objs'[j] = objs[j]
         /\ PrefixHere(j)' => PrefixHere(j) /\ objs'[j] = objs[j] /\ j # i
  BY <1>1, <1>2 DEF AggregateHere, PrefixHere
<1>4. (Aggregating <=> Aggregating') /\ Desired' = Desired
  BY <1>2 DEF Aggregating, Desired
<1>5. \A j \in Ids : objs'[j] = objs[j] /\ Fits(j, job.found) => Fits(j, job.found)'
  BY <1>2 DEF Fits
<1>6. NoneLeft' /\ PruneRight' /\ EnsureRight'
  BY <1>2, <1>3, <1>4, <1>5 DEF RightInv, Right, NoneLeft, PruneRight, EnsureRight, Steps
<1>7. PurgeRight' /\ ReportRight'
  BY <1>2 DEF PurgeRight, Purging, ReportRight
<1> QED
  BY <1>6, <1>7 DEF Right

\* A step between two parts of the work that takes nothing from what is to be done.
LEMMA WorkOn ==
    ASSUME RightInv, UNCHANGED objs, w'.spec = w.spec, w'.key = w.key,
           Aggregating => job'.found = job.found /\ job'.todo = job.todo,
           w.pc \in Steps \ {"stale", "drop"}, w'.pc \in Steps \ {"stale", "drop", "prune", "nodes"}
    PROVE  Right'
<1>1. (Aggregating <=> Aggregating') /\ \A i \in Ids : AggregateHere(i) <=> AggregateHere(i)'
  BY DEF Aggregating, AggregateHere
<1>2. \A i \in Ids : Aggregating /\ Fits(i, job.found) => Fits(i, job.found)'
  BY DEF Fits
<1>3. NoneLeft' /\ EnsureRight'
  BY <1>1, <1>2 DEF RightInv, Right, NoneLeft, EnsureRight
<1>4. PurgeRight' /\ PruneRight' /\ ReportRight'
  BY DEF PurgeRight, Purging, PruneRight, ReportRight, Steps
<1> QED
  BY <1>3, <1>4 DEF Right

\* The end of a part of the work: what was to be dealt with is.
LEMMA TurnRight ==
    ASSUME RightInv, StaleDone \/ EnsureManagedTag \/ EnsureDone \/ PruneDone \/ LookupRIR
    PROVE  Right'
<1>1. TypeInv
  BY DEF RightInv, DupInv
<1>2. /\ w'.key = w.key /\ w'.spec = w.spec /\ UNCHANGED <<objs, job>>
      /\ \/ w.pc = "stale" /\ w'.pc \in {"node", "status"} /\ job.todo = {}
         \/ w.pc = "tag" /\ w'.pc = "ensure"
         \/ w.pc = "ensure" /\ w'.pc \in {"list", "status"} /\ job.todo = {}
         \/ w.pc = "prune" /\ w'.pc \in {"list", "tag", "status"} /\ job.ids = {}
         \/ w.pc = "rir" /\ w'.pc \in {"create", "update"}
      /\ w'.pc = "node" => Prefixes(w.spec)
      /\ w.pc \in {"stale", "ensure"} /\ w'.pc = "status" => ~Prefixes(w.spec)
      /\ w.pc = "prune" /\ w'.pc = "status" => Prefixes(w.spec)
  BY <1>1, TurnTypes DEF podVars
<1>3. CASE w.pc # "stale" /\ w'.pc # "status"
  BY <1>2, <1>3, WorkOn DEF Steps
<1>4. /\ (Aggregating <=> Aggregating') /\ Desired' = Desired
      /\ \A i \in Ids : (AggregateHere(i) <=> AggregateHere(i)') /\ (PrefixHere(i) <=> PrefixHere(i)')
  BY <1>2 DEF Aggregating, AggregateHere, PrefixHere, Desired
<1>5. CASE w.pc = "stale"
  <2>1. ~Aggregating /\ \A i \in Ids : ~AggregateHere(i)
    BY <1>1, <1>2, <1>5 DEF RightInv, Right, PurgeRight, Purging, TypeInv, JobOK, PurgeOK
  <2>2. PurgeRight' /\ NoneLeft' /\ PruneRight' /\ EnsureRight'
    BY <1>2, <1>4, <1>5, <2>1 DEF PurgeRight, Purging, NoneLeft, PruneRight, EnsureRight
  <2>3. ReportRight'
    BY <1>2, <1>4, <1>5, <2>1 DEF ReportRight
  <2> QED
    BY <2>2, <2>3 DEF Right
<1>6. CASE w.pc = "ensure" /\ w'.pc = "status"
  <2>1. Aggregating /\ \A i \in Ids : AggregateHere(i) => Fits(i, job.found)
    BY <1>1, <1>2, <1>6
       DEF RightInv, Right, EnsureRight, TypeInv, JobOK, AggregateOK, Aggregating, Steps
  <2>2. \A i \in Ids : Fits(i, job.found) => Fits(i, job.found)'
    BY <1>2 DEF Fits
  <2>3. ReportRight'
    BY <1>2, <1>4, <1>6, <2>1, <2>2 DEF ReportRight
  <2> QED
    BY <1>6, <2>3 DEF Right, PurgeRight, Purging, NoneLeft, PruneRight, EnsureRight, Steps
<1>7. CASE w.pc = "prune" /\ w'.pc = "status"
  <2>1. /\ \A i \in Ids : ~AggregateHere(i)
        /\ \A i \in Ids : PrefixHere(i) => objs[i].cidr \in Desired
    BY <1>2, <1>7
       DEF RightInv, Right, NoneLeft, PruneRight, PrefixesNamed, PrefixHere, Steps
  <2>2. ReportRight'
    BY <1>2, <1>4, <1>7, <2>1 DEF ReportRight, Aggregating
  <2> QED
    BY <1>7, <2>2 DEF Right, PurgeRight, Purging, NoneLeft, PruneRight, EnsureRight, Steps
<1> QED
  BY <1>2, <1>3, <1>5, <1>6, <1>7

\* The Node is read.
LEMMA SeeRight ==
    ASSUME RightInv, SeeUnsynced \/ SeePaused \/ SeeAssigned
    PROVE  Right'
<1>1. /\ w'.key = w.key /\ w'.spec = w.spec /\ UNCHANGED objs
      /\ w.pc = "node" /\ w'.pc \in {"list", "tag", "status"} /\ Prefixes(w.spec)
      /\ w'.pc = "status" => job'.found # Nil /\ Paused(w.spec)
  BY SeeTypes DEF RightInv, DupInv
<1>2. ~Aggregating
  BY <1>1 DEF Aggregating
<1>3. CASE w'.pc \in {"list", "tag"}
  BY <1>1, <1>2, <1>3, WorkOn DEF Steps
<1>4. CASE w'.pc = "status"
  <2>1. \A i \in Ids : ~AggregateHere(i)'
    BY <1>1 DEF RightInv, Right, NoneLeft, AggregateHere, Steps
  <2>2. ReportRight'
    BY <1>1, <1>4, <2>1 DEF ReportRight, Aggregating
  <2> QED
    BY <1>4, <2>2 DEF Right, PurgeRight, Purging, NoneLeft, PruneRight, EnsureRight, Steps
<1> QED
  BY <1>1, <1>3, <1>4

\* The Nodes are read: all families are still to be dealt with.
LEMMA ListNodesRight ==
    ASSUME RightInv, ListNodes
    PROVE  Right'
<1>1. TypeInv
  BY DEF RightInv, DupInv
<1>2. /\ w'.key = w.key /\ w'.spec = w.spec /\ UNCHANGED objs
      /\ w.pc = "nodes" /\ w'.pc = "prune" /\ ~Prefixes(w.spec) /\ job'.todo = job.todo
  BY <1>1, ListNodesTypes
<1>3. Aggregating
  BY <1>1, <1>2 DEF Aggregating, TypeInv, JobOK, AggregateOK, Steps
<1>4. job'.todo = Families
  BY <1>2, <1>3 DEF RightInv, Right, EnsureRight, Steps
<1>5. \A i \in Ids : AggregateHere(i)' => objs'[i].xid \in Families
  BY <1>1, <1>2, KindOfObject DEF AggregateHere
<1> QED
  BY <1>2, <1>4, <1>5 DEF Right, PurgeRight, Purging, NoneLeft, PruneRight, EnsureRight, ReportRight

\* RightInv holds at first and is inductive.
LEMMA InitRight == Init => RightInv
<1> SUFFICES ASSUME Init PROVE RightInv
  OBVIOUS
<1>1. w.pc = "idle" /\ \A i \in Ids : objs[i] = Nil
  BY ShellIdle DEF Init, ShellInit
<1> QED
  BY <1>1, InitDup
     DEF RightInv, PrefixesNamed, Right, PurgeRight, Purging, NoneLeft, PruneRight, EnsureRight,
         ReportRight, Steps

LEMMA NextRight ==
    ASSUME Cardinality(Ids) <= PageSize
    PROVE  RightInv /\ [Next]_vars => RightInv'
<1> SUFFICES ASSUME RightInv, [Next]_vars PROVE PrefixesNamed' /\ Right'
  BY NextDup DEF RightInv
<1>1. TypeInv /\ objs \in [Ids -> PodCIDRObject \cup {Nil}] /\ job.ids \subseteq Ids
  BY DEF RightInv, DupInv, TypeInv, Jobs
<1>2. CASE UNCHANGED vars
  BY <1>2, NamedKept, RightKept DEF vars, shellVars, podVars
<1>3. CASE Environment
  <2>1. CASE w' = IdleWorker /\ job' = NoJob /\ UNCHANGED objs
    BY <2>1, ShellIdle, NamedKept, NothingToSay
  <2>2. CASE /\ w'.pc = w.pc /\ w'.key = w.key /\ w'.spec = w.spec /\ w'.err = w.err /\ job' = job
             /\ \A i \in Ids : objs'[i] = objs[i] \/ objs'[i] = Nil
    BY <2>2, NamedKept, RightKept
  <2> QED
    BY <1>1, <1>3, <2>1, <2>2, EnvironmentTypes
<1>4. CASE CallFails \/ ObjectGone \/ LookupRIRFails
  <2>1. Right'
    BY <1>1, <1>4, FailureTypes, NothingToSay
  <2>2. \/ \A i \in Ids : objs'[i] = objs[i] \/ objs'[i] = Nil
        \/ /\ w.pc \in {"update", "create"}
           /\ \E i \in Ids : objs' = [objs EXCEPT ![i] = Written]
    BY <1>1, <1>4 DEF CallFails, ObjectGone, LookupRIRFails, Outcomes, FreshIds
  <2> QED
    BY <2>1, <2>2, NamedKept
<1>5. ASSUME NEW i \in Ids, DropAggregate(i) \/ DeletePrefix(i) \/ WriteObject(i)
      PROVE  PrefixesNamed' /\ Right'
  <2>1. \/ \A j \in Ids : objs'[j] = objs[j] \/ objs'[j] = Nil
        \/ w.pc \in {"update", "create"} /\ objs' = [objs EXCEPT ![i] = Written]
    BY <1>1, <1>5 DEF DropAggregate, DeletePrefix, WriteObject
  <2> QED
    BY <1>5, <2>1, NamedKept, DropRight, DeleteRight, WriteRight
<1>6. CASE syncStatus \/ KubeFails
  <2>1. UNCHANGED objs
    BY <1>1, <1>6, ReportTypes
  <2> QED
    BY <1>1, <1>6, <2>1, ReportTypes, ShellIdle, NamedKept, NothingToSay, RightKept
<1>7. CASE \E k \in Keys : TakeNode(k)
  BY <1>1, <1>7, TakeTypes, NamedKept, NothingToSay DEF podVars
<1>8. CASE FindAggregate \/ \E c \in Cidrs : FindPrefix(c)
  <2>1. /\ w'.key = w.key /\ w'.spec = w.spec /\ UNCHANGED objs
        /\ w.pc = "ensure" /\ w'.pc \in {"rir", "update", "create"}
        /\ job'.found = job.found /\ job'.todo = job.todo
    BY <1>1, <1>8, FindAggregateTypes, FindPrefixTypes
  <2> QED
    BY <2>1, NamedKept, WorkOn DEF Steps
<1>9. CASE \/ reconcilePrefixForNode \/ reconcileAggregates \/ FindStaleAggregate
           \/ StaleDone \/ EnsureManagedTag \/ EnsureDone \/ PruneDone \/ LookupRIR
           \/ SeeUnsynced \/ SeePaused \/ SeeAssigned \/ ListNodes
           \/ \E k \in Keys : ListPrefixes(k)
  <2>1. UNCHANGED objs
    BY <1>9
       DEF reconcilePrefixForNode, reconcileAggregates, FindStaleAggregate, StaleDone,
           EnsureManagedTag, EnsureDone, PruneDone, LookupRIR, SeeUnsynced, SeePaused, SeeAssigned,
           ListNodes, ListPrefixes, podVars
  <2> QED
    BY <1>9, <2>1, NamedKept, ChooseRight, FindStaleRight, TurnRight, SeeRight, ListNodesRight,
       ListRight
<1> QED
  BY <1>2, <1>3, <1>4, <1>5, <1>6, <1>7, <1>8, <1>9 DEF Next, WorkerStep

(***************************************************************************)
(* Provided a list returns all objects: whenever a reconcile is about to   *)
(* report success, no Aggregate of the other representation is left, no    *)
(* Prefix of the Node for a CIDR it does not have, and every Aggregate is  *)
(* the smallest block that encloses the CIDRs found, for every width of    *)
(* addresses and whatever attempts that failed half-way left behind        *)
(* (reconcilePrefixForNode, syncAggregates, computeSupernets).             *)
(***************************************************************************)
THEOREM NothingWrongIsReported ==
    Cardinality(Ids) <= PageSize => (SafetySpec => []NothingWrongReported)
<1> SUFFICES ASSUME Cardinality(Ids) <= PageSize PROVE SafetySpec => []NothingWrongReported
  OBVIOUS
<1>1. RightInv => NothingWrongReported
  BY ReportIsRight DEF RightInv, Right
<1> QED
  BY <1>1, InitRight, NextRight, PTL DEF SafetySpec
=============================================================================
