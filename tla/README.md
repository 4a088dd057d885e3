# The HEPnOS workflow of icaruswf, specified and verified

icaruswf runs the reconstruction of the ICARUS experiment with *art*, with the
HEPnOS object store in the place of ROOT files between the steps. This directory
holds TLA+ specifications of its programs, the TLC configurations that check
them on small instances and proofs that TLAPS checks for every instance.

Paths below are relative to the repository; `modules/` stands for `src/modules/`.

## 1. The system

### Components

| Component | Code | State it keeps | Operations | Module |
|---|---|---|---|---|
| HepnosDataStore service | `modules/HepnosDataStore*` | the connection, one detached worker thread, two mutexes, two condition variables, the flag `work_to_do`, the function to run | `set_work_function`, `set_work_state`, `wait`, constructor, `finalize`, worker loop | `HepnosDataStore` |
| Load-balanced source | `modules/LoadbalancingInput_source.cc` | the input queue, `nEvents_` | `readNext` and the product reads | `Loadbalancing` |
| Load-balanced output | `modules/LoadbalancingOutput_module.cc` | the output queue, the write batch, `translator_` | `beginJob`, `write`, `endJob` | `Loadbalancing` (queue), `BatchedOutput` (products) |
| Processing driver | `modules/mpi_hepnos_processor.cc` | the step it is at | one art job per fcl file | `Loadbalancing` |
| Loader | `modules/mpi_loader.cc`, `mpi_numerology.py` | file and share of each rank | `calculate_index`, `MPI_Comm_split`, `skip_for_rank`, `load_data` | `LoaderArithmetic`, `MpiLoader` |
| HepnosSPOutput | `modules/HepnosSPOutput_module.cc` | write batch, `translator_` | `write`, destructor | `BatchedOutput` |
| HepnosOutput | `modules/HepnosOutput_module.cc` | `translator_` | `write` | `HepnosOutput` |
| HepnosInput | `modules/HepnosInput_source.cc` | the iterator `ev_`, `nEvents_`, run and subrun principals | `readFile`, `readNext` | `HepnosInput` |
| File-based driver | `modules/mpi_files_processor.cc` | file and job of each rank | reading the list, art jobs, barriers | `MpiFilesProcessor` |
| MPI wrapper | `modules/mpi_wrapper.cc` | the configuration | `Config::valid`, `loadData`, `runSH`, `runSP` | `MpiWrapper` |
| Serialization | `src/serialization/` | the archive of a product | `save` and `load` of each data product | `ProductLayouts`, `Serialization` |
| Timestamp service | `modules/Timestamp*` | a vector of records | art callbacks | not modelled |
| Queue creation, older storage modules, MergeDataProds | `modules/cheesyQueue_maker.cc`, `HepnosStoreData*`, `MergeDataProds*` | none that a later step depends on | | not modelled |

### How they interact

1. `mpi_loader` gives each MPI rank a file and a share of its events and runs art
   with `LoadbalancingOutput`: the products go to HEPnOS, the event identifiers to
   the queue of step 0.
2. `mpi_hepnos_processor` then runs, on every rank, one art job per step. The job
   of step *s* pops identifiers from the queue of step *s*-1, reads their
   products, and pushes to the queue of step *s*. There is no barrier between the
   jobs of different ranks.
3. A product is stored as the archive its `save` functions write, and a later
   job rebuilds it with `load`.
4. The load-balanced source and output and `HepnosSPOutput` make their HEPnOS calls
   through HepnosDataStore, which executes them on its worker thread while the art
   thread blocks. `HepnosOutput` (`:120-143`, `:182`) and, after it has opened the
   dataset, `HepnosInput` (`:375-383`, `:417-424`) call HEPnOS on the art thread itself.
5. `HepnosOutput`, `HepnosSPOutput` and `HepnosInput` are the variants without a
   queue; `mpi_files_processor` is the variant without HEPnOS; `mpi_wrapper`
   runs the load, process and ROOT variants for the benchmarks.

### What is hard in it

- **Two threads, two mutexes, two condition variables without a loop.** A lost or
  a spurious wakeup decides whether a call runs, runs twice or returns early.
- **Batched products, immediate identifiers and associations.** Identifiers and
  associations are visible before the products they refer to.
- **Ranks without a barrier.** A rank may leave a step that others still feed.
- **State that outlives an event.** The map from art product ids to HEPnOS ids is
  never cleared.
- **Jobs that fail.** The drivers look at the status of `popd`, not of art.
- **Divisions with a remainder** over ranks, files and events.
- **Collective calls** (`MPI_Comm_split`, `MPI_Barrier`) next to exceptions.
- **Archives without names.** An archive holds values only: `load` must ask for
  the same types in the same order as `save`, object after object.

`PROJECT.json` lists each of these at its line under `hazards`, with the
properties that cover it.

## 2. Modules

Arrows read "uses".

    MCLoadbalancing -> Loadbalancing -> EventFlow (refined)
    HepnosDataStore -> WorkExecutor (refined)
    MCOutputModules -> OutputModules -> BatchedOutput, HepnosOutput -> ProductTranslator
    MCHepnosInput   -> HepnosInput
    MpiLoader       -> LoaderArithmetic
    MpiFilesProcessor
    MCMpiWrapper    -> MpiWrapper
    Serialization   -> ProductLayouts

The theorems about module *M* are in *M*`Proofs`, for HepnosDataStore,
Loadbalancing, HepnosInput, MpiLoader (with those about LoaderArithmetic),
MpiFilesProcessor, MpiWrapper and Serialization; those about OutputModules, and so
about BatchedOutput and HepnosOutput, are in `OutputProofs`.

Operators whose names end in `Mut` are deliberate faults (a dropped flush, a
missing guard). Nothing uses them; put in the place of the definition they
follow, each makes a property fail, which `PROJECT.json` records under `mutants`.

### HepnosDataStore and WorkExecutor

`caller` and `worker` are the program counters of the two threads: one action
per atomic step, that is per acquisition or release of a mutex, access to the
atomic flag, or wait. `set_work_state` is `SetWorkStateRejected` (the flag is
up, only an error is printed) or `SetWorkStateLock` and `SetWorkStateStore`;
`wait` is `WaitLock`, `WaitTest`, `WaitBlock`, `WaitReturn`; the worker loop is
the actions `Worker...`. Job 1 is the connect of the constructor, job `NJobs`
the reset of `finalize`, whose last steps take no mutex. Reads of `work` and
`active` that race with a write are covered: each is one step, interleaved
freely. `ran` and `spurious` are histories.

`WorkExecutor` is the promise: a synchronous call. The mapping takes a job to be
`submitted` while its caller is blocked and it has not run, `executed` when it
has run and the caller is still blocked.

### Loadbalancing and EventFlow

One program counter per rank goes through the life of an art job: `begin_job`
(the output queue is opened), `read_next`, `read_products`, `write`, `push`,
`flush`, `close`, `destroy`. The loading job is step 0. Between two pushes any
interleaving of the ranks is possible, and `AsyncStore` writes a batched product
at any time. `ArtDies` is the death of a job at any point: its event, its batch
(`wasted`) and, while loading, what it has not read are lost, and the queue it had
open stays open. The driver then goes on to its next job, as it does in the code.

`EventFlow` is the promise: every event passes every step once, in order, or
leaves the flow for good (`Leave`), because it has no products or because the job
that had it died. The level of an event is that of the queue it is on, of the
rank that holds it, or `Gone`.

External, and modelled from its use: the HEPnOS queue is a multiset from which a
pop takes any entry. Whether a pop on an empty queue waits for the producers
that have it open is not in this repository; `popWaits` has either value, and the
properties are checked and proved for both. With a pop that waits, a job that died
with its output queue open holds up its consumers for ever
(`WaitsForTheDead`); what the server does for a vanished producer is not in the
repository either.

### ProductTranslator, BatchedOutput, HepnosOutput, OutputModules

An art product id is a hash of the product's name and the same in every event, so
a name stands for it; a HEPnOS id is a record of event, name and process. `Write`
chooses the products and associations of the next event, and which of them HEPnOS
already has from the process before. `UpdateMapHevent` and `UpdateMapAevent` are the
functions of those names. A module stores the types it names in its code and passes
over any other: `StoredNames` and `StoredAssns` are the names of those types, and
`TypesAssumption` says that both sides of a stored association type are stored
product types, as in all three modules. `OutputModules` is a job with one of the three
modules, the one its fcl file names (`module`), and has the specification: the steps of
`HepnosSPOutput` and `LoadbalancingOutput` are `BatchedNext`, those of `HepnosOutput`
`PlainNext`. The modules differ in

- what a product meets: a batch and a flush at the end (`BatchedOutput`), or the
  store at once unless the map has the name (`HepnosOutput`);
- the art product a listed HEPnOS id is taken for: that of its name under the current
  process (`Listed`), or that of its own process (`OwnListed`, with `Origin` for the
  process in whose name art has the product);
- what becomes of the batch of a job that fails (`Unwind`): art destroys its modules
  without `endJob`, so `HepnosSPOutput` flushes, in its destructor, and
  `LoadbalancingOutput`, which flushes in `endJob`, does not. `BatchIsLost` is that
  case and the death of the process.

The product loops of the batched modules put nothing in the store, so they are one
step; the association loop is one step per collection.

### HepnosInput

The dataset is a sequence of events, the iterator a position in it. An event set
is sorted by its keys, of which `OrderAssumption` keeps what the source needs: the
events of a subrun are in a row. `ReadFile`
is `readFile` with the skip and the search, `ReadNext` the event with its run and
subrun principals. What an iterator does beyond the end is external: it stays or
throws.

### LoaderArithmetic and MpiLoader

The pure functions are transcribed one by one, and those of `mpi_numerology.py`
beside them as a second definition of the same thing. `MpiLoader` runs them on
every rank with the collective split between: no rank goes on before all have
called it. A file that `events.txt` says has *n* events has *n*. The art job of a
rank may fail after any part of its share (`MaxFailures` bounds how many do);
`load_data` does not look at its status, so the rank is done either way.

### MpiFilesProcessor

A rank takes a line, or throws and dies when the stream is not `good()`; a job
writes a whole or a broken file, and only a whole input makes a whole output
(the status of a failed job is lost in `popd`, so the next job starts anyway). A
status other than 0 is that of `pushd` or of the shell, and terminates the rank. A
barrier is left when all ranks have entered it. External: the MPI launcher ends
the other ranks when one has died (`Killed`).

### MpiWrapper

A benchmark script is a sequence of command lines and whether it starts with
`set -euo pipefail`: those under `scripts/csresearch00/` do, those under
`scripts/theta/` do not. `Valid` is `Config::valid`; `Reject` returns 1, and an
accepted command runs one art job per rank that loads a range, processes from the
queue, or processes a range of the file (`LoadEvent`, `ProcessEvent`,
`ProcessFromFile`). A job may fail at any event, with one of the queue in its hands or
without (`ArtFails`). `main` returns what `std::system` gave it, a wait status, of
which the system keeps the low eight bits (`ReturnedStatus`); `NextCommand` ends the
script when it stops on errors and the status of a rank is not 0. `Scripts` may be any
scripts that read the file once and the queue once (`OnceAssumption`), with any limits
and with refused lines anywhere. A limit below zero, which for art is no limit, is not
modelled: the scripts give one that is positive.

### ProductLayouts and Serialization

Per class of data product, `ProductLayouts` has the fields that `operator==`
compares (`...Fields`), the items `save` gives the archive (`...Save`) and those
`load` takes from it (`...Load`), each with its C++ type and in the order of the
code. `Serialization` stores a product, a vector of objects of one class, and
loads it again: `save` of one object after the other, with the objects it refuses
(`SeedRejected`, `AxisRejected`), then `load`. A value read as another type than it
was written is garbage; the types a `load` has asked for are the history `readAs`.
What is not a copy is an operator of its own: the flags of a trajectory point
(`TestFlag`, `SetFlags`), the vector of a fragment (`Resized`), the arguments of a
waveform's constructor (`Exchanged`), the status of a vertex (`Rebuilt`). Of an
eigenvector the value is its length, of a time the number of tenths. `Returned` says what
a stored object is when it comes back. Boost's binary archive and the classes are
external; that the constructor of `raw::OpDetWaveform` takes the time before the channel
is taken from lardataobj, which is not in this repository.

## 3. Runs

| Run | Instance | Shows |
|---|---|---|
| `executor` | 6 jobs, up to 2 spurious wakeups | `ExactlyOnce`, `WorkInsideItsCall` and the refinement of WorkExecutor (`ExecutorSafeSpec`) until a wakeup is spurious; `DamageBounded`: each spurious wakeup spoils at most two jobs; `CallerNeverStuck` in any case |
| `executor_stop` | 3 jobs, none spurious | violated: `WorkerStops` |
| `workflow` | 2 ranks, 3 events of which one is empty, 2 steps, both kinds of pop, no limit or a limit of 1, up to 1 dying job | `OnePlace`, `NoEventStranded`, `PushedIsStoredOrBatched`, `LoadedProductsAreRead`, `Accounted`, the refinement of EventFlow (`FlowSpec`), `WorkflowEnds` |
| `workflow_strict` | 2 ranks, 2 events, 2 steps, nothing dies | violated: `StrictRead` |
| `outputs` | 2 events, 4 products of which one is of a type that is not stored, 3 associations, one drop, one forwarded name, all three modules | `PointersHaveProducts`, `EveryProductStored` and `FailsOnlyOnDroppedEnds` of the batched modules; `MapIsComplete` and `FirstCopyIsStored` of HepnosOutput |
| `outputs_stale` | the same, nothing dropped | violated: `PointersStayInTheEvent` |
| `dataset_input` | 6 events, skips and limits 0 to 7 or unset, 8 first events | `EventsInTheirSubRun`, `SkipsThenProcesses`, `StartsAtAMatch` |
| `loader` | 4 ranks, 0 to 5 files of 0 to 3 events, up to 2 failing jobs | `LoadedOnce`, `Balanced`, `AgreesWithNumerology`, `LoadingEnds` |
| `files` | 3 ranks, 3 jobs, 0 to 4 lines with or without the last newline | `InStep`, `FailureIsKept`, `NoPartialWorkflow`, `RanksEnd` |
| `wrapper` | 3 ranks, 0 to 4 events, 5 scripts with and without `set -e`, any number of failing jobs | `EventsAreAccountedFor`, `BenchmarkIsComplete`, `WhatEndsAScript` |
| `serialization` | products of 1 or 2 objects of each of 19 classes, vectors of up to 2 elements, 2 flags | `ComesBack`, `ReadInStep` |
| `serialization_equal` | one object of each class | violated: `EqualAgain` |

Each passing run but `serialization` also checks its module's one type invariant.
Where the code does not do what it says and the run is a passing one, its property
states exactly what the code does instead; section 4 names both.

### Bounds, and why they are enough

- `executor`: the first job (busy wait) and the last (finalize) differ from the
  others; 6 jobs leave four ordinary ones, more than twice two spurious wakeups,
  so the bound of `DamageBounded` is below the number of jobs.
- Workflow: two ranks give every race of a producer and a consumer; two steps
  give a queue between two processing jobs and a queue nobody reads. A second
  event with products lets one rank feed a queue the other has already left; a
  limit of 1 leaves events behind. One death is enough for each way to lose
  something (hand, slice, batch, open queue), and the proofs cover any number.
- Outputs: the second event is the first that meets a map that is not empty. The
  two associations that are stored share an end, so that one product may be dropped,
  forwarded or stale while the other is not; the third has an end that is not stored.
- `dataset_input`: the second run starts with the subrun number the first ends
  with; skips and limits reach beyond the end; the first events include one that
  is in no run and one that shares single numbers with others.
- `loader`: four ranks over up to five files give no remainder, a remainder,
  one rank per file, and more files than ranks; shares of up to three events can
  fail before, inside and after their first event, on one rank of a file or on two.
- `files`: one line too few, exactly enough and one too many, for three ranks;
  three jobs give a job with a job before and a job after it.
- `wrapper`: three ranks and up to four events leave ranks with all, a part and
  nothing of their range; the limits of the processing jobs are those of the loading
  jobs, below them and above them; one script has a refused line between its loading
  and its processing.
- `serialization`: `load` keeps no state between objects, so a second object shows
  where the first one ends; vectors of zero, one and two elements, a fragment with
  and without capacity to spare, and every state of two flags.

### Fairness

- HepnosDataStore: weak fairness of each thread. Both are threads of the operating
  system, and each mutex is held only across steps that do not wait for the
  holder's peer; no spurious wakeup is assumed to happen.
- Loadbalancing: weak fairness of each rank's own steps, as each is a process.
  `AsyncStore` is not fair: nothing relies on the background writes before the flush.
- MpiLoader, MpiFilesProcessor: weak fairness of each rank, of the collective
  calls and of the launcher.
- The outputs, HepnosInput, MpiWrapper and Serialization are checked for safety and for the
  absence of deadlock only.

## 4. What the code does otherwise than it says

Four runs end in a counterexample (`findings` in `PROJECT.json`):

- **The worker may never stop** (`executor_stop`). `finalize` clears `active`,
  raises the flag and notifies without the mutex
  (`HepnosDataStore_service.cc:115-117`). Between the worker's test of the flag and
  its wait the notification is lost.
- **A missing product is not reported** (`workflow_strict`). `read_product` returns
  before its `strict` check (`LoadbalancingInput_source.cc:92-97`), and identifiers
  are pushed before the batch is flushed, so a consumer may go on without the
  products of its event.
- **Associations use ids of earlier events** (`outputs_stale`).
  `translator_` is never cleared and `insert` keeps what is there.
- **A stored object does not come back equal** (`serialization_equal`), as the tests
  under `test/` have it: `CHECK(v1 == v2)`. TLC shows the waveform, whose channel
  and time change places and whose time loses its fraction
  (`opdetwaveform_serialization.h:57`; with `c` = 1 and `t` = 1.1 the test cannot see
  it). Three more classes do not come back, and `Returned` names what they lose: a
  vertex its status (`vertex_serialization.h:105`), a fragment its size, which becomes
  its capacity (`artdaq_fragment_serialization.h:69`), and a flag of a trajectory point
  that is defined and false becomes one that is not defined
  (`track_serialization.h:158`). A PCAxis whose eigenvectors have not three components
  is stored, as the check tests the number of vectors twice
  (`pcaxis_serialization.h:78`), and its `operator==` throws when it comes back.
  `ComesBack` says that nothing else is lost.

The rest have no counterexample of their own. A passing run states exactly what the
code does in the place of what is said of it:

- **`HepnosOutput` does not store all products** (`FirstCopyIsStored`). It passes over
  a product whose name the map has (`HepnosOutput_module.cc:176`): from the second event
  on nothing of that name is stored, where the comment over the loop (`:170-171`) says
  it is to store all of them.
- **The first event is not the one asked for** (`StartsAtAMatch`). The search of
  `HepnosInput` stops at the first event that shares the run, the subrun *or* the event
  number (`HepnosInput_source.cc:379-382`), where `wiki/csresearch00.md:97` says it
  finds that event or nothing. With `-n`, the event asked for may not be in it at all.
- **The rank of the last line is turned away** (`NoPartialWorkflow`) when the list of
  `mpi_files_processor` has no final newline, as one rank too many: such a line counts
  as none.
- **A failed job does not end the script** (`WhatEndsAScript`). `mpi_wrapper` returns
  the wait status of `std::system` (`mpi_wrapper.cc:135`, `:163`), 256 times the exit
  code, whose low eight bits are 0. Under the `set -e` of the scripts of `csresearch00`
  only a refused line and a death by signal end the script.
- **The commands of the wiki are refused**: those of `wiki/csresearch00.md:116-117`
  give neither `-H` nor `-R`, and `Valid` is false of them, as `Config::valid` is.
- **A spurious wakeup spoils calls** (`DamageBounded`). `HepnosDataStore::wait` and the
  worker wait without a loop: `wait` may return before the function has run, and one
  function may be lost or run late.
- **A failed job is not seen** (`FailureIsKept`, `LoadedOnce`, `Accounted`). The commands
  of the drivers end in `popd`, so the next job starts anyway.
- **A failed job's pointers dangle** (`PointersHaveProducts`). A `LoadbalancingOutput`
  job that fails never reaches the flush of its `endJob`, and associations it has stored
  keep pointing to products that are not (`LoadbalancingOutput_module.cc:560-571`).

## 5. Proofs

TLAPS checks these for every value of the constants, from the `ASSUME`s of the
modules (sizes are natural numbers, at least one rank or job where the code needs
one, `Ends` maps associations to data products, a script reads the file and the queue
once).

**HepnosDataStoreProofs.** `TypeCorrect` holds whatever the wakeups.
`JobsRunExactlyOnce`, `FunctionsRunInsideTheirCall` and `ImplementsExecutor` hold
until a wakeup is spurious, for any number of jobs. `ExactlyOnce` is not
inductive: that a job has run when its call returns depends on who holds which
mutex and on where the other thread is. The invariant `Inv` is the conjunction of

- `LockInv`: each mutex is owned exactly by the thread whose program counter says so;
- `BetweenInv`: between two calls the flag is down and the worker is going to sleep;
- `CallInv`: inside a call the flag is up until the job has run, the art thread
  sleeps only if its notification is still to come, and is woken only after the job;
- `StopInv`: after the last flag of `finalize` no job runs again;
- `PhaseInv`: which steps belong to which job.

`SteadyInv` guards it by "no wakeup was spurious so far", and `SpuriousGrows`
says the guard never comes back once it is lost.

`DamageIsBounded` says what is left after that: `DamageBounded`, whatever the
wakeups, for any number of them and of jobs. The count of spoiled jobs alone is not
inductive, for a spurious wakeup does its damage later, and a run that spoils one
job may mend another. The invariant therefore pays in advance. `HandOver` is what
the two threads keep to whatever the wakeups: who holds which mutex, that no
function runs before it is set, and that a function that is set and not announced
any more has run or its flag is up. `MayRun(n)` says that the function that is set
may still run n times before the next one is set, without another spurious wakeup;
`Owes`, `Late` and `Stake` are what those runs add to the spoiled jobs: by the job
in hand, by a function the worker is inside of after another was set, and by the
job that comes next. `Covered`: for every such n, the damage done and the damage to
come are at most twice the spurious wakeups. A step that only moves a thread keeps
it (`MoveIsPaid`), as does a call that returns (`ReturnIsPaid`), a function that
runs moves one from what is to come to what is done, and only a spurious wakeup
brings something new, at most two. One of the n adds nothing negative
(`PaidCovers`), which gives the bound.

**LoadbalancingProofs.** For any ranks, events, slices, limits, both kinds of pop
and any number of deaths: `WorkflowTypes`, `EventsAreInOnePlace`, `NoneIsStranded`,
`PushedProductsAreKept`, `LoadedProductsAreFound`, `EventsAreAccounted`, and the
safety half of the refinement, `WorkflowIsAFlow`. The invariant `Inv` is the
conjunction of

- `Control`: what a rank has in hand, its batch and its place in the producers'
  set follow from where it is (`InOrder`), and nobody processes before all have
  loaded (`LoadingComesFirst`);
- `Place`: each event is held by exactly one holder, stated without cardinalities
  (`HeldOnce`), from which `OnePlace` and the level of EventFlow are read off;
- `Products`: every identifier pushed or held has its products in the store, in
  the batch of the job that still has to flush them, or wasted (`ProductsAreKept`);
- `LeftQueuesAreEmpty`: `NoEventStranded` is not inductive, as a death can leave
  events on a queue all ranks have left; the invariant says that then a job that
  read the queue died.

**OutputProofs.** For the batched modules `PointersAreKept` (no stored pointer
dangles unless the batch is lost, by a death or a failed `LoadbalancingOutput` job),
`OnlyDroppedEndsFail` and `FlushStoresEverything`, for any events, products, stored
types, drop commands and pace of the engine. The invariant says that an id once stored
or batched stays so until the batch is lost (`Kept`, `WrittenIsKept`), that the map
holds only such ids (`MapIsKept`), that in the association loop every product of
the event that is not dropped is in the map (`ContentMapped`), that associations
point inside their event (`LinksInside`), and that events to come are empty
(`EventsAhead`). For HepnosOutput, `AtNeverThrows` and `FirstCopiesAreStored`: what the
map knows is stored, under this event or an earlier one (`MapIsStored`), the two loops
are behind each other (`LoopsCover`: when associations are stored, every product of the
event is in the map), every product of an event that is written has a copy
(`WrittenIsStored`), what this process stored is of the first event that came with it
(`FirstOnly`), and `PlainLinksInside` and `NothingAhead` as above. `JobInv` is the
invariant of the module the job has; `OutputTypes` is for all three.

**HepnosInputProofs.** `SubRunsOpenOnce`, `SkipAndLimitAreExact` and
`SearchStopsAtAMatch`, for any dataset, skip, limit and first event. The invariant
says that what was delivered is a stretch of the dataset that ends before the
iterator (`Stretch`, `Bounds`), that `r_` and `sr_` are the numbers of the last event
(`Numbers`), and that the principals are the subruns of that stretch without
repetition (`Opened`); the last needs `OrderAssumption`. Where the search stops is
the least position that matches (lemma `Least`, from the well-foundedness of the
numbers).

**MpiLoaderProofs.** First the arithmetic. The shares of `skip_for_rank` follow one
another (`SharesAreConsecutive`), are disjoint (`SharesAreDisjoint`), cover the file
(`SharesCover`) and are those of `mpi_numerology.py` (`NumerologyAgrees`). They rest
on the division lemma and on a linear form of the share. `FileOfRank` and
`SlotsAreFiles` say that the file `calculate_index` finds for a rank is the one
whose block of ranks it is in, and that of the script's list of slots. The functions
of both are recursive; in the place of an induction theorem, which takes an
operator as its parameter, `SetInduction` takes the set of the numbers for which the
fact holds. Then the loader: `LoaderTypes`, `EventsAreLoadedOnce`, `WorkIsBalanced`,
`NumerologyIsTheLoader`, for any numbers of ranks, files, events and failures. The
ranks of a file are the members of one communicator after the split, and their
places in it are 0 to its size less one, each once (`Places`); with the theorems
about shares, each event is in the share of exactly one rank of its file.

**MpiFilesProcessorProofs.** `RanksAreInStep`, `FailuresAreKept` and
`ShortListStopsAll`, for any ranks and jobs. The invariant says that outputs follow
the stage a rank is at (`OutputsFollowStage`), that all ranks have run the jobs in
front of it (`JobsInFrontAreRun`) and that a rank past its start has a line
(`FileHasLine`).

**MpiWrapperProofs.** `WrapperTypes`, `EventsAreAccounted`,
`BenchmarksAreComplete` and `ScriptsEnd`, for any ranks, limits, files, scripts that read the file and
the queue once, with and without `set -e`, and failures. The properties are about
commands that have been run; the invariant (`Control`, `Events`, `Counting`) says what
holds while they run: which events the jobs of the current command have taken, that
the file is not read twice, and how many places in the limits of the ranks are used
up. The ranges of the ranks are disjoint (`Ranges`, `NextIsNotTaken`) and cover the
events (`WantedIsTaken`, `LoadingEnds`, `ReadingEnds`). The hard case is the end of
processing from the queue: a rank stops at its limit, and which events another rank left
depends on who was faster. `Counting` says that as many events have been processed as
places are used up, each step adding one to both (`CountStep`); at the end either all
places are, or the queue is empty (`QueueEnds`). `ScriptsEnd` needs `EndInv` beside it:
what status each rank has returned with (`Statuses`), and that the jobs that failed are
of commands that are over (`FailuresAreOver`).

**SerializationProofs.** `ProductsComeBack` and `LoadFollowsSave`, for products of any
number of objects of any class, vectors of any size (of a PCAxis two to four, as all but
three are refused) and tracks of any number of flags. One lemma per class
(`EdgeSuits` to `WireSuits`) says that the layouts of `save` and `load` are the same
and have exactly the fields that are kept; `Layouts` says so of any object. Where a
vector is sized by a number read before, `PFParticlePlace`, `FragmentPlace`,
`PCAxisPlace` and `WirePlace` say that the number is where `load` looks for it, so
that `load` asks for the layout of `save` (`LayoutRead`) and finds the values of its
fields (`FieldsRead`). `RoundTrip` says that what the constructors make of them is the
object of `Returned`. The
invariant joins the objects: there are offsets at which they end in the archive
(`Boundaries`, a function that exists, in the place of a recursive sum of lengths),
load has stopped at one of them (`off[Len(loaded)]`), and each object loaded is the
one `Returned` names.

### Only model-checked

Every invariant of the passing runs is a theorem. What is left to TLC is liveness
(`CallerNeverStuck`, `WorkflowEnds`, `LoadingEnds`, `RanksEnd`, the fairness half of
`FlowSpec`), the absence of deadlock, and with them everything about `ENABLED`,
which the proof system does not handle. The disagreements of section 4 are
counterexamples found by TLC, or theorems about what the code does instead.

## 6. Assumptions, and what is not modelled

- art runs one schedule: the configurations under `fcl/` set one or leave the number
  at art's default of one, so HepnosDataStore has one caller. With a second, the two
  would race on the flag and on the function, which is undefined behaviour.
- A product that art is given as a null pointer counts as not present.
- The shell of the drivers' commands has `pushd` and `popd`; MpiFilesProcessor lets it
  fail as well.
- The shell of `mpi_wrapper` is bash, as its `&>` asks for (in another shell art would
  run in the background), and gives way to art. One that stays reports a death by
  signal 11 as the exit code 139, which is then a failure with an exit code.
- All ranks of `mpi_loader` can read the list of files: they take the same way in front
  of the collective split. A failed job of the loader loses the end of its share; that
  the batch it had not flushed may be another part of it is BatchedOutput's to say.
- The times of waveforms are not negative: the conversion of one that is to an unsigned
  number is undefined.
- Use of the service's members by the detached worker after the object has been
  destroyed is outside the C++ memory model and is not modelled; neither is a
  HEPnOS call that throws on the worker, which ends the process and is covered by
  `ArtDies`.
- A job that dies with its output queue open leaves consumers whose pop waits for
  producers waiting. `WorkflowEnds` allows for exactly these (`WaitsForTheDead`).
- The Timestamp service records times in art's callbacks. Whether its records are
  complete depends on the order in which art calls the service, the source and
  the modules, and art is not in the repository.
- `cheesyQueue_maker` creates the queues in one loop (its usage line makes the
  queue names optional, its check asks for at least two); `HepnosStoreData` and
  `HepnosStoreDataNew` store a fixed list of products one after the other and are
  superseded by the output modules; `MergeDataProds` changes nothing. The physics
  configuration under `fcl/`, the host names and directories of the wrapper, and
  the tests have no state of the workflow.

## 7. Plan

Done, in this order: HepnosDataStore with its abstraction, as every other module
relies on it; Loadbalancing with EventFlow; the outputs; the input; the drivers;
failing jobs in the workflow, the loader and the file-based driver;
serialization; the proofs of section 5.

Left, should the code around it come into the repository: the Timestamp service
against art's order of callbacks, the queue against the server's (what a pop waits
for, and what becomes of a vanished producer), and a second art schedule, if
HepnosDataStore is ever to serve one.
