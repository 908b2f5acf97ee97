# A TLA+ verification of Piper Neo

Piper Neo is a text-to-speech program in C++: a command line tool, an HTTP server
with a fair chunk scheduler and a pool of loaded voices, a package format for
models, an Electron client and a model editor. This directory holds TLA+ modules
that model the parts of it where several threads or processes share state and the
text splitter they all use, the TLC configurations that check them on small
instances, and proofs of their safety for every instance. Paths are relative to the repository.

## 1. The system

| Part | State | Operations | Interacts with | Hard behaviour | What makes it correct |
|---|---|---|---|---|---|
| `FairTtsScheduler` (`src/cpp/server.cpp` 1620-2112) | `activeJobs`, `waitingJobs`, `activeRoundRobin`, `pendingJobs`, one `JobState` per request, chunk files under `outputs/tmp/<id>`, `metrics.tempStorageBytes` | `synthesize` on each connection thread; `nextWork`, `processChunk` on each worker | calls `ModelCache::checkout`, `textToAudio`; called by `handleClient` and `synthesizeMarkupScript` | two kinds of mutex, condition variables, disconnects, queue timeout, errors in the middle of a job | limits are kept, no job is stranded or touched after its end, every chunk exactly once, bytes given back, fairness |
| `ModelCache`, `VoiceLease` (1361-1550) | slots and loads in progress per model, `synthesisConfig` of each voice | `checkout`, release of a lease | called by workers; calls `loadVoice`, `extractPackage` | loads with the mutex open, failing loads, `notify_one`, settings mutated in a shared object | exclusive leases, bounded replicas, settings never leak, no lost wakeup |
| Connection handling (`handleClient`, 2896-3273) | the socket, the output path | parse, authenticate, route, one TTS request | registry, scheduler | disconnect during synthesis, errors after partial output | one response, nothing left behind after an error |
| Markup scripts (2145-2706) | parts and temporary WAVs of one script | parse, synthesize each segment, resample, join | one `synthesize` call per segment | failure in a middle segment, sizes and rates | timeline adds up, temporaries removed |
| Model registry, lookup (1174-1290, 3277-3306) | cached list and its refresh time | `list`, `find`, `forceRefresh`, `findModelByName` | file system | stale list, refresh and read in two critical sections | a resolved model is one that was on disk |
| Output retention, downloads (2798-2894) | WAVs in `outputs/` | periodic removal, `sendFile` | file system | removal races download | managed files only, only old ones |
| Text chunking, stream reading (`src/cpp/piper.cpp`) | offsets, the carry between reads | `splitTextIntoChunks`, `textToWavFileFromStream` | scheduler, command line | boundaries, UTF-8, trimmed blanks | every byte spoken once, chunks bounded |
| Command line (`src/cpp/main.cpp`) | flags, shared raw-audio buffer | JSON lines, raw output thread, resource configuration | `piper.cpp`, server | hand-over between two threads, limits at every machine size | no audio lost, limits consistent |
| Neo packages (`src/cpp/neo_model.cpp`) | extracted files in `outputs/neo-cache` | parse, extract, write | `ModelCache` | concurrent and interrupted extraction | a loaded file is complete |
| Text normaliser, API sanitiser | none | rewriting of a text | before chunking | order of the passes | accepted text is printable and bounded |
| Electron client | messages, audio blobs, history | asynchronous handlers, retries | HTTP API | state captured before an `await` | nothing received is overwritten |
| Neo model manager | records, image, files | load, edit, rename, export | file system | rename in three steps | a model never loses its configuration |

`JobLimiter`/`JobLease` (1292-1359) are used by nothing. Training code, the Python
runtime, benchmarks, build scripts and vendored code are left aside: they hold no
protocol. `PROJECT.json` lists every part with its status, and under `hazards`
every place where something can go wrong that a test would hardly reach, with the
properties that cover it.

## 2. The modules

| Module | Content |
|---|---|
| `TtsService` | what `synthesize()` promises: the abstract specification of the scheduler |
| `FairTtsScheduler` | the scheduler, its properties and its liveness |
| `FairTtsSchedulerService` | the refinement mapping from the scheduler to `TtsService` |
| `MCFairTtsScheduler` | symmetry and the view for TLC |
| `FairTtsSchedulerTypes`, `FairTtsSchedulerProofs`, `FairTtsSchedulerChunks`, `FairTtsSchedulerRefinement` | the proofs about the scheduler: types, accounting, chunks, refinement; each builds on the one before |
| `VoicePool` | what `ModelCache` promises: the abstract specification of the voice pool |
| `ModelCache` | the voice pool and the leased voice's settings |
| `ModelCachePool`, `MCModelCache` | the refinement mapping to `VoicePool`; symmetry and the view for TLC |
| `ModelCacheProofs` | the proofs about both |
| `TextChunks` | where `splitTextIntoChunks()` cuts a text, as operators |
| `StreamReader` | reading, splitting, speaking and carrying a stream of lines |
| `StreamReaderProofs` | the proofs about both |
| `RawOutput` | the hand-over of raw samples to the thread that writes them |
| `CommandLine`, `MCCommandLine` | the program that composes the two, and the texts TLC tries |
| `CommandLineProofs` | the proofs about the raw output and about the program |
| `NeoCache`, `MCNeoCache` | the extraction of a package into a directory that several loaders share |
| `NeoCacheProofs` | the proofs about it |

Each module EXTENDS the ones it needs: `CommandLine` the stream reader and the raw
output, `FairTtsSchedulerService` the scheduler (and it instantiates `TtsService`),
`ModelCachePool` the cache (and it instantiates `VoicePool`).
`FairTtsScheduler` and `ModelCache` are the two sides of one call, `checkout`: the
scheduler sees it succeed or throw at any time, or never come back, and the cache sees
workers that ask for voices in any order, each more than the other can do.

### FairTtsScheduler

One element of `Jobs` is one call of `synthesize()` and one `JobState`; one element
of `Workers` is one worker thread. `pc` is the place of the requesting thread,
`worker[w].stage` that of the worker. An action is one critical section, or one
atomic operation on a counter, together with the thread-local code around it.

| Code | Actions |
|---|---|
| `synthesize` up to `create_directories` | `Submit` |
| admission under `queueMutex`, `notify_all` after it | `Admit`, `AnnounceAdmission` |
| one turn of the wait loop, under the job's mutex | `WaitTurn` (disconnect, then timeout) |
| giving the place back, `activatePendingJobsLocked` | `Release`, one `ActivateNext` per loop turn, `EndRelease`: `queueMutex` is held from the first to the last, which `QueueMutexFree` says |
| `notify_all`, reading the outcome | `Settle` |
| `assembleWav`, `cleanupJob` | `AssembleWav`, `CleanupTake`, `CleanupFinish` |
| `nextWork` | `Sleep`, `TakeChunk`, `DropAll` |
| `processChunk` | `Begin`, `Checkout`, `OpenChunkFile`, `Infer`, `AudioCallback`, `CountJobBytes`, `FinishChunk`, `CatchChunk` |
| the client, the clock | `Disconnect`, `Expire` |

Abstractions. `nextChunk` and `startedChunks` are always equal and are one field.
A chunk is its number; a text is a number of chunks; an audio buffer is one byte
and `MaxTempBytes` counts buffers. Opening the file and `textToAudio` may succeed or
throw at any call; so may `modelCache.checkout`, and a worker in it may also stay there
for ever (5.3): nothing obliges it to take `Checkout`. `Disconnect` and `Expire` stop
happening once nobody reads what they set (when the request is out of its wait
loop; when the first chunk was dispatched), so as not to multiply states. The
100 ms poll of the wait loop needs no action: a turn that sees nothing changes
nothing, and the job's own condition variable only shortens the poll. The
counters `acceptedJobs`, `completedJobs` and the like are only reported and are left
out. `stopping` is set by the destructor only, and `runServer` never returns.
Spurious wakeups are left out: both waits have predicates, and a thread woken for
nothing goes back to sleep.

### ModelCache

One element of `Threads` is a worker processing chunks one after the other, at most
`MaxChunks` of them. Actions: `Checkout` (`resolve`, `runtimeFor`), `Enter`
(the first pass under the runtime's mutex), `Wake` (a turn of the wait), `LoadDone`
and `LoadFails` (the load with the mutex open), `Override`, `Open`, `Split`,
`EndInference` (what `processChunk` and `textToAudio` do to the leased voice's
`synthesisConfig`), `Reset` (`VoiceLease::reset`), `Disconnect`. The value of a
setting is where it comes from: the voice's file, the command line, a request, or
the zero with which `textToAudio` switches the silence off. `notify_one` picks any
sleeping thread; `notify_all` wakes all.

### VoicePool

A worker is outside, asking, holding a voice, speaking (sentence by sentence or not)
or leaving. A voice goes to one worker at a time, a model gets a new one only below the
limit, and a chunk sounds as its own request and the voice's original settings say.
Nothing is left of the mutexes, the loads in progress, the sleeping and waking, the
`Disconnect` and the settings that are written into the shared object and put back.
The mapping (`ModelCachePool`) takes for the sound of a chunk what `synthesisConfig` of
the shared voice says while the inference runs, so that a setting that leaks from
another chunk is a step `VoicePool` does not have.

### TtsService

A request is outside, waiting, being served, leaving or answered. Nothing is left of
mutexes, counters, queues and workers: there are `Places`, given out in order of
arrival (`ahead` is a relation, not a queue); a chunk is spoken once and only while
its request has a place; `ok` is answered only when nothing is unspoken. The mapping
says when each of these happens in the code. A request stops waiting at the step
that marks it stopped, although its entry is still in `pendingJobs`; it has its
place from the step that sets `activated` until `Release`. A refusal for lack of
room is possible only when all places are taken, and that is as much as the code
keeps: the length of the waiting line is not in `TtsService`, because the code does
not bound it (5.1).

### TextChunks, StreamReader

Positions count bytes. `Searches` lists the eight searches of
`chooseSmartSplitPoint()` in their order, `FirstFound` takes the first that finds
anything, `Boundary` is `clampToUtf8Boundary()`. The bytes are letters, marks, the
four blanks of `isAsciiWhitespace()` the searches treat differently, and those bytes of
UTF-8 that the searches look for. The pending string of `textToWavFileFromStream()` is
the part of the input between two positions, so that what was spoken can be compared
with the input. Actions: `ReadLine`, `EndOfStream`, `WholeText` and `CutChunk` (one
turn of the loop of `splitTextIntoChunks()` that gets further), `Spin` (one that does
not), `SplitDone`, `SpeakChunk`, `Carry`, `EndStream`. Left out: the byte order mark of
the first line, the WAV header, and cancellation, which the command line never asks for.

A text is any sequence of bytes made of lines that end in a newline (`TextAssumption`):
nobody looks whether it is UTF-8. A position that is moved back over continuation bytes
may come to the beginning of the chunk, where it adds an empty one, or in front of it,
where the length is below 0 and the chunk is all the rest. That cannot happen in a `WellFormed` text, one without a run of
continuation bytes as long as a chunk. UTF-8 is well-formed: no character has more than
three continuation bytes, and the program refuses chunks of fewer than 512 bytes. TLC uses
chunks of 3, for which its own UTF-8 texts are well-formed as well, since none of their
characters is longer than three bytes; so a text of seven bytes is longer than two chunks.
On the other texts `Spin` may be taken and the model ends there: the chunks that
the program then adds, until there is no memory for more, are left out (end of 5).

### RawOutput, CommandLine

A buffer of samples is its number. An action is one critical section of `mutAudio`,
or what a thread does between two: `Callback`, `Finish`, `Throw`, `Join` of the main
thread and `FallAsleep`, `Take`, `Write` of the writer's. `Throw` is an exception of
`textToAudio()` while the thread is joinable, which ends the program. `CommandLine`
chooses one of the two outputs when it starts.

### NeoCache

A loader is a worker of the server that loads a replica with no lock held, or a run of
the command line program: `step[l]` is its place in `extractPackage()`. A file is a
function from blocks to the version of the package each was written from; opening it
for writing empties it, and blocks of two loaders may be written in any order.
`Crash` kills the loader's process (for a worker of a server that stops with others,
several `Crash` steps), `LoseBlock` is a write that fails: `writeFileBytes()` looks
only at the opening. `Export` replaces the package at its path. That the export of
a package is one step, although it takes time in `writePackageFromOnnx()`, and
that a read which finds a package of another layout fails, are simplifications: a
loader that reads a half-written package fails as well (`Fail`). `torn` is a history
variable that nothing reads but the properties.

Operators whose name starts with `Mut` are faulty variants used to show that a
property can fail; no specification refers to them.

## 3. The runs

| Run | Instance | Shows |
|---|---|---|
| `SchedulerWorkers` | 2 jobs of 1 or 2 chunks, 2 workers, 2 places, limit of 1 buffer, up to 1 buffer per chunk | `RequestOutlivesChunks`, `CompleteWhenAssembling`, `ChunksDisjoint`, `TempBytesConserved`, `NoWorkerOversleeps`, `NoJobStranded`, `FairTurn`, `DoneIsFinal`, and `ImplementsService`: every step is one of `TtsService` or none |
| `SchedulerQueue` | 3 jobs of 1 chunk, 2 workers, 1 place, queue of 3 | `TypeOK`, `ActiveJobsExact`, `CapacityUsed`, `NoJobStranded`, and `ImplementsService` where two requests stand in line |
| `SchedulerLiveness` | 2 jobs of 1 chunk, 1 place, queue of 2, 2 workers, fairness | `EveryRequestReturns` |
| `ModelCacheLeases` | 3 threads, 2 models, 2 replicas, 2 chunks per thread, one setting | `TypeOK`, `ReplicasBounded`, `LeaseExclusive`, `FreeSlotPristine`, `OwnSettings`, `NoWakeupLost`, and `ImplementsPool`: every step is one of `VoicePool` or none |
| `SchedulerQueueBound` | 5 jobs, 1 place, queue of 2 | violated: see 5.1 |
| `SchedulerTempReturned` | 1 job | violated: see 5.2 |
| `ModelCacheAbandoned` | 2 threads, 1 replica | violated: see 5.3 |
| `ModelCacheReplicas` | 2 threads, 2 replicas | violated: see 5.4 |
| `CommandLine` | all texts of up to 5 or 6 characters and a newline over five alphabets of 4 to 6 characters of UTF-8, and of up to 5 or 8 bytes over two alphabets with a continuation byte by itself; chunks of 3 bytes; 2 lines of up to 3 buffers; fairness | `TypeOK`, `NothingLost`, `ChunksFit`, `CarryBounded`, `RepeatBounded`, `AllAudioWritten`, `AudioInOrder`, `NoWakeupLost`, `Advances`, `ProgramEnds` |
| `StreamCharacters` | the UTF-8 texts of these | violated: see 5.5 |
| `NeoCache` | 3 loaders, 2 versions of a package, files of 2 blocks | `TypeOK`, `HandedOverWhole` |
| `NeoPrepared` | the same | violated: see 5.6 |

Why the bounds are enough. Two workers and two chunks give two chunks of one job in
flight together, one failing or cancelled while the other finishes or waits to
start; two jobs give a cleanup that runs while another job's bytes are being
counted; a limit of one buffer makes the second one exceed it. Two jobs with two chunks
each make the round robin requeue one before and after the other.
With three jobs on one place two stand in line: either may give up there, the first
entry of the line may be that of a request that has given up, in front of one that has
not, and order of arrival means something. The place is then handed on by a release that has to
look at more than one entry. What several places add to that is in `SchedulerWorkers`
(two are taken at once and given back in any order) and in the proofs, for any number.
In `SchedulerLiveness` the second
request waits for the first one's place, so it depends on the notification after
admission, on that after a release, and on a requester that may give up meanwhile.
In `ModelCacheLeases` three threads
contend for two replicas, so that one waits while two hold or load voices; the one
setting is the one that all three writers (command line, request, `textToAudio`)
touch.

In `CommandLine` six characters and a
newline make texts that are split before the end of the stream, carried twice and
split again; each alphabet has the marks of one kind of search (sentence ends, the
Spanish question and exclamation marks, closing marks of one and more bytes, the
vertical tab, which only some searches take for a blank). The two alphabets with a stray
continuation byte make runs of them longer than two chunks, from which the splitter
does not get away (`Spin`), shorter ones from which it does, and marks and blanks around
them. Three buffers let the writer
take two at once while a third is made. In `NeoCache` two loaders are what it takes to
empty each other's file and the third comes in between or after both; two blocks
make a half-written file; the second version shows what an old directory does to a
new package.

`MaxChunks` and `MaxWrites` (the chunks of a request, the buffers of a chunk),
`MaxLines` and `MaxBuffers`, `MaxVersion` and `LastBlock` are the only bounds of the
models that the code does not have. The runs of the scheduler and of `NeoCache` check
for deadlock: in the scheduler `Quiescent` is the only state without further steps. The
model cache's and the command line's do not: the threads stop after `MaxChunks` chunks,
and the program ends.

`VIEW` in the scheduler's safety runs drops what can no longer be read: the job of a
request that has returned (except the flags by which the queues drop it, as long as
it is in one), its directory, and the disconnect and deadline flags once the wait loop
does not look at them again (the job is done; for the deadline, a chunk was
dispatched). `TypeOK`, `ActiveJobsExact` and the others speak of what the view keeps.
`SchedulerTempReturned`, which looks at a directory that was left behind, uses no
view, `SchedulerLiveness` neither view nor symmetry. The view of `ModelCacheLeases` drops
what a worker has left over from its last chunk: the model, slot and overrides of one
that has none, the settings it has restored, a disconnect that is looked at no more.
Each of these is written before it is read again, in the cache and in `VoicePool`.

Fairness. `FairSpec` of the scheduler gives weak fairness to each worker and to each
request that has been submitted: the operating system runs runnable threads, and
every wait in the modelled code is either a condition variable (no step enabled until
notified) or a timed poll. Clients and clocks get none: a request must return even
though its client stays and its deadline never passes. The inference is assumed to end.
A worker in the model cache's `checkout()` gets none either, as a failed load can leave it
there for ever (5.3). `EveryRequestReturns` is therefore conditional: it says that every
request returns provided that no worker stays there (`CheckoutsReturn`), so it is about the
scheduler, and not a promise of the whole server, which the code does not keep.
`FairSpec` of `ModelCache` is the same for a worker that has
taken a chunk. `FairSpec` of `CommandLine` is weak fairness of the main thread and of
the writer: that every split advances and every carry gets shorter, as it must if the program
is to end, is stated by itself and without fairness (`Advances`), and proved. Both are
claims about well-formed texts.

## 4. The proofs

The proofs assume the ASSUMEs of the component's module only (`SchedulerAssumption`,
`ModelCacheAssumption`, `TextAssumption`, `RawAssumption`, `NeoAssumption`: finite sets
where the code has finite ones, limits that are natural numbers) and hold for every
number of requests, workers, chunks, replicas, texts, buffers, loaders and versions.

`FairTtsSchedulerTypes` proves `Spec => []TypeOK`. `TypeOK` alone is not inductive: a
worker in stage `write` must have buffers left, or `left` would go below 0; `WriteInv`
says so.

`FairTtsSchedulerProofs` proves the invariant `IInv`, the conjunction of

- `JobInv`: flags, counters and the place of the requester of one job. Its heart is
  the ledger: `pending + next = inFlight + chunks` until the job is stopped, and
  `pending = inFlight` from then on; `pending > 0` as long as the job is held and not
  done, and both are 0 once it is done. The case that needs the most care is the timeout,
  which sets `pending` to 0 without looking at `inFlight`: it is right only because
  `startedChunks` is 0, tested under the same mutex.
- `HoldInv`: `inFlight` is the number of workers that hold a chunk of the job, and
  each of them holds a job whose request is in the wait loop or about to enter it.
- `QueueInv`: what is in the two queues, and that a held job with chunks left is in one.

From it follow `RequestOutlivesChunks` (a held chunk means `inFlight > 0`, so the job
is not done and its request has not left), `NoJobStranded` (not done means
`pending > 0`, so there is a chunk in flight or one to dispatch), `DoneIsFinal`
(every writer of a job either holds a chunk or has tested a flag that `done`
excludes), `ActiveJobsExact` (the activated, held jobs are counted one by one, through
activations by other requests) and from that `CapacityUsed`.

`FairTtsSchedulerChunks` adds where the chunks are: of the chunks `1..next` of a job that
is not stopped each is on disk or in a worker's hands, and none is in two places.
Hence `ChunksDisjoint`, and `CompleteWhenAssembling`: at the end nothing is in flight
and `next = chunks`. The module proves three more of the runs' properties:

- `TempBytesConserved`. The sum of the jobs' bytes is the number of pairs of a job and a
  number up to its counter (`Ledger`): to charge a buffer adds one pair, a
  cleanup removes those of one job, so that cardinalities do what induction over the
  jobs would be needed for. `BooksInv` adds that a job whose bytes are being returned
  has no others. The total then never falls below what a cleanup returns, which is
  why the branch of `cleanupJob()` that would reset it to 0 is never taken.
- `NoWorkerOversleeps`. Work is queued under `queueMutex` and announced after it is released;
  between the two a worker may look, but it then finds the work. With the types it is inductive.
- `FairTurn`. No job is in the round robin twice (`RobinOnce`); a worker removes the entries
  up to the one it serves, and those it passes over have nothing to dispatch. A job that
  has something is therefore behind them, and moves forward by as many.

`FairTtsSchedulerRefinement` proves `Spec => ImplementsService`. The invariants above say
most of what the mapping needs; `ServiceInv` adds that `waitingJobs` never exceeds the
entries of `pendingJobs` (so that a place is only handed to the longest waiting request,
or to nobody while somebody waits), that a worker holds chunks of activated jobs only,
and that `ok` is recorded only when all chunks were written. Each action of the code is
then mapped: most are stutters, `ActivateNext` is `Promote` or drops an entry that has
left the line before, `Admit` is `Refuse` or `Enter`, and `WaitTurn` is `Leave` for a
request without a place. The order of the waiting line is a set of pairs on both
sides, so that no position needs to be counted.

`ModelCacheProofs` proves all six invariants of the cache. Its `IInv` has the types, a
count (`loadingSlots` is the number of threads that load, and with the slots stays
within the limit), the leases (nobody leases a slot twice, and only existing ones) and
the settings: a free slot has those it was loaded with, and a thread at each
point of `processChunk` knows what to restore. The slot a load adds is new, as slots
are only added; that carries `LeaseExclusive`. `NoWakeupLost` needs no strengthening
beyond these: every step that makes a slot free wakes one of those that sleep.

The same module proves `Spec => ImplementsPool`. Only the thread that takes the step
looks different from outside: one that is notified does not (`KeptLooks`), and a voice is
written by its holder only, which is what exclusive leases are for (`OthersLooks`). A free
slot is one that nobody holds, so a lease is `Take`; the slot a load adds is below the
limit because the load itself was counted, so `LoadDone` is `Grow`; and `Open` is `Speak`
because the settings the voice has then are those it came with, under the request's
(`SettingsFit`). Every other step is one action of `VoicePool` or a stutter.

`StreamReaderProofs` proves of the splitter that, whatever the bytes, a chunk is at most
twice the preferred size and does not end inside a character (each of the eight searches
stays between the beginning of the text and the hard limit, and a boundary only moves
back). That a chunk is not empty is true of well-formed texts only: there a boundary
moves back by less than a chunk (`BoundaryNear`, `ChunkEndAdvances`). The reader's `IInv` says
that the chunks of a split are in order and, with blanks, cover the pending text
(`Chopped`, `Cut`), and that the bytes that will be erased end inside or right behind
the last chunk that was spoken (`Speaking`). The code counts bytes of chunks and erases
that many from the front, which would be wrong in the other direction if a chunk could
overlap another; as it is, `NothingLost` follows, and so do `ChunksFit` and
`CarryBounded`. What it does wrong is 5.5, and how wrong is `RepeatBounded`: a byte that was
spoken lies behind the bytes erased by less than the number of blanks before it (`Lag`).
Between two chunks of a split everything is blank (`BlankBetween`), so that what the count
of bytes leaves out when it skips to the next chunk is counted by the blanks
(`BlankGap`). What is carried is spoken again in chunks of its own, and these may end
before those of the last time; `Lag` therefore speaks of all that was ever spoken.

It also proves where the loops of the reader go on. `SplitterAnswers` says that the splitter
finds one end for whatever piece is left of any text: each search gives one position or
none, and the last one, which takes the hard limit, always gives one. That end need not be
further on. That a
set of positions with an element has a least and a greatest one is proved by induction
over the natural numbers (`OneLeast`, `OneGreatest`). `NeverStuck` follows: in
every phase the next step has what it needs, and only a text that is not well-formed comes to
spin. On a well-formed one each step makes `Progress` larger, a tuple
that starts with the front of the pending text (`Advances`): a carry moves it forward by at
least a byte, since whatever is carried follows a chunk that was spoken. `SpinsForEver` is
the other side: a turn of the splitter that does not get further leaves it where the blanks
before the same chunk are skipped again, so the next turn is the same one.

`CommandLineProofs` proves `AudioInOrder` and `AllAudioWritten` of the raw output from two
facts: the written samples, the writer's own buffer and the shared one hold, in this
order, all that was made (`Flow`), and where the two threads are says which of them are
empty (`Places`). A third, what the flags say (`Flags`), gives `NoWakeupLost`. It then
composes the two modes: a step of the program is a step of one of them that leaves the
variables of the other alone, so `Spec` implies both specifications (`BothModes`), and
what was proved of each holds of the program, its `TypeOK` included.

`NeoCacheProofs` proves `TypeOK` and `HandedOverWhole`: both files are whole when a loader
goes on to the voice, provided that the package was never replaced, no write was lost or
broken off for good, and nobody is writing at that moment. While no write was lost,
a missing block is owed by a loader that is writing the file (`Owed`), except in a model
whose writers were all killed before anybody came to the configuration; then whoever
adds a configuration first empties and writes the model (`Abandoned`).

Only model-checked: `EveryRequestReturns` and `ProgramEnds`, the two liveness
properties, under the conditions they state; liveness under fairness is out of the prover's reach. Of the second, `Advances`
and `NeverStuck` prove what does not need fairness (`ProgramAdvances` for the program). All other properties of the passing
runs are theorems.

## 5. Where the code departs from its documents

1. `neo-docs/server-architecture.md` says that `--queue-size` controls the queue. A request
   that gives up while it waits reduces `waitingJobs` itself, and its entry in
   `pendingJobs` reduces it again when it is dropped. The counter is unsigned and
   guarded, so it does not wrap, but it forgets a request that still waits and
   admission then lets in one more than the limit. `SchedulerQueueBound`: j2 gives up
   in line, the release of j1 drops its entry and reduces the counter, j3 is served and
   j4 waits, and when j2 leaves it takes away the count of j4, so that j5 is let in.
   `QueueBound` counts only requests that are held and not done, so that j1 and j2,
   which only have to return, are no part of the excess.
2. `docs/resource-management-plan.md` says that `outputs/tmp/<job_id>/` is removed when a job
   ends, fails or is cancelled. When `assembleWav` throws it is not, and the job's bytes
   count against `--max-temp-bytes` until the server restarts. `SchedulerTempReturned`.
3. The same document says that a disconnect ends the current chunk and frees the
   replica. A worker that waits for a replica whose load fails waits on, without
   polling, until some other request loads that model, if one does. Its own request
   does not return until then; that is why `EveryRequestReturns` is conditional.
   `ModelCacheAbandoned`.
4. The usage text offers `--length_scale`, `--sentence_silence` and the others for the
   program; in server mode they reach the first replica of the default model only, so
   what a request sounds like depends on which replica it gets. `ModelCacheReplicas`.

5. `README.md` says that chunking avoids breaking UTF-8 characters. The reader of a stream
   erases as many bytes as its chunks hold, but the splitter has skipped the blanks
   before them. What is kept then begins before the end of what was spoken: that is
   spoken a second time, and it may begin inside a character. `StreamCharacters`.
   Nothing is ever left out (`NothingLost`), and over all lines no more bytes
   are repeated at a time than there were blanks before them (`RepeatBounded`).
6. `neo-docs/neo-format.md` says that the cache spares the extraction when the package was
   prepared already. The code looks only for the existence of two files, which a
   loader creates before it writes them. A second one that starts at that moment, or
   at any time after the first was killed, loads the voice from files that are not
   whole. `NeoPrepared`. What holds nevertheless is `HandedOverWhole`.

Three more things the model shows, which no document denies:

- A rejected request leaves its empty directory behind too (it is created before
  admission).
- On a text that is not UTF-8, with a run of continuation bytes longer than two
  chunks, `splitTextIntoChunks()` (`piper.cpp` 376-392) may add the same chunk until there is
  no memory for more (`Spin`, and `SpinsForEver` says that it does not get away).
  The documents and the usage text speak of UTF-8, so this contradicts none of them;
  `Advances` and `ProgramEnds` say that they hold of well-formed texts.
- A package that is replaced at its path keeps the files that were extracted from the old
  one (`Export`): the directory is named after the path.

## 6. Not modelled

Most lines of the repository are not its own logic: `src/cpp/json.hpp` is a vendored
parser and `monotonic_align/core.c` generated from Cython; together they are 46 of its
55 thousand lines, and no model of this program should cover them. Of the rest:

- `handleClient`, markup scripts (`server.cpp` 2145-2706): sequential code around one
  call of `synthesize`, parsing and arithmetic on samples. What a request leaves
  behind in each outcome is worth a module (`TtsRequest`, `MarkupScript`).
- The model registry, output retention and downloads: hazards that come from other
  programs changing the file system between two calls (`ServerFiles`).
- What a chunk's file holds: a `chunkFile.write` that fails is not looked at
  (`server.cpp` 1981), so a request may be answered with less audio than was made.
- The inside of one inference: `textToAudio` switches the silence off and puts it back
  (`piper.cpp` 1030), and what it leaves behind if it does not is put right by
  `processChunk`; no property sees it.
- A line that is longer than any limit: it is read whole, and `CarryBounded` speaks of what
  is pending when the next one is read.
- espeak-ng, whose selected voice is global to the process, and onnxruntime are not in
  the repository; that `textToAudio` of two voices may run at once is in `ModelCache`, what
  the libraries make of it is not.
- The automatic resource configuration, argument and JSON parsing, the WAV header,
  the text normaliser and the sanitiser: functions without state.
- The Electron client (its asynchronous handlers write state captured before an
  `await`: `ChatSession`) and the model manager.
- `JobLimiter` and `JobLease` are used by nothing; training, the Python runtime, benchmarks and
  build scripts hold no protocol.

`loadVoice` itself is no part of `NeoCache`: a loader reads the files in one go, and what it
does with a file that is not whole is a matter of the JSON parser and of onnxruntime.

## 7. The plan

Done: the scheduler and the model cache with their abstract specifications, the stream reader
and the raw output of the command line, the extraction of packages, and the proofs of
their safety. Next, in this order:

1. `ServerFiles`: registry, retention, downloads.
2. `ChatSession`: the client's asynchronous handlers, retries and history.
3. `TtsRequest` and `MarkupScript`: what a request leaves behind in each outcome.
4. `Serving`: workers that go through both the scheduler and the model cache, with
   espeak-ng's global voice.
5. `AutoConfig`: the limits derived from processors and memory.
6. The text normaliser and the sanitiser.

The safety of what is modelled is proved; the next theorems are those of these modules,
first that `Serving` implements both `TtsService` and `VoicePool`.

Runs stay few: a new component shares one with what it interacts with, as `CommandLine`
does.
