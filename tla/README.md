# R2D2: models, checks and proofs

R2D2 fuzzes ROS 2 applications. It boots an application under `xvfb-run ros2
launch`, feeds it programs (publications, service calls, parameter changes and
actions) through the `ros2` command line, follows the application's callbacks
through a shared memory that an external tracer writes, and counts code
coverage with a runtime that is linked into the instrumented processes. This
directory holds TLA+ models of the program, the TLC configurations that check
them, and TLAPS proofs about them. Paths are relative to the repository; line
numbers for every definition are in `PROJECT.json`, under `map`.

## 1. The system

| part | code | state | operations |
| --- | --- | --- | --- |
| sancov runtime | `rozz_cover/sancov_runtime/src/lib.rs`, `utils.rs` | the shared memory (header and counters), the guards, `CAN_USE_HEADER_LOCK`, `SHM`, `CONNECTOR` | `guard_init` per compilation unit, `trace_pc_guard` per edge |
| sancov server | `.../sancov_server.rs`, `utils.rs` | `CovCollector`: `socket2id`, `map`, `statistics`; the output and `.cov` files | accept and read loop, `on_socket_connected`, `on_socket_closed`, `update_index_with_allow_list`, serialization, the one-minute ticker |
| fuzzing campaign | `feryr_fuzzer/src/lib.rs`, `bin/fuzzer.rs`, `feryr_prog/src/corpus_handle/{prog,target}.rs` | `FuzzManager`, `RUNNING`, `fuzzing_inst`, `ros_launch.pid`, the crash directory | boot, kill, clean, reboot, the fuzz loop, `exec_one`, `check_crash`, `save_crash`, status thread, Ctrl-C |
| callback graph and monitors | `feryr_prog/src/cover_handle/{callgraph,callback,event_trace,timer_trace,topic_trace}.rs` | nodes, callbacks, current times and messages, traces, minima and maxima of durations and frequencies | `update_callback_info`, `trim_times`, `get_event_trace`, `get_timer_trace`, `get_call_trace`, three monitors |
| tracer memory | `feryr_util/src/shmem.rs` | the mapped files `nodes`, `callbacks`, `times`, messages | unlocked reads, `allow_time_write` |
| program generation | `feryr_prog/src/corpus_handle/{prog,interface,target}.rs`, `ty/*.rs`, `gen_targets` of `feryr_fuzzer/src/lib.rs` | the json files of `sys/`, `Target.nodes`, a tree of values per command | `parse_interface`, `gen_targets` and its cache file, choice of node and interface, random values, the command's text |
| mutation | `feryr_prog/src/corpus_handle/{mutation/*,corpus,value}.rs` | none: not compiled, or without a caller | none |
| branch bitmap | `feryr_prog/src/cover_handle/cover.rs`, `rozz_cover/module_analysis/src/coverage.rs` | virgin and trace bits | `has_new_bits`, `count_bits`, classification |
| memory access runtime | `rozz_cover/mem_analysis_runtime/src/lib.rs` | `CURRENT_FUNC`, `VISIT_TID`, `MEM_DEP`, pointer maps | function entry and return, loads and stores, serialization |
| memory dependency analysis | `rozz_cover/analysis/src/{utils,main,shm_to_json}.rs` | `MemAnalyzer`: `socket2id`, the graph of named functions, `demangle_map` | deduplication, the two graph constructions, merging, the ticker |
| evaluation server | `rozz_cover/analysis/src/evaluation_server.rs` | `MetricCollector`, a relative of `CovCollector`: `socket2id`, statistics, the output file | as the sancov server, plus averages |
| generator helper | `rozz_cover/generator_helper/src/lib.rs` | weights | weighted choice |
| helpers and wrappers | `rozz_cover/common`, `module_analysis/src/main.rs`, `feryr_util/src/{cpu_bind,verbose}.rs` | none | logging, options, CPU binding |

How they interact. An instrumented process maps a file of its own, registers
its path with the server over TCP and counts into the file; when the
connection closes, which it does when the process ends, the server opens the
file, reads the header and adds the non-zero counters to its vector. The
campaign runs independently of that: it starts the application, and all it
knows about it comes from the exit status of the launch process, the output of
`ros2`, and the tracer's files in the shm directory, which it copies without
the lock their writers use. Which programs it sends follows from json files that
one tool run parses, and from `sys/node.json`, which campaigns share. The memory
access runtime, the analyzer and the evaluation server form a third chain: a
process records its calls and accesses into a file, registers the file, and the
server it is registered with reads the file when the connection ends.

What is hard, and what makes each part correct:

* **runtime**: objects are loaded by several threads and edges run on all of
  them without a lock. Correct: no insertion is lost, objects do not share
  counters, a counter counts its own guard only, an object's counters do not move.
* **server**: every connection is a task; tasks and the ticker share two mutexes
  and a reader-writer lock, `expect`/`unwrap` poison them, and the closing of a
  connection runs `on_socket_connected` once more. Correct: both hash maps end
  up without an entry, ranges of the vector are disjoint, each process is
  counted once and as a whole, the output never goes back, every process that
  ended is dealt with.
* **campaign**: processes die at any time, signals are sent and not waited for,
  boots time out and are retried, and the launch process may be a zombie.
  Correct: what is saved with a crash reproduces it, old instances are gone or
  signalled, no program is run against an instance whose launch process a signal has ended.
* **callback graph and tracer memory**: records are read while nodes write them word
  by word, the clearing of the file opens the writers' mutex, traces accumulate over
  programs and instances. Correct: a record may lack words that were not yet written but
  never mixes two events, a measurement lies inside its program, extremes bound what was
  seen, and a panic has a cause in the data.
* **memory access runtime**: threads race to initialize, a write lock is taken under
  a read guard, a process may die between any two steps. Correct: accesses belong
  to the call that made them, what is saved decodes or is recognised as cut off.
* **analyzer and evaluation server**: tasks poison the locks they panic under.
  Correct: only early ends stop a server, every edge has a witness, nothing
  found is lost, a recording counts once.
* **program generation**: the cache is appended to in two writes by campaigns that
  may run together or be killed, nodes come and go, versions change. Correct: what is
  generated for a node is what it offers, a command names each of its fields once and loses
  nothing of a value, a choice ends.

`PROJECT.json` lists, under `hazards`, the places where these parts can go
wrong in a way a test would hardly reach, with the property that watches each.

## 2. The modules

```
SancovLayout ----+---- SancovRuntime -+- MCSancovRuntime
                 |                    +- SancovRuntime_proofs
                 +---- CovServer ---+---- MCCovServer
                          |         +---- CovServer_proofs
    CoverageLedger <------+ refines
FuzzCampaign -+- MCFuzzCampaign
              +- FuzzCampaign_proofs

TracerShm ---- CallGraph ---- TraceRun -+- MCTraceRun
                            FoldLemmas -+- TraceRun_proofs

MemDependency ---- MemRuntime ---- MemServers ---- MemChain -+- MCMemChain
                                                 FoldLemmas -+- MemChain_proofs

InterfaceParser ---- InterfaceValue ---- Discovery ---- ProgGen -+- MCProgGen
                                                      FoldLemmas -+- ProgGen_data_proofs ---- ProgGen_proofs
```

### SancovLayout
The shared memory's layout, which two programs must agree on: how an object gets
its slot (`PushDso`, `NextOffset`), where its guards point (`GuardValue`), and
what the reader does with an offset (`CovOffset`). The runtime and the server
both use these definitions; so do the memories in `MCCovServer`.

### SancovRuntime
`guard_init` is `Enter`, `ReadHeader` (lock, map or decode the header), `Skip` or
`UpdateHeader` (insert, serialize, unlock) and `SetGuards`; an edge is
`TraceLoad` and `TraceStore`, since the increment is not atomic. A header that is
too long runs on over all the bytes of COV that it reaches (`Overrun`, `Spill`) and does
not decode (`HeaderDecodes`); a count in the header's bytes may spoil it or not (`intact`,
`Decodings`). The panic
of an object that does not fit crosses an `extern "C"` boundary and so ends the
process (`alive`). Not modelled: the black list, a missing `SHM_DIR` (in both the
runtime does nothing or exits), the registration's contents, and a damaged header that
decodes to yet another one.

### CovServer
A task's program counter `pc[c]` goes through the read loop and the two handlers;
one action per lock acquisition, because between any two of them other tasks run:

| code | actions |
| --- | --- |
| accept, `spawn` | `Connect` |
| `read` in the task's loop | `ReadMessage`, `ReadEof` (0 bytes, old buffer), `ReadError` |
| `on_socket_connected` | `InsertSocket`, `InsertMap`, `ReadActive`, `Activate` |
| `on_socket_closed` | `CloseSocket`, `CloseMap`, `OpenShm`, `LockStatistics`, `ScanDso` per object, `Commit`, `RemoveFile` |
| `serialize_statistics_to_filesystem` | `SerializeBegin`, `SerializeEnd`, for a task or the ticker |

`LockStatistics` takes the write guard, which the task keeps to the end of the function if it
has found nothing new, through the removal of the file; otherwise it gives it up for the
output. The coverage vector is the set of its indexes that are set. A memory is its
decoded header and the set of addresses of non-zero bytes: a slot may end behind the
memory, and the set then has addresses from `MAXSIZE` on, for what the server reads there
(if there is nothing to read, the server ends, which is left out). Poisoning is
`sPoisoned` and `stPoisoned`: the documented build (`cargo build`) unwinds, so a
task that panics while holding a lock poisons it and the others go on. The lock
of `map` needs no variable: its only nested use is under that of `socket2id`, and
the operations under it alone are single steps. `start_time`, which nothing
reads, and I/O errors of the output file are left out.

### CoverageLedger
The abstract promise: processes leave evidence (guards, as pairs of object and
index); the evidence of each is credited at most once, as a whole; the published
total is a total that was reached and does not shrink. `CovServer` instantiates
it with a mapping from indexes of the packed vector back to guards
(`PointsOf`) and from memories to evidence (`Evidence`), so the run of
`LedgerRefined` covers the packing, the locks and the order of outputs.

### FuzzCampaign
The main thread's program counter goes through boot (`Spawn`, `BootOk`,
`BootTimeout`), reboot (`KillRosApp`, `CleanShmFile`), the loop (`Iterate`,
`CheckStatus`, `CheckWaitpid`, `Exec`, `CheckInterest`, `Timeout`) and the saving
of a crash (`SaveInput`, `SaveCopies`). Each boot makes an instance with a launch
process and nodes; `Environment` starts nodes, delivers signals and lets
processes die. `check_crash` is two actions because the process may die between
reading its status and `waitpid`. The manager's lock is held over an iteration,
so the status thread (`OutputLog`) reads only where the main thread has let go. No fairness
is stated: an iteration need not end, since after a timeout the fuzzer reads the command's
output to its end, and whoever still holds the pipe decides when that is (`prog.rs:361`).
The contents of programs, their generation, and what the callback graph and
monitors compute are a choice here, panics included; `ProgGen` and `TraceRun` model
them. ROS nodes and the tracer are
external: modelled as far as their files and their process tree matter.

### TracerShm, CallGraph, TraceRun
`TracerShm` has the four files (`times`, `msg`, `nodes`, `callbacks`) and the
fuzzer's copies of them. The tracer is a library of its own that is not part of the
repository: its writers stamp a time (`Stamp`), take the mutex (`Lock`), store the words of a
record in any order (`WriteWords`), count it (`Count`) and unlock (`Unlock`), as the structures
in `shmem.rs` require of them. The fuzzer's operations on the file are not one step either:
between `BeginClear` and `EndClear` slots, count and mutex are set to 0, whoever is in the
section, and between `BeginLoad` and `EndLoad` the slots are copied; a word that is stored
in between is erased or not, copied or not. The other three files are copied, and their
records written, in one step each.

`CallGraph` translates `callgraph.rs` and the structures around it, function by
function, as operators over a graph's state: `UpdateCallbackInfo`, `TrimTimes`,
`GetCallTrace` (which attributes each record to a callback and feeds
`GetEventTrace` and `GetTimerTrace`; messages pass by `MsgPasses`), and `Monitors`, which walks over the edges in
the order of a hash map, updates the extremes and returns at the first edge it finds
interesting. Its loops are folds, so that they can be proved about. Hash maps are iterated in any order (`Attributions`, the orders given to
`MonitorEdges`); records of equal time may be sorted either way (`TimeOrders`).

`TraceRun` composes both into `exec_one`'s part that concerns traces:

| code | actions |
| --- | --- |
| `gen_targets`, `update_shm` | `GenTargets` |
| `allow_time_write`, the command's spawn, `start_time` | `Clean`, `Spawn`, `TakeStart` |
| `mmap_load_info` (times, their sorting, then the rest) | `CopyTimes`, `SortTimes`, `CopyRest` |
| `check_timeout_and_interets` | `BuildTrace`, `Judge` |
| a command that timed out: `update_shm`, or nothing at all | `UpdateShm`, `GiveUp` |
| `reboot` with `clean_shm_file` | `Reboot` |
| the application | `ApplicationStep` |

Between copying and judging the fuzzer works on its own copies, so application steps
are not interleaved there: they commute. Handles of one callback (rcl, rclcpp, rclcpp1)
are one set, ids are tuples instead of hashed strings, the maximum of `f64` is
`Infinity`, and the key of a topic edge is the XOR of two handles, as in the code.
Left out: the display functions, the json output, the anomaly detector (commented out).

### MemDependency, MemRuntime, MemServers, MemChain
`MemDependency` holds the record and the pure algorithms of both sides:
deduplication (`DedupMem`) and the two constructions of edges (`MiniEdges` from
the smallest store and the largest load of each pointer, `GepEdges` and `AccEdges`
from full records).

`MemRuntime` has a process with threads. A step is what runs between two accesses to
a static: a function's entry is `FuncEntry`, then for the first one `CheckShm`,
`MapFile`, `KeepMap`, `Connect`, `Register` (racing threads both take this path), then
`SetTid`, `SetFunc`, `AddFunc`; an access is `Pointer`; a return is `FuncReturn`, the
copy (`BeginCopy`, `EndCopy`), and `Relock`, where `CURRENT_FUNC`'s write lock is asked
for while the read guard of the same thread is alive (`ReaderHolds`). `ProcessEnds`
ends the process anywhere (it also exits by itself in front of a copy that would not fit); in
the middle of a copy the file then holds what `CutOff` leaves, whole lists and no part of
one. The model is of the debug build, where an underflow panics.

`MemServers` has the two servers, which share the shape of their main loop
(`ReadRegistration`, `ReadEnd`, `ReadError`) and differ in their handlers:
`MetricConnected` to `MetricCollect`, and `AnalyzerConnected` to `AnalyzerCollect`,
each with a ticker. A panic under a lock poisons it (`DiesHolding`). `MemChain` joins a
live process, recorded ones (`ClientStep`) and one server. Left out: the rule mapping
of `ENABLE_RULE_MAP`, the demangling of names (assumed to keep them apart),
`create_from_last_result` (unused), files deleted by others, and registrations longer than
the servers' 256 bytes, whose tasks panic before they have taken a lock.

### InterfaceParser, InterfaceValue, Discovery, ProgGen
`InterfaceParser` is `parse_interface`, which made the json files of `sys/` that every campaign
reads (today nothing calls it, and it ends in a panic when it has written them): the text of `ros2 interface show` as words
(`LineWords` says which words each kind of line is shown as), the loop that drops comments
(`Strips`), the two-words-at-a-time reading of fields (`Fields`, `ParamAt`), array sizes,
constants, and the map from last parts of names to interfaces (`Maps`). `InterfaceValue`
builds a tree of values for an interface, draws its leaves (`GenLeaf`) and prints it
(`GetValue`), with the stripping of the last comma and the cutting of integers to a width.

A tree is the sequence of its nodes in the order in which the code reaches them: an
interface node carries the number of nodes below it (`Itf`), a leaf stands right behind its
own. So `gen_value`, which goes through all leaves in this order, takes the smallest index
that is left, and a type's trees are built in layers, from the innermost type outwards
(`Layers`), where the code recurses: no interface contains itself, so that there are no more
layers than interfaces, and a type that is in no layer is one for which the code panics
(`Constructible`). Every other loop of these modules is a fold over what it loops over.

`Discovery` is `gen_targets`: list the nodes, read `sys/node.json`, ask each node that is
not in it for parameters and interfaces, and append an entry (`NodeSerialize`) and its line
end (`EndLine`), two writes. The answer of `ros2 node info` is its words (`InfoWords`); before
each key the six headings are looked for, each right behind the one before (`PastHeadings`),
and then a key and its type are taken (`ReadEntry`), as `node_serialize` does. Nodes come
and go (`NodeChanges`), the application is upgraded, campaigns are killed. Left out are
the panics before a node has been listed: a json file is missing, or the boot fails.

`ProgGen` is `generate_call`: `BeginChoice`, `Redraw`, `ChooseInterface`, `GenValue`,
`Serialization`. Floats have one value, a topic has one type, and of the integers, which
`gen_integer` draws uniformly, the model draws the ends of the range. A string is filled until
its length in bytes reaches the one drawn (`GenString`), a field `sec` is drawn anew each
time it is printed, as an `i16` whatever its type (`SecLeaves`), and characters are printed as they
are, those included that mean something to the text or to the shell. How many integers of each
width there are is a constant (`Modulus`), since nothing depends on its being 256 and so on:
only that it is even and that a wider one is a multiple of a narrower. The trees of
publishers and clients, which nothing uses, are left out.

## 3. The runs

| run | configuration | shows |
| --- | --- | --- |
| `cov_safety` | 2 processes, 6 memories (one with a slot that ends behind it), resets, an oversized registration, a filter, a vector that overflows | `TypeOK`, `RangesPacked`, `NoStaleEntries`, `DroppedOnlyFor`, `OutputMonotone` |
| `cov_live` | 2 processes that behave, 3 memories that agree on lengths, fairness | `LedgerRefined`, `EveryEndCollected` |
| `cov_offset` | as `cov_live` | violates `CoverageIsExecution` (finding 1) |
| `runtime` | 2 threads, 3 objects of 1, 1 and 2 guards and 2 units, a memory that the three may exceed, counters that wrap at 3 | `TypeOK`, `HeaderComplete`, `CountersFaithful`, `StableGuards` |
| `runtime_long_header` | as `runtime`, the header's section holds one slot | violates `CountersFaithful` (finding 2) |
| `campaign` | 4 boots, 2 programs, instances 2 and 3 may die, 1 kind of hang | `TypeOK`, `HistorySinceBoot`, `SavedReproducible`, `SupersededSignalled`, `CrashNotPassedOver` |
| `campaign_zombie` | 3 boots, 2 programs, all may die | violates `NeverKillsItself` (finding 3) |
| `campaign_index` | 4 boots, 3 programs, none dies | violates `CrashesKept` (finding 4) |
| `campaign_boot` | 3 boots, 1 program | violates `BootMeansUp` (finding 5) |
| `tracer` | a node with a timer and a subscription in two instances that reuse addresses, 5 budgets of events, messages, clock, programs, instances and of the words that are stored at once | `TypeOK`, `RecordsUnmixed`, `MeasuredInWindow`, `OldEventsOnlyCarried`, `QuietIsBounded`, `PanicOnlyForZero`, `ExtremesWiden` |
| `memory` | two threads that race, or one or two recorded processes with 9 images, against either server | `TypeOK`, `AccessesAttributed`, `StopsOnlyFor`, `StatisticsFaithful`, `EdgesWitnessed`, `FirstReturnIsLast`, `GraphGrows` |
| `generation` | every interface of up to 3 of 12 kinds of line; two campaigns at once; one with an upgrade; generation for 4 node lists | `TypeOK`, `ParseFaithful`, `CacheWhole`, `EntryFaithful`, `PanicOnlyFor`, `StreamFaithful`, `ProgramWhole`, `ChoiceEnds` |

Bounds, and why they suffice:

* *Processes and tasks* (`Clients`, two, plus the ticker): each lock is contended,
  one task can be in any place while another poisons, scans or writes, and the
  ticker is a third writer of the file. The theorems hold for any number.
* *Objects* (two names; memories with zero, one or both, in both orders, with
  different lengths): enough for a range found, a range made, a range too short,
  and a vector exceeded.
* *Layout* (`HEADER_SIZE` 1 or 2, `MAXSIZE` 5 or 6, `HeaderCap`): a byte of header
  shows a confusion of header and counters in the server; the runtime has two, so that an
  address in the header that is not 0, the value of an unset guard, exists too.
* *Runtime* (`Units` 2: the second call for an object; `ByteSize` 3, and 3 hits of one
  object's guard, 2 of the others': two hits that race and lose a count stay below the wrap,
  where the counter must still not read 0, and the third one wraps). Threads are interchangeable
  (symmetry); the only temporal property of that run is an action property.
* *Campaign* (`MaxBoots`: the first boot, its reboot, and two more, so that a boot
  that timed out is tried again and a saved crash is followed by an instance;
  `MaxExec`: two programs in one instance or one in each). `Mortal` limits which
  instances die, to keep the run small; the first instance (which only serves
  `gen_targets`) and the last are immortal there, and mortal in `campaign_zombie`.
* *Tracer* (`Budgets`; `SHM_LEN` 3): each budget is one question. Two events of a thread
  that stores every word by itself show the orders in which a record may be half written
  while the file is cleared or copied; two events of two threads that store the two halves of a
  record (handle and time; flag, size and `rmw` handle), two programs and two instances show
  clearings that hit a writer, reused handles and
  carried events; the others store records at once: six events of the executor's thread over two programs show a second
  measurement of an edge; three events and a message show both kinds of edges in one program;
  three messages over three programs show the extremes after the
  first two, which are always interesting. All events and messages at once would
  only multiply these. The clock is bounded, and times may be equal.
* *Memory* (`MaxFiles` 2: both threads initialize; `MaxEntries` 1, two accesses in the
  race: the thread that returns first never enters again; with no other process, the server
  starts when this one has stopped, or when a racing thread has closed the connection of the file
  that is recorded to and the accesses have been made, since it has nothing to read before; two recorded processes: one
  poisons or wins a name, the other meets it; the nine images contain no decodable
  content, none, one and three calls, two cut-off ones, both record kinds, and functions
  that occur twice; `MaxRows` 2).
* *Generation* (three lines: two words are looked at at a time, so a confusion needs at
  most two neighbours; 2 campaigns, 3 launches: one writes, one reads what it wrote; two
  kinds of change; the ends of the ranges of integers of small moduli; strings of one
  character, the comma or brace of the text's syntax or a letter; arrays of two).

`CHECK_DEADLOCK FALSE` is given where the system may stop: processes that are
finished, a fuzzer that has exited, bounds that are used up. `cov_live` checks
deadlock, since the ticker goes on for ever.

**Fairness.** `CovServer`: strong fairness of each task and weak fairness of the
ticker. The runtime polls every task, the standard library's locks queue their
waiters, and its reader-writer lock lets no new reader in ahead of a waiting
writer; a step that takes a lock is disabled again and again while others hold
it, hence *strong*. Nothing makes a client connect or end. `EveryEndCollected` is
checked for clients that neither reset nor send an oversized registration;
with them the code loses processes, and `DroppedOnlyFor` says which.
`ProgGen`: weak fairness of drawing a node that has an interface, and of going on with
it. `choice_node` draws uniformly and independently from one generator, so a node that can
be drawn is drawn eventually with probability one; a fuzzer in `choice_node` waits for
nobody. `ChoiceEnds` says that this suffices if such a node exists, and that none
exists is the case where the code draws for ever.

## 4. What is proved

`CovServer_proofs` proves, for every set of processes, objects, lengths and memories
that satisfies `LayoutAssumption`, `ServerAssumption` and `ImageAssumption` (names are numbers in the
order of the map; a slot's offset and size are natural numbers; markers such as
`None` differ from the values they stand beside):

* `TypeCorrect`: `Spec => []TypeOK`. The type invariant is not inductive: scanning
  reads `image[c]`, which is a memory only once the process has ended, and looks up
  names in its header. `Ended` adds that a task past its read loop has a process
  that ended, that its memory exists, and that the names still to scan are in its
  header. `TypeInv == TypeOK /\ Ended` is inductive (`NextType`, one step per action).
* `PackedCorrect`: `Spec => []RangesPacked`. With `TypeInv` it is inductive: only
  `ScanDso` changes a range, a known name keeps its own, and a new one starts where
  all others end (`ScanEffect`, `PackedScan`).
* `OutputMonotoneCorrect`: `Spec => OutputMonotone`. `OutputInv` adds that a task that
  writes is among the readers and its snapshot is still the present state, that
  readers exclude the writer, that a task that scans is the writer, and that the file is never
  ahead of the statistics. Hence whatever is written next is at least what is there.

`SancovRuntime_proofs` proves, for every set of threads and objects, every number of
guards and compilation units and every size of memory and header
(`LayoutAssumption`, `RuntimeAssumption`):

* `TypeCorrect`: `Spec => []TypeOK`, without any further assumption. `Working` adds
  that a thread inside `guard_init` or in a count has an object, that what it read is a
  header, and that the address it counts at is 0 or in COV.
* `HeaderCorrect`, `StableGuardsCorrect`, `CountersCorrect`: `HeaderComplete`,
  `StableGuards` and `CountersFaithful`, each under `Roomy`: the objects have different
  file names, and a slot for each of them fits in `HEADER_SIZE` bytes. The code checks
  neither; two of the hazards are what happens otherwise, and the run `runtime_long_header`
  shows one of them. The invariant of the header is `CompleteInv`: the header has a slot per name and
  no count touched its bytes (`HeaderSound`); the thread that holds the lock has read
  what is still there (`LockInv`); one thread at a time loads an object, and between
  unlocking and the guards only that thread knows that the object has its slot (`LoadInv`).
  The invariant of the counters adds that slots do not overlap (`SlotsInv`) and that the
  value a thread is about to write back is below the true count (`CountInv`); a
  count lost in a race never takes the byte back to 0; only the 256th count can.

`FuzzCampaign_proofs` proves, for every number of instances, programs and hangs, and
whichever processes end on their own:

* `TypeCorrect`. `Place` adds where the main thread is to which instance it has: none
  before the first boot, the checked process is that of the newest instance, instances
  beyond it were never launched.
* `HistoryCorrect`, `SavedCorrect`: `HistorySinceBoot` and `SavedReproducible`. `HistoryInv`
  says that instances not yet used were given nothing, `SavedInv` that saved logs belong
  to instances that are not used any more; only the crash whose copies are being made
  still has none.
* `SupersededCorrect`: `SupersededSignalled`. It is inductive once it speaks of the newest
  instance too, from the moment its signals are sent to the next spawn.

Also in `CovServer_proofs`, from these invariants:

* `NoStaleEntriesCorrect`, `DroppedOnlyForCorrect`: `Spec => []NoStaleEntries` and
  `Spec => []DroppedOnlyFor`. `RegistryInv` says for each connection and each place of its
  task what both hash maps hold of it (`EntriesOf`): both or none while the task reads,
  which is what makes the second `on_socket_connected` harmless, both before the first
  lock of `on_socket_closed`, one between its locks, none afterwards; and which files
  there are, who is counted, and which panics there were (`FileOf`).
* `LedgerRefinement`: `ASSUME ImagesAgree PROVE Spec => LedgerRefined`. `LedgerInv` adds that
  a task that scans has found exactly the indexes of the objects it has visited (`ScanOf`)
  and that a range is as long as every process says that has the object (`CoverInv`). Then
  a commit is the ledger's credit of a whole process, a finished output is its
  publication, and every other step leaves the ledger alone. `ImagesAgree` (memories that
  track an object of one name give it one length) is a hypothesis of this theorem only. It
  holds for processes of one build. Without it the statement is false: the range keeps the
  length of the first process, and what a later one counted beyond it is cut off.

`MemChain_proofs` proves, for every set of threads, clients,
functions, pointers, files and images, with `MemAssumption` (as many files as threads:
each thread creates at most one; an access has the form of its kind), `ServersAssumption` (the
ticker is no connection, `NoDep` no recording), `ChainAssumption` and
`ScenarioAssumption` (the other processes left what a process leaves: whole lists, or those
of a copy that was cut off):

* `FirstReturnIsLastCorrect`, `AccessesAttributedCorrect`: `CallInv` says that who holds the
  guard of `CURRENT_FUNC` is alone (`OneHolder`), that the recorded thread has added its call or
  is about to (`CallBefore`), and that without a race one thread at a time enters and the
  last call is the recorded one's (`AloneEntering`).
* `StopsOnlyForCorrect`: `ServersInv` carries what is in a file from the process to the
  server. A recording has a list per call unless the process stopped while a thread held
  `MEM_DEP` (`FileInv`); each stage of a task determines its connection, what it read and
  which locks it can be waiting for (`TasksInv`); and each poisoning has its cause
  (`PoisonInv`).
* `StatisticsFaithfulCorrect`: `StatInv` relates the statistics to the set of collected
  recordings, and the ratios to those with more than one call.
* `TypeCorrect`, `GraphGrowsCorrect`: `GraphInv` says that the names are a sequence without
  repetitions, that edges join names of it, and that what was saved is a beginning of it. Adding
  the names of a recording is a fold; `NamesLoop` shows what it keeps.
* `EdgesWitnessedCorrect`. Without a race one file is registered, and its connection stays open
  as long as the process runs (`RunInv`); hence what a task has read is what the file still
  holds, with the lists of each call deduplicated (`ReadInv`). Only if threads raced may the
  file have grown since, and then the property speaks of what was read (`ReadFrom`). `EdgeInv`
  says that each information on an edge is witnessed by what a task read that was collected. Of
  several edges between two functions the first in the order of the calls is kept (`KeptIs`,
  `KeptWitness`), and `DedupAllIs` and `LastWithIs` say what deduplication leaves of a list and
  which access the construction picks from it.

`TraceRun_proofs` proves, for every application (`TracerAssumption`: what a script, a message or
a registration may be), every number of slots, threads, events, programs and instances,
and every `Infinity`, `MaxMsgSize` and `TopicKey`:

* `RecordsUnmixedCorrect`: `RecordsUnmixed`; of the records that are not skipped, each is part of one event of
  the program: handle, time and flag are that event's, size and `rmw` handle that event's or still 0. In `WholeInv`, as long as no clearing hit a
  thread in its section, only the holder of the mutex is in the section, and it writes the slot after the
  last one (`SectionInv`); what a slot holds is part of one event (each word that event's or 0), the writer's own for
  the slot being written, and that event is recorded unless it is older than the program (`Kept`). The
  copy has the same, word by word, once it is finished (`CopyInv`).
* `TypeCorrect`. For the count, `CountInv` bounds it together with the threads in the section,
  since a thread that a clearing hit may still add one.
* `MeasuredInWindowCorrect`. The records are sorted by time, whatever the order of
  equal ones, and so the start that `GetTimerTrace` pairs with an end is not later than
  it; both are times since the program's start. The lemmas `NodesFold`, `CallbacksFold`,
  `TracesFold` and `TopicsFold` carry this and the types through the loops of `GetCallTrace`.
* `QuietIsBoundedCorrect`, `PanicOnlyForZeroCorrect`, `ExtremesWidenCorrect`: what the fold
  over the edges (`MonitorEdges`) keeps, for every order of the hash map. `GraphInv` must state the
  bounds at every place except right after the trace was built, because a reboot may take the
  fuzzer back to `ready` without a new judgement.

`ProgGen_proofs` proves, for every set of campaigns and nodes, every list of interfaces and every
text their definitions are shown as, every version of the application, and every four widths
(`ParserAssumption`: last parts of names are no signs of the syntax; `ValueAssumption`: the
widths are even and multiples of each other; `DiscoveryAssumption`: what a node may offer, where a
key or type is no word of a heading and has one type under a heading; and which lines `ros2
interface show` may print, of eight kinds):

* `DiscoveryInductive`: the invariant the next four rest on. `WorldInv` has the json files as
  something `parse_interface` writes and the cache as whole entries (`Entry`: the trees are
  well formed with nothing drawn yet, and if the node was not silent it `Answers`, that is, has exactly what it
  offered). `FuzzerInv` says what a campaign knows in each phase (`Known`): while it asks a
  node, the parameters described and those left make up all that the node has (`Answering`).
  `Why` gives each panic its cause, from the phase it happens in.
* `GenTypeCorrect` and `PanicsOnlyFor` are in it, and so is `EntriesFaithful`, but for the step
  that writes an entry: there the words of the answer must be read back to what the node
  offers. That is `EntriesExact`. `InfoLayout` says where in the words each section lies; the
  loop over the headings at the first key of a section passes the headings of empty sections,
  and no other, because none is a beginning of another (`HeadingsApart`, `PastStands`); and each step of
  the loop over the words goes one pair further (`ReadStands`).
* `CacheStaysWhole`. By itself `CacheWhole` is not inductive. `CacheInv` adds, as long as no two
  campaigns asked nodes at once, that one at most asks (`Alone`), that it has read each
  entry of a node it still has to ask (`Ahead`), and that the file ends within a line exactly while
  one is being written.
* `GenInductive`, `ProgramsWhole`. `GenInv` says of the tree being generated that each leaf
  hangs below an interface node of its type (`Typed`; not for parameters, whose integers have no
  field's type), that the leaves that are not left are whole (`LeafWhole`), and that those left are undrawn or, if arrays,
  too short (`Partial`): without the last, a program whose generation an error cut short might be
  complete after all, and the equivalence in `ProgramWhole` would be false.
* `ParsesFaithful`. Only what is in the files after `Prepare` matters, so that the argument is one about
  the data: the list without comments is that of each line without its comment, one after
  the other (`ListIs`); the words of a line lie behind those of the lines before (`FlatParts`,
  `LinePlaces`); a field begins at the first word of a line that declares one and nowhere else,
  because the last word of a line and the first word of the next are no field (`FirstNext`,
  `FieldsOf`); and the loop appends to the fields what the loop over the lines appends to the
  declarations (`ReadAsDeclared`, `InfoFaithful`). For the names, of several insertions
  under one key the last stays (`MapsLast`).

`ProgGen_data_proofs` has the lemmas about data that these need: the types of the trees, json files and
entries, that every tree of every layer is well formed (`LayersFresh`), which element a concatenation
has at a place (`FlattenPlaces`), and for each loop its sequence of intermediate values. `Text`
is there because the provers do not know that a string that a module spells out
is in `STRING`.

`FoldLemmas` makes induction usable: the library's induction theorems take an operator as a
parameter, which the provers cannot instantiate, so it derives from the well-foundedness of
the numbers an induction over *sets* (`SetInduction`), and from it what `FoldLeft` does:
there is a sequence of intermediate values, each a step from the one before, which
stays in every set the steps stay in (`StaysIn`, `StaysAlong`). A finite set of numbers
has a largest one (`LargestOf`), and the indices of a list can be put in any order that compares
all of them (`SortExists`), so that what a sort or a maximum in the model chooses exists.

TLC checked the parts of each inductive invariant before they were proved, with
the configurations of the runs above.

Only model-checked:

* `OldEventsOnlyCarried`. It does not hold for every value of the constants: if nodes of
  two instances had the same handle under different names, the order in which the hash map gives
  them could rename a callback back and forth, and its entry would be kept without being
  carried. That each handle names one node at a time is a property of the allocator.
* `StreamFaithful`. `GetValue` and the text it is compared with (`FieldText`) are defined by recursion over
  the tree, and differ in where they put commas. To prove them equal takes an induction over
  trees through the last comma of every text (`Strip`); TLC compares them for each program of the run.
* `CrashNotPassedOver`, which speaks of a state and all later ones; TLC checks it without fairness.
* Liveness (`EveryEndCollected`, `ChoiceEnds`): it rests on fairness, and TLAPS
  1.4.5 does not handle `ENABLED`.

## 5. Findings

1. **The server ignores the header's size** (`sancov_server.rs:64`). `utils.rs:31-33`
   says to add `HEADER_SIZE` when a slot's offset is used; the server does not. It
   reads header bytes as counters and misses the last objects' counters.
2. **A long header runs on into the counters** (`lib.rs:191`), contrary to the layout
   in `utils.rs:21-26`; the next reader cannot decode it and starts from an empty one.
3. **A zombie costs the fuzzer its life** (`target.rs:783`): "kill zombie process on
   site" sends `kill -9` to the zombie's parent, which is the fuzzer.
4. **Saved crashes are overwritten** (`feryr_fuzzer/src/lib.rs:101`): the index comes
   from the first directory entry instead of being compared with all.
5. **A boot may be taken as finished because of the instance before it**
   (`feryr_fuzzer/src/lib.rs:348`): the check looks at files whoever made them, and
   the old instance's termination is not waited for.

Further behaviour met while modelling, about which no comment or test says anything
precise, or which a property above states as it is:

* *Coverage and campaign.* A counter hit 256 times reads as not executed; two objects with
  the same file name share a slot; `save_crash` panics on messages without "..."; a launch
  process that exits between the reading of its status and `waitpid` is reaped by the check and forgotten
  (`target.rs:816`): all later checks pass, and programs go to an application that is not there; an
  object's range keeps the length of the first process that reported it.
* *Monitors.* `event_monitor` returns without looking at anything; the pairs of a topic are
  stored as (size, latency) and read as (duration, size), so that its throughput is
  latency per size and a message of size 0 panics; the first two executions of an edge
  are always interesting; a callback processed twice loses its node's name
  (`callgraph.rs:106`); after a reboot the first trace shows events of the old instance for
  callbacks it has carried over.
* *Memory runtime.* The first return hangs its thread (`lib.rs:192`), and with it what is
  recorded later is in no file (`FirstReturnIsLast`); threads that initialize together drop
  each other's mapping and close each other's connection, so that the server may read a file
  before it is complete, and what is recorded later is in no graph; the mode is set only after the registration.
* *Servers.* A process killed before its first return makes
  `call_num - 1` underflow and poisons the statistics (`evaluation_server.rs:195`); a recording of
  one call makes the average NaN for ever; a process killed while its connection
  is not registered poisons the analyzer; a connection reset before it registered poisons
  `socket2id`; the ticker's row may be written after a newer one.
* *Generation.* Response fields become request fields; names ending in a digit are dropped;
  constants written with spaces become fields; interfaces whose names end alike replace each other
  (Pose); characters that mean something to the text or the shell are printed as they are; a
  field `sec` is printed as an `i16` whatever its type; an interface without fields loses the end of its text; arrays of
  complex types are never filled; the last element of a character array is lost; booleans are always false; elements of
  signed arrays are drawn and printed with the unsigned width (`array.rs:175`); bounded and array
  parameters panic or get scalars; the entry of a node that was silent once is used for ever.

## 6. Not modelled, and the plan

Still open:

1. The rule mapping of the analyzer (longest common subsequence of names, with
   `ENABLE_RULE_MAP`), `shm_to_json`, the branch bitmap and the weighted choice of the
   generator helper: sequential functions without state that other parts rely on, which
   could become operators over small inputs.
2. A composition of `ProgGen` and `TraceRun` into `FuzzCampaign`: each of the three
   alone already takes up to a million states, so that the campaign keeps its choice.
3. Theorems: `OldEventsOnlyCarried`, under the assumption that a handle names one node;
   `StreamFaithful`.

Left out for good: mutation and the values and types it works on (`mutation/`, `corpus.rs`,
`value.rs`, `ty/{int,ptr,group,buffer}.rs`: remains of a system-call fuzzer, not compiled or
without a caller), logging, CPU binding, command-line parsing and the external programs
themselves (ROS, the tracer, `xvfb-run`, `ros2`).
