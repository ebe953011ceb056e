# Specifications of ankerl::unordered_dense

TLA+ modules for the map and set of `include/ankerl/unordered_dense.h` and for the
tools beside it that run for hours on many processes: the mutation tester
(`scripts/mutate`), the AFL++ fuzzing script (`scripts/fuzz_afl.py`) and the LLDB
formatter (`lldb/unordered_dense.py`). TLC configurations check them on small
instances, and TLAPS proofs establish the main invariants for every value of the
constants.

A table keeps its elements in one dense sequence (`m_values`, no holes) and
finds them through an index: an array of groups of sixteen slots. A slot holds
one byte of the key's hash (the fingerprint, 0 for a free slot) and the position
of the value. Each group also has eight overflow counters. An insert that passes
a full group raises the counter its fingerprint picks, an erase takes that back,
and a lookup stops at the first group whose counter is zero. Nothing marks a
deleted slot; everything depends on the counters being exact.

The tools are about something else: threads, child processes, Ctrl-C, files that
are left by a run that was killed. What they report is only worth something if
none of that can turn a survivor into a kill, or lose an input.

## The parts of the system

| part | state | operations | how it interacts | what is hard | what makes it correct |
|---|---|---|---|---|---|
| probe sequence (`group_idx_from_hash`, `next_group`, `fingerprint_word`, `calc_num_groups`) | none | home group, fingerprint, counter, next group | used by every walk over the index | boundaries: the largest array, a fingerprint of 0 | a probe visits every group once; a home is inside the array |
| group index (`place_group` ... `repoint_value`) | slots and counters of each group | place, free, move home, look up, repoint | called by the table, reads `m_values` for key comparisons | counters that saturate; entries that moved since they were counted | every value has one slot; counters count the live entries that passed |
| owning table (`detail::table`) | `m_values`, `m_buckets`, shift, capacity, load factor | insert/emplace/assign, erase, extract, replace_key, clear, rehash, reserve, max_load_factor, replace, merge, copy, move, swap | owns the index; element, hash and allocator are the caller's and may throw | a growth that fails; the value that fills an erased hole; duplicates in `replace` | it is a map; a failed insert has no effect; shift and array agree |
| operations on many elements (range insert, `replace`, `erase(first, last)`, `erase_if`, `merge`) | cursors and a ring of hashes | one element after the other | hash ahead of the element they handle | a ring slot refilled too early; an erase that moves what is still to be seen; a throw in the middle | each element is placed by its own hash; exactly the range goes; no element is lost or doubled |
| group_storage, allocators | array pointer and size, allocator | resize, take, assign, swap | array moves between tables | unequal and propagating allocators | what an allocator gave comes back to it |
| mutation tool: a run | lanes, a queue of mutants, results | prepare lanes, probe, baseline, sweep, report, clean up | one worker thread per lane; child processes; Ctrl-C | a verdict of another mutant; a suite that proves nothing; cleanup under running workers | every verdict is its own mutant's, printed once and in order |
| mutation tool: a lane | a copied tree, a build directory, times | sync, stamp, configure, build, test, cap memory | ninja decides by times; make, meson, cmake remember | a lane kept from a run that was killed | the tests run what is in the lane, and that is the tree |
| mutation tool: the mutants | mask, sites, bug file, options | scan, read, select | text in, mutants out | constructs inside constructs; empty selections; typos | what a lexer calls code; what was asked for |
| mutation tool: its vendored core | checkouts and origins | sync-core.py, the lint | git; siblings' people | dying between two steps | what is pushed carries the hash of its core |
| fuzzing: run, sweep | a fleet of afl-fuzz processes | start, wait, stop | Ctrl-C reaches the whole group; a watcher thread | a start that fails; a watcher that dies | nothing is left running; the script ends |
| fuzzing: minimize | corpus, work directory, build trees | build, collect, cmin, merge, replace | afl-cmin, libFuzzer; fuzzing goes on | stopped between steps; two threads staging one name | no input is lost, no source written to |
| LLDB formatter | children already named | update, count, child at index, index of name | the debugger keeps children | names that collide; segment arithmetic | a child is its element, its name leads back |
| index from outside (`load_index`, `check_index`, `verify`, views) | the bytes that are offered; the table or view made of them | check shape and slots, load, make a table of a view, verify | bytes from a file | an index that is safe and wrong, and is changed afterwards | what passes the check stays safe; what `verify` confirms is right |
| segmented_vector | blocks of elements, size, allocator | append, pop, resize, reserve, shrink, copy, move, swap | can be `m_values` | a throw at any block or element; allocators that are adopted | it holds what a `std::vector` would; blocks and elements go as they came |
| huge_page_allocator, mapped_view, hash functions, SIMD match, plots and benchmarks | - | - | - | - | not modelled, see below |

A table is used by one thread. What is hard there is not concurrency but long
sequences of legal calls, failures between two steps, and the boundaries of
8 bit counters, of the load factor and of the largest array. In the tools it is
interleaving, crashes and time. `PROJECT.json` lists the hazards at their lines.

## Modules

### The table

- `ProbeSequence`: the numbers. Constants give the widths the header fixes
  (slots per group, counters, the largest counter, the largest array, the bits of
  a hash) and an arbitrary hash function. Its assumptions are facts about those
  numbers; TLC evaluates them for every run.
- `GroupIndex`: the index as a value, `[size, slot, overflow]`, and the header's
  operations on it as operators of the same names. A walk is stated by the order in
  which it visits groups (`Distance`, `Passes`), not by a loop. It is a separate
  module because later modules will work with two tables.
- `DenseTable`: one owning map. The variables are the members of `detail::table`
  (`m_group_mask` is the array's size less one, so it is not a variable), and one
  action is one operation:

  | action | code |
  |---|---|
  | `InsertPlaces`, `InsertGrows`, `InsertFinds`, `InsertThrows` | the ways an `insert`, `emplace`, `try_emplace` or `operator[]` ends |
  | `AssignFinds` | `insert_or_assign` of a key that is there |
  | `EraseKey`, `EraseAt` | `erase` and `extract` by key and by iterator |
  | `replace_key`, `Clear`, `ExtractAll`, `max_load_factor`, `rehash`, `reserve`, `replace` | the operations of those names |
  | `FillStep` | one value of `fill_buckets_from_values` |
  | `ReplaceKeeps`, `ReplaceDrops` | one value of the loop in `replace` |

  A growth, a rehash, a reserve and a replace index the values one after the other.
  These loops are one step per value: while `indexed < Len(m_values)` only the next
  step of the loop is enabled. `dedup` tells which loop it is.
- `AbstractMap`: what a map promises, a set of elements with one per key.
  `DenseTable!Map` maps a table to it: the contents are what lookups find.
- `TableTransfer`: several tables that are constructed, copied, moved, swapped and
  destroyed. `tables` has the members of each, with the allocators of its two
  halves, `m_values` and `m_buckets`; `heap` says for every index array who made it
  and what it points at. Elements are a set; lookups and counters are those of
  `GroupIndex` and are left out. Whether allocators propagate on copy assignment,
  move assignment and swap are three constants.

  | action | code |
  |---|---|
  | `Construct`, `CopyConstruct`, `MoveConstruct`, `Destroy` | the constructors, with and without an allocator, and the destructor |
  | `CopyAssign`, `MoveAssign`, `swap`, `Replace` | those operations, with the whole of `copy_everything_from`, `move_everything_from` and the members of `group_storage` they call |
  | `CopyAssignThrows`, `MoveAssignThrows`, `MoveConstructThrows`, `ReplaceThrows` | each ends where the exception leaves the tables |
  | `Insert`, `Clear`, `max_load_factor` | give the tables arrays of both sizes, full, empty and none |

  The value container is a `std::vector`, modelled by its contract. A table that a
  throwing move left half way is marked in `left_by`: its caller may only assign to
  it or destroy it.
- `TableBatch`: extends `DenseTable` by the operations that take many elements. A
  behaviour fills a table (and, for a merge, a second one with a hash of its own) by
  single operations and then runs one batch, one step per element.

  | action | code |
  |---|---|
  | `InsertRange`, `InsertRangeStep`, `InsertRangeEnd` | `do_insert_range`, with its ring |
  | `Replace`, `KeepsAhead`, `DropsAhead`, `ReplaceTail` | `replace`, with and without `do_replace_pipelined` |
  | `EraseRange`, `EraseForward`, `EraseTurns`, `EraseBack` | `erase(first, last)`: from the left up to `mid`, the rest from the right |
  | `EraseIf`, `EraseIfStep` | `std::erase_if`, back to front |
  | `Merge`, `MergeStays`, `MergeTakes`, `MergeEnds`, `MergeThrows`, `Reindex` | `do_merge`, `compact_and_reindex`, `drop_tail_and_reindex` |

  The ring is the key whose hash each slot holds, so that "the hash of another
  element" is a thing the model can say. Whether the ring is used depends on the
  size of the index in bytes, which is left open: both ways are taken.
- `IndexLoad`: extends `DenseTable` by an index that was written elsewhere. The bytes
  are any; what a check lets through is then changed by the operations of `DenseTable`.

  | action | code |
  |---|---|
  | `LoadTable`, `LoadView`, `FromView` | the constructors of a table and of a `map_view` from values and index, and of a table from a view, with `check_index_shape`, `check_index` and its stricter form for tables |
  | `Verify` | `verify(full)`; `verify(spot)` is an operator the properties compare with it |
  | `Erase` | `erase` by key and by iterator, which may end in `on_error_key_changed` with the hole filled and the table unusable |
  | `OtherOperation` | the operations that cannot tell such a table from another |

  A table loaded with `trust::unchecked` is one whose caller vouches for it, that is,
  the table of a check that passes; a view so loaded may hold anything. `replace` and
  `extract() &&` leave nothing of the index that was loaded, and are not repeated.
- `SegmentedVector`: the value container in blocks, several of them, with the
  operations of its class as actions; those that append many elements may fail at each
  block and each element (`Attempts`). `promised` is what a `std::vector` would hold
  after the same calls, the contract by which `TableTransfer` models `m_values`.
- `GroupIndexProofs`, `DenseTableProofs`, `TableBatchProofs`, `IndexLoadProofs` and
  `TableTransferProofs`: the proofs, see below.
- `MCDenseTable`, `MCTablePairs`, `MCIndexLoad`, `MCTableTransfer`, `MCTransfer`: hash
  functions, containers, bytes, ranges, symmetry.

Abstractions. A load factor is a percentage (the code multiplies a `float`). A
hash is any function from keys, so keys may share a home, a fingerprint, a counter
or the whole hash. A value is a model value. Positions count from 1. `InsertThrows`
covers a throwing element constructor, a failing allocation, and
`on_error_bucket_overflow`; in `TableBatch` also a hash or a comparison that throws
in a merge. Moving an element and indexing an array again do not throw.

### The mutation tool (`scripts/mutate`)

- `MutationSweep`: a run. The main thread, one thread per lane, the shared queue and
  results; what building and testing a text comes to is its fate, chosen at the
  start, so that a verdict can be compared with the one the mutant deserves. Each
  child process is a step of its own that writes into the lane while it runs. Faults:
  builds that time out, exceptions of the tool, a Ctrl-C between any two steps. What a
  run is asked and what it finds is `given`; whether a compiler goes on when the ninja
  that started it is killed is a part of that (`given.outlives`).
  `MutationSweepProofs` has the proofs.
- `LaneReuse`: one lane over several runs. `sync_tree`, the stamp on the target, the
  configure step and an incremental build as ninja does it: an object is compiled
  again when a file it was compiled from is newer. The tree is edited, or restored with
  its old times, between runs; a run may be killed after any step. Files are in
  directories (`Dir`): `sync_tree` walks those the tree has, so what was in one that went
  with its last file is left behind in the lane (`LeftBehind`). The build lists the units
  that the tree's build definition names, or all it finds in the lane. A directory is in the
  tree as long as one of its files is, as git has it; subdirectories, which would keep
  one in the walk, are not told apart from it.
- `LaneConfig`: what meson, cmake and make are told, what they remember, and what the
  fingerprint says of it.
- `PreFilter`: from the compile commands (`compile_commands.json`, or make's output)
  to the `-fsyntax-only` command, word by word.
- `CompiledLines`: line markers of the preprocessor, read back to line numbers.
- `SuiteOutput`: what doctest and minunit print, and what the harness makes of it.
- `MemoryBudget`: lanes, jobs, memory caps and room, and the children that run under
  the caps while mutants ask for any amount: the preprocessor, the baseline, and for each
  mutant the syntax check, the build and the tests. Only builds have a cap of their own
  (`build_memory_limit`); the others run under the lane's (`OwnCap`). Memory is counted in
  eighths of a gigabyte, of which a build job is allowed four.
- `CodeMask`, `MutationSites`: two scanners, each against a reference that reads the
  same text by the rules of the language.
- `BugFile`, `MutantSet`: bug files written and read; which mutants the options select.
- `CoreSync`: `sync-core.py` over several runs, and of the lint in the siblings the first
  question: is the recorded hash that of the core?

### Fuzzing and LLDB

- `FuzzCampaign`: `run` and `sweep` of `fuzz_afl.py`: cores, instances, their start, the
  screen, the end. afl-fuzz is external: it calibrates or aborts, fuzzes, saves.
- `FuzzWatch`: the watcher thread of a sweep, in seconds. It polls a count of inputs and
  ends the target when that has not risen for `--idle` seconds.
- `CorpusMinimize`, `StageByContent`: `minimize`, whose runs may be stopped at every step;
  the threads that link or copy inputs to names made of their contents.
- `LldbFormatter`: the children of a table at several stops of the program.

### How they are put together

`MCSweep`, `MCLanes`, `MCSources`, `MCFuzz`, `MCTablePairs` (a table; a table and a batch;
an index that is loaded) and `MCTransfer` (whole tables; vectors in blocks; what a debugger
shows of one) hold several specifications in one run each. These share no variable in the code (a run's lane setup does not
look at the bug file again; the watcher is told nothing by the minimizer), so their
product has no behaviour that the parts do not have, and a behaviour of such a
module is one of a single part: `part` (or `scenario`) is constant, and the variables
of the other parts hold "off". Where parts do meet they are in one module: workers,
main thread and child processes in `MutationSweep`; copying, configuring and ninja in
`LaneReuse`; the two processes a sweep ends by in `FuzzCampaign` (whether a target is
quiet is a choice there, and the subject of `FuzzWatch`).

## Runs

| run | instance | what is checked |
|---|---|---|
| `TablePairs` | 5 keys, groups of two slots, two growing to four groups, load factors 80, 40 and one above 1, shrinking with `rehash(0)`, containers with duplicates; batches on four of the keys with a ring of two: every range of up to three elements over three keys, every container of up to four and those of six over two keys, every `erase` and `erase_if` of tables of up to four, every merge of a table of two and a source of three; a loaded index over three keys and two groups | `ShiftMatchesArray`: no home lies past the array, also when a growth fails; `IndexExact`: one slot per indexed value; `KeysUnique`; `BatchesIndex`: each element is placed by its own hash, and both tables find exactly what they have; `BatchesAreExact`: ranges are what they are, a merge loses nothing; `LoadedIndexHolds`: what passed the check stays safe (`CheckedStaysSafe`), `verify` proves what it says (`VerifyProves`), counters that are too high never matter (`HighCountersAreHarmless`) |
| `TableSingles` | 5 keys, groups of one slot, at most four groups, counters up to 2, load factor 1 | `CountersExact`; `LookupsAgree`: a probe that stops at a zero counter misses nothing; `RoomToPlace`: the walk of `place_group` ends; `SaturatedStays`; `EntriesOnlyMoveHome` |
| `TableIsMap` | 3 keys, 2 values, groups of one slot | `ImplementsMap`: the table implements `AbstractMap`; `LoopsEnd` |
| `Transfer` | two tables, two allocators, two elements and load factors 50 and 100, with allocators that stay and with those that follow a copy and a swap; two vectors of up to three elements in blocks of two, with allocators that stay and that follow; three elements out of eight kinds of keys in the LLDB formatter, and three stops over three kinds, with segments smaller than, equal to and larger than an element | `TablesUsable`; `ArraysAccountedFor`: an array goes back to the allocator that made it; `HalvesAgree`; `SegmentsHold`: contents, elements and blocks are accounted for; `ChildrenLeadBack` |
| `Sweep` | two mutants and two lanes with an exception, with a Ctrl-C, with a timeout; one mutant and one lane with every fault | `VerdictsStand`; `ScoredIsProven`; `PrintedInOrder`; `LanesGo`; `Ends` |
| `Lanes` | two runs and two edits on a lane of three files in two directories, of which one has a single unit; two runs of each backend; two compile commands; files of six lines; suites of four cases; up to three lanes on machines of one, two and four cores, with the caps that may be asked for: none, one the tests do not fit in, one a compiler does not fit in, one that a compiler fits in and a job's allowance does not, ample ones; with and without a syntax check | `TestsRunTheLane`; `LaneIsTheTree`; `LanesAreAsAsked`; `FilterChecksTheFile`; `CompiledLinesStay`; `KillsAreSeen`; `LanesKeepToTheirShare` |
| `Sources` | every text of up to six characters over four alphabets, up to five over seven; bug files of two bugs; files of two lines under every option; two siblings, two runs, one change | `MaskIsCode`; `SitesAreTokens`; `BugsAreAsMeant`; `SetIsWhatWasAsked`; `PushesAreWhole` |
| `Fuzz` | `--idle` of 20 s with looks up to a second late; two targets on five machines, two Ctrl-Cs; five sources with two contents and two threads; two stops of `minimize` | `QuietIsQuiet`; `QuietIsSeen`; `FleetIsRun`; `CorporaAreKept`; `ScriptEnds` |
| `MoveTakesArray` | allocators that follow a move assignment | `ArraysAccountedFor` is violated, see below |
| `SegmentsLeak` | vectors whose copy and move constructors may throw | `BlocksAccountedFor` is violated |
| `MoveThrows` | nothing propagates | `AssignmentGuarantee` is violated |
| `VerifyMisses` | the loaded index of `TablePairs` | `VerifiedStaysCorrect` is violated |

Each property is broken by a slip in the model that a change of the code could
make: the operators whose comment begins "A slip". The comment above
the ring of `replace` (lines 4275-4280) says that its bound has slack on both sides and
may be loosened by one; the model bears that out (with the bound one lower every property
still holds), so no slip is made of it.

### What the bounds are enough for

In `TablePairs` two keys have equal hashes and four share a home, so a group of two
slots overflows, and a group has both a first and a later free lane. In `TableSingles`
the largest array has fewer slots than there are keys: it is filled to the last slot
and the next insert fails as in `increase_size`. Counters reach their maximum (2
instead of 255), stay there, and are left behind non-zero by erases. The load factor
above 1 tests the cap. The containers of `replace` have duplicates in a row and as the
last value.

The bytes that are loaded have up to three full slots with any fingerprint and any
position, for four lists of values with one key twice among them; for two lists they
have each value in any slot and any counters from 0 to the maximum; and there are
empty indexes of every size, aligned and not. Two keys with equal hashes are enough for
a counter that is too low without being zero, and a third for a group that is passed.

In `Transfer` a table can be without an array, have an empty one, or one of either size;
the third array is the one allocated beside an old one. Two tables and two allocators
are all that an operation relates. Tables and elements are symmetric; arrays and
allocators are picked by `CHOOSE` and are not.

Of the batches a ring of two is refilled and wraps around in ranges of three; the
containers of six over two keys are those in which the look-ahead goes on past a duplicate
that was replaced by the last value. A range of four values has one in front of what is
erased, one that moves in from behind and one that does not. A source of three can lose its
first, its middle or its last element, and a merge into two grows the array in between.

A verdict that strays needs one mutant before another in a lane, and a second lane to
be out of order; what a compiler or a suite does with a text is one of six fates and
five suites, and the second scenario has the Ctrl-C in every state of both workers. A
lane needs a unit that includes the target and one that does not, and two runs: what
the second finds is what any later one finds. A fleet needs two targets, so that one
can outlive the other; a machine needs siblings next to each other and apart. A
scanner's constructs begin with at most two characters and end with two, so six
characters hold one, what ends it, and what follows.

### Fairness

- `DenseTable!FairSpec`: `Loop`, the steps of the two reindexing loops. They are
  straight-line code of an operation that has not returned, and nothing blocks there.
  Operations themselves are never fair: a caller may stop.
- `MutationSweep`: the main thread and each worker. They wait for child processes that
  run under a timeout, and for each other; a Ctrl-C is never fair. The baseline's test
  run has no timeout of its own, so the fairness assumes that the suite ends (a tree
  whose own suite hangs hangs the run).
- `FuzzCampaign`: the script's own steps, the watcher's decision, and the end of the
  instance with the screen once it is told to stop; instances need not calibrate, find
  or end by themselves. `FuzzWatch`: time goes on, the thread is scheduled, and the
  main thread returns from its wait.

## What disagrees

Four runs end in a violation, each a disagreement of the header with its comments:

- `MoveTakesArray`. `move_everything_from` (line 2871) compares allocators after
  `m_values` was moved. If allocators propagate on move assignment and were
  unequal, they are equal by then, and `take()`, meant "only for two storages with
  equal allocators", hands over the array without its allocator. The array will be
  given back to an allocator that has not made it. The tests use such an allocator
  for the move constructor only, and `huge_page_allocator` always compares equal.
  `replace()` (line 4251) with such a container leaves the index on the old allocator, as
  that move assignment does (`HalvesAgree` does not hold with `Pocma`). Copy assignment
  avoids just that, and its comment says why.
- `SegmentsLeak`. The copy constructors of `segmented_vector`, and its move constructor
  between unequal allocators, append in their bodies (lines 1300 to 1322). They do not
  delegate, so no destructor runs when an element or a block throws: the blocks made by
  then are never given back. (A program with an element that throws on its fifth copy
  shows it.) Assignments and `resize` leak nothing (`ConstructorsThrow` is FALSE there).
- `MoveThrows`. With allocators that do not propagate, a move assignment may fail to
  allocate the index after the other table's values were cleared (line 2888). The
  table assigned to is reset; the other one keeps an index to values it no longer
  has.
- `VerifyMisses`. "Only `verify(verify_level::full)` makes them correct" (line 3998) and
  "a counter too low fails a lookup here" (line 4993). A counter that is too low but not
  zero fails no lookup, so `verify` confirms such an index; the next erase
  that takes this counter down makes it zero, and another value is no longer found. With
  counters that are not too low what `verify` confirms stays right
  (`HighCountersAreHarmless`).

The tools do what their comments deny in a number of places as well. They are set
aside by a constant, a scenario or a case of the property, each at its definition, so
that the properties say what does hold:

- A build's timeout stops ninja and not the compilers it started, one of which may
  write its object into the next mutant's build (`given.outlives`). A build that runs
  into its timeout is reported as `compiler`. A second Ctrl-C, or a compiler left over,
  leaves a lane behind. `--baseline-runs 0` is accepted, and then nothing is proven before
  it is scored. An `OSError` ends the process with status 1, the status of
  survivors.
- `code_mask` takes a name that ends in `R` before a string for a raw string
  (`NamesEndInR`), the `'` of `1'000` for a character literal, and ends a line comment
  at a newline that a backslash continues. `mutation_sites` mutates the sign of an
  exponent (`Exponents`).
- An old text that matches itself shifted counts as matching once. `--lines` is ignored
  when it names no line, and together with `--diff`. Without `--merge-base` the diff can
  be too narrow as well as too wide. The last line of a statement over two lines is
  deleted alone.
- "A file deleted from the repo has to go, or it keeps being compiled" (`mutate_core.py`,
  line 1028; the test at `test_mutate.py`, line 1514, says the same and deletes a file of
  the root). `sync_tree` walks the tree's directories (1012) and deletes from those (1031),
  so a file stays in a kept lane when its directory went with it. A build definition that
  collects its sources compiles such a unit, and such a header can still be included
  (`LeftBehind`). `LaneIsTheTree` and `TestsRunTheLane` except such files.
- A build is never capped below 512 MB a job, because "a cap under that would report `oom`
  for every mutant" (`mutate_core.py`, lines 1103 to 1107), and a tight `--memory-limit` is
  said not to break what a build needs (1171). The syntax check is a compiler as well and
  names no cap (1899), so `_run` gives it the tests' (1964): under a limit that the suite
  fits in and a compiler does not, the baseline is green and the check scores every mutant
  `oom`. `HonestChildrenFit` excepts such limits. The preprocessor runs under that cap,
  too; when it is stopped no mutant is dropped, which is harmless.
- `sccache` stays in front of the syntax check; a borrowed command may be another
  target's. Mutants on the later lines of a macro call are dropped as not compiled. A
  passing case that prints ERROR is named when another one fails.
- A kept lane still has the sanitizer of an earlier run, and the fingerprint does not
  say so; for make it names the last of `CC` and `CXX`; an exported `UBSAN_OPTIONS` keeps
  `halt_on_error` out.
- `sync-core.py` decides on the checkout before it fetches and may overwrite a newer
  core. It compares working trees (line 90), so that after a run which died between copying
  and pushing all copies match although nothing was pushed; the property is about what is
  pushed.
- A sweep whose start fails half way leaves instances running (`StartFailures` is 0 in
  that part). A resumed directory's old `fuzzer_stats` is taken for a sign of life
  (`Resumed`). A count that comes out short hides a find for good (`ShortCounts`). A stop
  while the corpus is being replaced loses inputs (`StopsReplacing`). Staging across
  filesystems may write through a link into a source.
- The LLDB provider tells the debugger that children of an earlier stop are still good;
  the property is about the children made at this stop. A segment size that the type's
  name does not tell is guessed (`TypeNameTold`). An enumerator that ends in `L` loses
  its last letter.

## Proofs

### The table

`DenseTableProofs` proves, for every value of the constants that satisfies the
named assumptions, `Spec => []P` for `TypeOK`, `ShiftMatchesArray`, `IndexExact`,
`CountersExact`, `KeysUnique`, `LookupsAgree` and `RoomToPlace`. (`TypeOK` is proved and
therefore not a property of a run.)

They follow from one inductive invariant, `TableInv({0})`:

- `ScalarsOK`: types of the scalars; the loop position is within the values;
- `SizedOK`: the array there is, or the sentinel, is the one its shift describes, and
  has slots for as many values as the capacity and the running loop need;
- `IndexOK`: the index is exact, slots and counters (`IndexFor`), over the values at
  positions `1 .. indexed`;
- `KeysUnique`.

None of the checked properties is inductive alone. Slots stay exact only if a
lookup is right, because an insert appends on a miss; a lookup is right only if the
counters are exact; the counters stay exact only if an entry's slot and its
value agree on the key; and the walk ends only if the capacity is below the slots.
`IndexFor` over a prefix of the values is what lets the same lemmas serve an
operation and the middle of a reindexing loop.

The module also proves `SaturatedStays` and `EntriesOnlyMoveHome`, the two properties
of single steps, from the same invariant: `StepKeeps` is shown for each kind of step
(placing, finding, erasing, re-keying, the loops), and those that start from an empty
array keep it because `indexed` is 0 after them.

And it proves `ImplementsMap`: the table, seen through its lookups,
is an `AbstractMap` for every hash, every size and any set of keys. The mapping is by
lookups (`LookupContents`, or nothing while a loop runs), the steps write `m_values`;
`ContentsHeld` joins the two: where the index is exact over all values, the contents
are `HeldBy(m_values)`. Each action then has one lemma saying which step of the map it is:
`InsertPuts`, `AssignAssigns`, `EraseRemoves`, `ReplaceKeyRenames`, `EmptyingClears`,
`ReplaceLoads`, `KeepSettles`, `DropSettles`; reindexing one more value is a stutter.

`GroupIndexProofs` has the lemmas on the operators: placing, freeing, moving home
and repointing each preserve `IndexFor` (`PlaceKeepsIndex`, `EraseKeepsIndex`,
`MoveHomeKeepsIndex`, `RepointKeepsIndex`), an empty array is one (`EmptyIndex`), and
a probe of one is right (`ProbeFinds`). A counter is the cardinality of a set of
slots, so that one placed entry changes it by one; a saturated counter is exempt. How
much too high a counter may be besides is a parameter of the invariant, `slack`: `{0}` for
a table that was built here, whose counters are exact, and `Nat` for one that was loaded.
No lemma needs more of `slack` than that it is a set of numbers with 0 in it.

The assumptions are those of `ProbeSequence` and `TableAssumption`. Two of them are
arithmetic the provers cannot do by induction and TLC evaluates for each
instance: that triangular steps visit every group of a power of two once
(`ProbeAssumption`), and that one less shift doubles the array
(`GroupsAssumption`).

### Operations on many elements

`TableBatchProofs` proves `BatchesIndex` and `BatchesAreExact` for every two hashes, every
depth of the look-ahead, every range and container, and tables with any number of elements;
and that a batch is a behaviour of `DenseTable` (`BatchIsSingleSteps`), so that all that is
proved of a table holds in the middle of a batch, too, and `ImplementsMap` with it.

That needs for each loop what it has done by the element it has come to, in terms of what
the batch was called on. `BatchInv` is these, the table's own invariant, and the source's:

- `InsertOK`, and `HasTaken` for a range or a source: the keys are those of before and of the
  first n elements, and of those with a new key the first was taken. `Ahead` says which
  slots of the ring hold the hash of which element; it lasts because positions that are
  less than `Depth` apart have slots of their own, and those `Depth` apart share one
  (`RingSlots`, the one fact about `%` that is needed).
- `ReplaceOK`: the table has every key of the container, from one of its elements. The window
  of the look-ahead lies within what has not been looked at, which is why the last value may
  take a duplicate's place without the ring noticing (`WindowMoves`, `DropsAheadKeepsIt`).
- `EraseRangeOK`: which value is at which position while the range is being filled from
  behind (`FilledTo`), and how many are left to the right of it. When the cursors meet
  these are the values before the range, and those behind it in some order (`RangeIsGone`).
- `EraseIfOK`: the values up to the cursor are untouched, those behind it are the ones the
  predicate was not true of, and what it was asked about is the original sequence from the
  end (`RemainsStep`).
- `MergeOK`, with `StayedInOrder`: of the source's first elements those whose key was there
  have moved up, in order, and from the cursor on it is as it was. `Closes` is what the
  loop leaves, however it ends, and `EachInOne` says that each element is then in exactly
  one of the tables, or is the one that was lost in placing.
- `SourceOK`: outside of a merge the source satisfies the invariant of `DenseTableProofs`,
  used here with its variables and its hash. While its elements move it does not, and only
  its sizes are known (`SourceLent`), unless nothing has moved: `drop_tail_and_reindex`
  leaves such an index alone, and may. Otherwise it is emptied, and what is left fits.

No property is inductive alone: that a merge keeps every element needs that probes are right
in the middle of it, that needs the hash of the element at hand to be its own, and that needs
the ring to be where the cursor is. `BatchAssumption` says of the source's hash what
`HomeAssumption` and `FingerprintAssumption` say of the table's. Elements from before the
batch have the value 1 and those of the source the value 2, which tells the two apart; the
keys, of which there may be any number, are any.

### An index from outside

`IndexLoadProofs` proves, for bytes of any content, the three parts of `LoadedIndexHolds`:

- `CheckedStaysSafe`. A table whose bytes passed the check may have wrong fingerprints,
  wrong counters and keys twice, so nothing of `TableInv` is given but that the index
  points at every value once. That is `OnceFor`, and `Sound` is the invariant made of it
  and of the sizes. Placing, freeing, moving home and repointing keep `OnceFor`
  whatever fingerprints and counters hold (`OncePlaced`, `OnceErased`, `OnceMovedHome`,
  `OnceRepointed`), and every operation keeps `Sound`. The check counts the full slots and
  finds no two that point at one value; that all values are pointed at is the pigeonhole
  of `CheckedIsOnce`.
- `VerifyProves`. A key that finds its own value makes a map from values to full slots,
  an injection, and therefore a bijection when there are as many of each
  (`FullVerifyIndex`): nothing was assumed of fingerprints, and all of them are right. The
  positions of a spot check are values (`SpotsAreValues`), and all of them if there are no
  more than it looks at (`SpotsAreAll`).
- `HighCountersAreHarmless`. With counters that are not too low the two make `TableInv(Nat)`
  (`VerifiedIsTable`), which every operation of `DenseTable` keeps; an erase then always
  finds the slot to repoint (`ErasesGoesOn`), so that the table never becomes unusable.

What is not in the invariant is what `VerifyMisses` shows to be false: that `verify(full)`
alone is enough.

### A lane kept from run to run

`LaneReuseProofs` proves `TypeOK`, `TestsRunTheLane` and `LaneIsTheTree` for any set of
units, in any directories, any texts, and any number of runs, edits and mutants. Both
except what was left behind in directories the tree has no more (`LeftBehind`): nothing is
said of what such a file holds, and it may be on the build's list. Every other file says
what the tree says, and a unit of the tree is always on the list. The assumptions are
`ReuseAssumption` and `DirAssumption` (every file has a directory). Neither property is
inductive: that the tests run what is in the lane follows from what the build knows.
The invariant adds `Shapes` (what is recorded of objects and the binary has the right
form, and a new lane has none), `ObjectsKnown` (an object that ninja would not compile
again was compiled from what is in the lane now, except, until the stamp, those that
read the target), `BinaryKnown` (the same of the link), `ListKnown` (the build knows
the units of the tree, and others only if they are in the lane and left behind) and
`TextKnown` (a file that setup has visited says what the tree says, or is left behind).
`LeftIsGone` and `VisitedUnits` take the one to the other. The exception in `ObjectsKnown` is why the stamp is needed: an object made
from a mutant may be newer than the target that `sync_tree` has put back.

### The watcher of a sweep

`FuzzWatchProofs` proves `TypeOK` for all constants and, assuming that counting misses
nothing (`~ShortCounts`), `QuietIsQuiet` and `QuietIsSeen` for every `--idle`, lateness
and number of finds. `CountIsRecent` relates the watcher's variables to the disk: an
input it has not counted is no older than its last count. `LooksInTime` bounds how far
the clock is past a look.

### Tables that are copied, moved and swapped

`TableTransferProofs` proves for any number of tables, elements, allocators and arrays:

- whatever propagates, `TablesUsable`: the array of a table that is not left unspecified
  points at the values it has, and shift, mask and capacity are those of that array; and
  `NoArrayIsLost`: arrays handed out are those that existing tables hold, each once,
  also after a throw;
- `HalvesAgree` and `ArraysAccountedFor` under the hypothesis `AllocatorsStay`: allocators
  do not follow a move assignment, or all of them are equal (`std::allocator`). Without
  it `ArraysAccountedFor` is what `MoveTakesArray` violates.

The invariant is the type, `Held` (who has which array) and `Usable`, with `AllOwned` (an
array goes back to the allocator beside it, which is that of the values) where
`AllocatorsStay`. None is inductive alone: a copy into a table is right because the array
it takes is in no other table's hands. Every operation is shown to be an `Exchange`
between one or two tables: the arrays they had are theirs or free again, those
they have now were theirs or free, no other is touched. `Handover` proves once that this
keeps the invariant. Two facts need counting: that a free array can be found
(`FreshIsFree`, a pigeonhole argument over `Held`), and that `calc_shifts_for_size` comes to
the first size that fits (`LeastOf`, from the theorem that strict subsets of a finite set
are well-founded). `ShiftsAssumption` says that every size up to the largest is a number of
groups, and that only the largest array has the shift 0.

### A run of the mutation tool

`MutationSweepProofs` proves all four safety properties of the run for any number of
mutants, lanes and baseline runs, and any number of timeouts, exceptions and Ctrl-Cs:
`VerdictsStand`, `ScoredIsProven`, `PrintedInOrder`, `LanesGo`. The invariant, `IInv`, has one
part per question, and each has a lemma of its own:

- `OnceOK` and `CoverOK`: a mutant is in the queue, in one worker's hands, or in the
  results, and never in two of them; while the sweep goes on, or has ended by itself, all
  that were not dropped are in one. Every step takes the first of the queue, records,
  fills the queue or leaves all three alone (`Moves`).
- `LaneOK`: a worker that has a mutant in hand has its text, then its object, then its
  binary in the lane. This holds during the sweep and not after a Ctrl-C, whose verdicts
  are never printed; `Scoring` says when they count.
- `StagesOK`: which workers can be where in each phase of the main thread. After a
  second Ctrl-C nothing is known of them, so those parts hold up to the first one.
- `ProvenOK`, `GoodOK`: what probe and baseline have shown by the time a phase begins.
- `DirsOK`: a lane that is not on the list of those to be deleted is gone.
- `ResultsOK`, `HolesOK`: what is recorded is earned, and exit status 0 owns up to holes.

That the sort yields each result once, in strict order, needs that a sorting permutation
exists, which is `Listed`: a finite set of numbers has an increasing enumeration (by
the number of members up to each). `CompiledIs` takes the list of the mutants that are
compiled from the same lemma. `VerdictsStand` excludes runs in which a compiler outlives
its build, and suites that are flaky, for which no verdict is deserved.

### Assumptions and limits

The proofs use the named assumptions of the modules, which TLC evaluates in every run.

Model-checked only: all properties of `SegmentedVector` and of the smaller modules (of
`LoadedIndexHolds` the parts are proved, each under its name in `IndexLoad`); `LoopsEnd`, `Ends` and `ScriptEnds`, because liveness under fairness
is beyond the proof system. What the scanners compute for texts of every length would
need induction over data with an operator as the induction hypothesis, which the provers
cannot instantiate (a least element of a set of numbers, as in the two modules above,
they can), so `CodeMask`, `MutationSites` and their like are checked over bounded texts.

## Not modelled

- In the table: a throw out of `replace()` after the index was emptied, out of
  `shrink_to_fit`, or out of a move of an element (lines 4251, 5059, 3190); `emplace()` of
  pieces whose hash throws after the value is there (4412); a key changed through an
  iterator (2730), whose consequence `on_error_key_changed` is modelled for a loaded
  index. The code does not say what it owes its caller there, or says that
  the caller must not. `merge` from a table with another key comparison.
- The bulk visit (3778) and the ring of `fill_buckets_from_values`: both hash ahead
  over values that do not change, and are modelled by their effect. A callback that
  changes the map during a bulk visit is not.
- The iterators of `segmented_vector`, which compute indices, and the order in which it
  destroys: last first, for the sake of the allocator.
- Hash functions: 64 bit mixing has no bearing on the properties, which hold for
  any hash. SSE2 and NEON matches: modelled by their result, the set of equal lanes.
- File mapping and huge pages: the operating system's.
- Thread safety of the table: the library promises none.
- The rest of the lint for a vendored core: whether the sibling's adapter fits the core
  (`lint-mutate-core.py`, lines 60 to 84) and `--help` runs (86 to 93). Nothing in
  `sync-core.py` looks at the adapter, so a core that asks more of it is pushed and fails
  there; only the hash is a claim of `PushesAreWhole`.
- Wording: how verdicts, names and reports are rendered, sizes parsed, times estimated.
  A tmpfs that holds the lanes takes memory too, and `MemoryBudget` does not count it.
- The gdb and natvis views, plots, dashboards, benchmarks, `build.py` and most lints: they
  draw, measure or call one command after another.

## What comes next

1. Proofs: `SegmentedVector` (what its blocks promise), then `MemoryBudget` and
   `FuzzCampaign`.
2. `ThrowingTable`: element moves and `shrink_to_fit` that throw, a key changed through
   an iterator.
3. The bulk visit with a callback; pure algorithms over bounded
   inputs: `match_zero_bytes` on words, rounding to huge pages, the header of a mapped file.
