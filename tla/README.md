# csv2: a TLA+ verification project

csv2 is a header-only C++11 CSV reader and writer. Around the library the
repository keeps a benchmark harness whose Python tools produce evidence files,
the scripts of its continuous integration, and the one that makes the single
header. This directory specifies the parts whose correctness is hard to test, checks
them with TLC and proves the central ones with TLAPS.

## Inventory

### The library (`include/csv2`)

| Component | State | Operations | Hard part | Correct when |
|---|---|---|---|---|
| Record scanner, `detail/scanner.hpp` | none: locals of one call | `find_record_bounds` | a `memchr` path and a loop for one definition; look-ahead at the last byte; a quote policy that may be LF or CR | every call returns the record of the definition, from any start |
| Cell scanner, `detail/scanner.hpp` | none | `find_cell_bounds` and its scalar loops | three ways of scanning; look-ahead at the end of a row that is not the end of the buffer; delimiter equal to quote; the `escaped` flag | it returns the cell of the definition |
| `RowIterator`, `rows()`, `RowIndex`, `CellIterator`, `reader.hpp` | a position each | increment, dereference, comparison with the end | loops that advance by what a scanner returned; boundaries at empty lines and a final delimiter | nothing is skipped or repeated, the three walks agree, each ends |
| Source of a `Reader`, `reader.hpp` | `mmap_`, `owned_buffer_`, `buffer_`, `buffer_size_` | `parse`, `parse_borrowed`, `parse_owned`, `mmap`, moves, destruction | sources that lie in the very storage being replaced; moves between Readers that view each other; failures half-way | every view stays valid, every block has one holder |
| Cell access, `reader.hpp`, `detail/output.hpp` | none | `read_value`, `decode_to`, `copy_content_to`, views | three decoders, chosen by length and container, and none for a cell that was not flagged | all give the decoded cell |
| Validation, `detail/validation.hpp` | none | `validate_csv` | trimming must not hide structural bytes; offset of the first error | it accepts exactly the grammar and points at the first error |
| Integer conversion, `detail/conversion.hpp` | none | `try_parse` | overflow in narrow types, the most negative value | the value, or the right error and offset |
| Writer, `writer.hpp` | `stream_`, `active_` | `write_row`, `write_rows`, `close`, moves | ownership of a shared stream; failing field formatting; what may stay unquoted | the stream is closed once; what is written reads back |
| Memory mapping, `mio.hpp` | descriptor, mapping, who opened it | `map`, `unmap`, `sync`, moves | remapping through one's own descriptor; strong guarantee on failure | each descriptor and mapping is released once |

The scanners are pure and are called by the iterators, by `rows()`, `index()`
and by validation. A `Reader` hands its `buffer_` and `buffer_size_` to the rows
and cells it creates, which view it; nothing is locked and nothing is
notified. All library code runs in the thread of its caller.

### The benchmark tools (`benchmark/tools/csv2bench`)

| Component | State | Operations | Hard part | Correct when |
|---|---|---|---|---|
| Atomic publication, `atomic.py` | files | stage, replace or link, sync, discard | failing calls, crashes, power loss | a name holds a whole document or nothing |
| Evidence finalizer, `evidence.py` | two output files, seven input files | load, verify, assemble, verify again, publish | competing invocations; inputs that change; an interruption between two publications | a bundle implies its manifest; nobody overwrites; success is durable |
| Runner, `runner.py` | a report and its manifest | measure, rewrite the report, complete or fail | a crash or failure between report and manifest | a manifest vouches for the completed report |
| Artifact identities, `artifacts.py` | none | identity, comparison | a file that changes while it is read | a change is noticed |
| Protocol, statistics, derivation, builds, machine, metrics | documents | validate, compute, collect | large schemas | the documents are consistent |

The runner writes the reports the finalizer reads; both go through `atomic.py`.
They are separate processes that share only the file system.

### The CI tools (`.github/workflows`, `tools/ci`, `cmake`)

| Component | State | Operations | Hard part | Correct when |
|---|---|---|---|---|
| Comparison range, `resolve_comparison.py`, and patch check, `check_patch_whitespace.py` | commits of a checkout | resolve, fetch, compare | two jobs with a checkout each; commits that are gone after a forced push; shallow histories | every job looks at the patch of the event or fails |
| Change classification, `classify_changes.py` | owners selected so far | select, emit | order of the rules, documents in data directories, diffs that git cannot give | no owner that reads a changed file is left out |
| Test inventory, `verify_ctest_inventory.py` | none | read manifests, compare | lists that are wrong in one place and right in another | the tests of a label are those of the manifest |
| Fuzz runner, `run_fuzz_targets.py` | status of both targets | run, record | one target must not hide or stop the other | both run; both count |
| Workflow and gate, `ci.yml`, `evaluate_gate.py` | results of the jobs | start, skip, cancel, decide | skipped is fine for one job and not for another; the gate after failures | a gate that passes vouches for the patch |
| Source packaging, `csv2-package-source.cmake.in` | lock, stage, two archives | copy, archive, rename | concurrent runs, a crash between the renames, edits meanwhile | the pair is of one run |
| Archive verification, `verify_source_archives.py` | expanded trees | compare, expand | archives that are opened twice without a lock; what an earlier run left | what is accepted is whole |

The classification puts out which owners' jobs have to run; the jobs run the
other scripts and the gate reads their results. Jobs share nothing but those
outputs. Packaging and verification share the output directory.

### The rest

The generator of the single header, `utils/amalgamate/amalgamate.py`, keeps the
files it has included and recurses over include directives; it is right when the
single header means what the headers mean. The benchmark kernels, the vendored
test framework and its updater are listed in `PROJECT.json` with the reason they
are not modelled.

## The modules

| Module | Models | Uses |
|---|---|---|
| `CsvBytes` | bytes, policies, the definitions of record and cell | |
| `CsvBytesTheorems` | lemmas about positions, quote parity and those definitions | `CsvBytes` |
| `RecordScan` | `find_record_bounds`, called with any start | `CsvBytes` |
| `RecordScanProofs` | the scanner, the walks and their refinement, proved | `RowScan`, `CsvBytesTheorems` |
| `RowStream` | abstract: what iterating over a Reader delivers | `CsvBytes` |
| `RowScan` | `begin`/`RowIterator`, `rows`, `index` as clients of the scanner | `RecordScan`, refines `RowStream` |
| `CellScan` | `find_cell_bounds` and `CellIterator` | `CsvBytes` |
| `CellAccess` | trimming, decoding and unquoting of a cell | `CellScan` |
| `CellProofs` | the scanner, the split of a row, the decoders, the round trip and the conversion, proved | `RoundTrip`, `CsvBytesTheorems` |
| `Conversion` | `try_parse` in fixed-width arithmetic | `CellAccess` |
| `WriterText` | what a quoting writer puts out for a row | `CsvBytes` |
| `RoundTrip` | the iterator on arbitrary rows, numbers, and rows a writer put out | `Conversion`, `WriterText` |
| `ReaderSource`, `MCReaderSource` | source selection, moves and release for several Readers | |
| `PairPublication` | abstract: publishing a bundle with its manifest | |
| `EvidencePublish` | the publication half of `finalize()` | refines `PairPublication` |
| `RunnerReport` | report and manifest of benchmark runs | |
| `EvidenceInputs`, `MCEvidenceInputs` | the loading and verifying half of `finalize()`, beside runs | `EvidencePublish`, `RunnerReport` |
| `EvidenceProofs` | the publication and the inputs, proved | `EvidenceInputs`, `PairPublication` |
| `CsvGrammar` | abstract: the valid sources and the first error of the others | `CsvBytes` |
| `Validation` | `validate_csv`, `validate_cell` and their trimming | `CsvGrammar` |
| `ReaderProofs` | the ownership of sources, and validation, proved | `ReaderSource`, `Validation`, `CsvBytesTheorems` |
| `MmapHandles`, `MCMmapHandles` | descriptors and mappings of `basic_mmap` | |
| `MmapHandlesProofs` | its invariants, proved | `MmapHandles` |
| `ChangeClassification`, `MCChangeClassification` | `classify_changes.py` | |
| `ResolveComparison` | `resolve_comparison.py` | |
| `CTestInventory` | `verify_ctest_inventory.py` | |
| `FuzzTargets` | `run_fuzz_targets.py` | |
| `CiPipeline`, `MCCiPipeline` | `ci.yml`, the patch check and the gate | the four above |
| `CiPipelineProofs` | the classification, the fuzz targets, the jobs and the gate, proved | `CiPipeline` |
| `Headers` | the headers, and the files that a compiler reads | |
| `Amalgamation` | `amalgamate.py` | `Headers` |
| `Translation` | a compiler at the headers: what the single one promises | `Headers` |
| `SingleHeader`, `MCAmalgamation` | a compiler at the single header, which refines `Translation` | `Amalgamation`, `Translation` |
| `SourcePackaging` | the target `package_source` | |
| `SourceArchives`, `MCSourceArchives` | `verify_source_archives.py` beside packaging and edits | `SourcePackaging` |
| `DistributionProofs` | packaging, what is accepted and what the single header has, proved | `SourceArchives`, `SingleHeader` |

### Bytes: `CsvBytes`

The scanners compare bytes only with the line feed, the carriage return, the
delimiter and the quote. The alphabet is those plus one byte that stands for
all others. `Record` and `Cell` define the result without a loop: a position is
outside quotes when an even number of quotes precedes it, a record ends at the
first line feed outside quotes, a cell at the first such delimiter. The
definitions do not translate code; they are what the code is checked against.

### `find_record_bounds`: `RecordScan`

`buffer` and `buffer_size` are the source. `pc` says whether the function is
about to start (`enter`), in its loop, or about to return; `i` and
`quote_opened` are the loop's locals. What `memchr` finds is a quantified
position: `FirstLineFeed`, `QuoteFree`. `PastEnd`, `FastRecord`, `FastRest` and
`EnterLoop` are the ways through the code before the loop, and
`SkipDoubledQuote`, `ToggleQuote`, `EndRecord` and `Content` the branches of
one iteration. The C++ functions do not return the start; `bounds.start` is
carried along so that a row is one record.

`RowScan` replaces the arbitrary caller of `RecordScan` by the three real ones. A behaviour runs
the iterator, then `rows()`, then `index()`. `Advance` is the loop condition they
share, and `ignore_empty` their argument.

### `find_cell_bounds` and `CellIterator`: `CellScan`

The row is any range of the buffer, with bytes after it. The constant
`PrefixSize` is 64 in the code; with 2, buffers of six bytes already take the
prefix, the `memchr` tail and the loop. The two scalar functions have the same
loop and differ in how it is entered, which `EnterLoop` takes as arguments.

### What is done with a cell: `CellAccess`, `Conversion`, `WriterText`, `RoundTrip`

These functions are pure, so they are operators on the cell that `CellScan`
returned; loops are recursive functions. `CellAccess` has the two decoders of
`output.hpp`, the one of the iterators, and the choice among them: `ShortSize`
is 64 in the code. `Folded` says without a loop what decoding means, and
`ReadersAgree` that every way gives it, also the one that skips decoding because
`find_cell_bounds` left its flag unset.

`Conversion` computes in a type of `Width` bits: `Wrapped` is applied where the
code casts to the unsigned type, and `TwoTo` has the powers of two up to it. A digit
is named by its value. The early returns that find no digit are one case, as they
give one error. `Said` is the reference, over texts, in unbounded integers and
without a test for overflow; it reads the content that `copy_content_to` gives, so that `ConvertsTheContent` is about the whole way from
the scanner's flag over trimming and unquoting to the number.

`WriterText` is the text of a row, for fields that are texts and a stream without
a width. `RoundTrip` starts the iterator on three kinds of sources. In the third
one the source begins with a row that a writer put out, and one more byte may
follow: the reader must find the end of the record where the row ends, and the
fields that were written. A single empty field with minimal quoting is an empty
record, which the comment in `test/fuzz/writer_roundtrip.cpp` names as the one
exception.

### Sources: `ReaderSource`

Memory is a short line of addresses, so that "inside", "just after" and "in
another block" are all there. A string occupies one address more than its size,
its terminating zero. Mappings have whole pages, without a tail. `parse_owned`
and `mmap` are two steps, acquiring the new storage and replacing the old,
because what they read may lie in the old one and the first step may fail.
`noexcept` operations are one step. The caller's obligations of README.md
("Borrowed address and extent must remain valid") are guards: a Reader is not
destroyed or given another source while a second one views what it holds. They
do not forbid a Reader to be given a piece of its own source.

### Publication: `EvidencePublish`

Each attempt is a process at `pc[a]`, one step per file-system call, and
attempts interleave. `names` is the directory as processes see it, `disk` the
one that survives a power loss: an entry gets there by the sync of its directory
or because the kernel writes it back. `CallFails` is an exception out of any
call, `Kill` the end of the process, `PowerLoss` of all of them; attempts that
had not started run afterwards, as retries do. An attempt's paths are any two
distinct ones, so one may want as bundle what another wants as manifest. The
directories of the paths may be missing: `stage_json` makes them (`MakeDirectory`), and
publication syncs a directory but never the one that a new directory was entered in. So
`made` are the directories there are, `kept` those that a power loss would leave, and
`established` those that were kept from the beginning; a power loss takes a directory
that is not kept with all that is in it (`Surviving`). `home` is the directory of a
path. One directory stands for itself and those made above it, and the write-back by the
kernel is all that keeps it: that is at least as bad as any file system is. The
model is that of POSIX: on Windows `publish_staged` does not sync the directory
and makes no promise about power. A cleanup whose `unlink` itself fails is left
out: it leaves a temporary file and changes nothing else.

### Reports and their finalization: `RunnerReport`, `EvidenceInputs`

A file is named by its version: who wrote it, with which status, after how many
cases, for which executables. No two writes leave the same version, as the time of
a file is part of its identity. An identity has the version that `stat()` saw
and the one that was hashed; a write in between makes them differ.

`RunnerReport` has one step per write of `main()` and per look at a file.
`CallRaises` is any exception of the `try` block, before or after the call took
effect, `ReportFailure` its handler, whose own write may fail, and `StopRun` a
kill. `Rebuild` replaces the executables at any time. `one_by_one` says whether
runs for one path overlap, which nothing in the code prevents;
`ManifestVouches` needs it.

`EvidenceInputs` puts the looks of `finalize()` before the steps of
`EvidencePublish`: `Load` lists those before the outputs are seen to be absent,
`Reverify` those after it. One report with its manifest stands for the three, and
for the corpus; the executables for everything that a manifest identifies.
`current` is history: whether at some time, since the outputs were seen to be
absent, the files were together those that were loaded. That the code verifies
every identity twice at the end, before and after the dependencies, is what
`EvidenceWasInPlace` rests on. Publication can still come after the
inputs changed again; the bundle then holds the identities of what it was made of.

### Validation: `CsvGrammar`, `Validation`

`validate_csv` works in three layers: records, cells in a record, and a cell's
bytes less those the policy trims. `CsvGrammar` says what it should come to as
one automaton that reads the source once and stops at the first byte that
cannot be right. The two share no definition but the alphabet. `Validation`
takes the scanners by what `RecordScan` and `CellScan` establish, `Record` and
`Cell`; a step reads a record, reads a cell, or validates one. `ValidateCell`
and the operators before it are `validate_cell` and its helpers, the loops over
a cell being a minimum or a maximum over its positions. A Reader has any of the
`TrimPolicies`, which are sets of bytes, as `trim_characters` has.
`GrammarAssumption` keeps the quote apart from the separators, as the automaton
needs four roles. `Reading` is the automaton after each number of bytes, and
`Errors` what it has found at the end. The policies of the library trim within the cell, so the
branch for bounds outside it is left out.

### Mappings: `MmapHandles`

`descriptors` is the process's table, by who opened each number, `regions` what
`munmap` has still to undo, and `mmap` the members of each `basic_mmap`.
`map(path)` is two steps after `open()`, because the guard closes what could not
be mapped; everything else is one step. A handle passed to `map()` is open. The
caller may close its own descriptors while an object still names them, and the
next `open()` may give out the same number. `sync()` changes no state.

### The CI workflow: `ChangeClassification`, `ResolveComparison`, `CTestInventory`, `FuzzTargets`, `CiPipeline`

`ChangeClassification` is one call of `classify_changes.py`: a step reads the
diff or fails to, then each path of the loop is a step, and the early returns
are steps that emit. A path is its components with the kind of its suffix, so
that "under a prefix" is a relation of sequences; `OwnerRules` keeps the order of
the `if` statements. The properties do not repeat those rules: `Inputs` says what
each owner's jobs build and read, from the workflows and the CMake files, and
`DataDirectories` whose files are data whatever their suffix.

`ResolveComparison` and `CTestInventory` have no steps of their own. An operator
says when a function returns instead of raising, and what. A commit is the
event's base, its head or the parent of that; a checkout is the commits it
brought, with what origin serves at the time. A test is a name, labels and the
target that its command runs. `FuzzTargets` has the steps of `run_pair`.

`CiPipeline` composes them. `result[job]` goes from "waiting" to "running" and
to one of the four results of GitHub. `Start` and `Skip` are the job's `needs`
and `if`; a job whose needs did not succeed is skipped, the gate never is.
`CancelRun` is what a later push to a pull request does. `EndFromOutside` is a
timeout, a lost runner or a step that the model leaves out and that fails. The gate's own
checkout and timeout are not modelled: what is said of the gate is what
`evaluate_gate.py` decides.
`ResolveRange` and `CheckWhitespace` choose what their checkouts brought and what
origin serves anew, because each job has its own, and branches may be rewritten
in between. The quick part of the Linux job runs the tests of a label only after
their inventory was verified; the other platforms have no inventory.

### The single header: `Headers`, `Amalgamation`, `Translation`, `SingleHeader`

`stack` is the recursion of `TranslationUnit`, `included_files` the list that it
shares, `amalgamation` the text put out so far, in chunks between directives.
`PassDirective` and `ExpandDirective` are the two ways through the second loop of
`_process_includes`; the first one, which only collects, is `Included`. A
directive in a comment or a string is marked so: the regular expressions that
look for these are not modelled. A directive under `#if` has a condition, of
which there is one.

The reference is a compiler. In `Headers`, `Includes` is the file that a directive
means to it, and `Reached` the smallest set of files that has the sources and what
its members include; `EveryHeaderOnce` compares it with the files in the generated
header. `Translation` is the abstract specification: a compiler at the headers
themselves, with `-I include` and `#pragma once`, that reads the text before a
directive and then opens what it means (`OpenHeader`), or passes it by
(`PassDirective`) when it means no file, one that was read already, or one whose
condition does not hold (`holds`).

`SingleHeader` shows `Amalgamation` to implement it, twice: `Taken` with the
condition, `Skipped` without. The text read is that of the chunks that the condition
leaves (`TextOf`), the files opened are those that were begun by then (`ReadFiles`),
and the files being read are the units in progress (`OpenFiles`), of which the
innermost does not count when the condition excludes it: it is then a stretch of the
one around it. `SameTranslation` says that the first state of the generator is the
compiler's under both, that each of its steps is one of the compiler or none, and that
the compiler has read every source to the end when the file is written. That can
only hold for headers written as csv2's are, which `Disciplined` says: no source
includes a later one (the text of a source is never left out), and a header under a
condition is so everywhere, its own includes coming before it without one, as
`mio.hpp` in `reader.hpp`. It also takes the first line of every header to be
`#pragma once`, as it is in csv2's: `amalgamate.py` puts the text of a header behind the
comment that its directive becomes, on the same line (lines 239 to 242), which would hide
a first line that says more. The real headers are one of the trees, and satisfy it.
Without `Disciplined` the property fails, as it should: the one place that is left of
a header can lie under a condition that another of its includes does not have.

### Source archives: `SourcePackaging`, `SourceArchives`

A path of the source tree is a name with the kind of directory it lies in and
the kind of file it is, one kind for each rule of `file(COPY)` and each table of
`verify_source_archives.py`, and one for each file that only one of the two knows:
links, bare suffixes and unsafe names. `Excluded` and `ForbiddenSourceMember` are the two
lists, which were written apart; `KindOf` is what the copy makes of a link. Packagers
take the lock, copy file by file while
`EditSource` may change or remove one, archive the copy, rename twice and remove
the stage. `Fail` is a FATAL_ERROR, `Crash` ends the process and with it the
lock. The verifier holds no lock: it reads the contract from the tree, inventories
each archive, then opens each again and writes the members one by one;
`VerificationFails` is an error or the end of the process anywhere in between.
A later run finds what an earlier one expanded. `republished`, `current` and
`steady` are history, for the properties only.

The lists differ in both directions. What packaging copies and the verification
refuses is `CopiedButRefused`, see below. And packaging leaves out what lies in a
`__pycache__`, and the verification does not look for it. An archive of another
origin that holds such a file is accepted, so that `AcceptedIsWhole` says of the
files that none is outside the tree or forbidden by the verification, and one of
the pairs found at the beginning is of that kind. An archive that was renamed while the
verification ran is left out of `AcceptedIsWhole`: it may have been expanded without
having been compared, as the second opening takes no lock and makes no inventory.

## The runs

| Run | Instance | Distinct states | Shows |
|---|---|---|---|
| `row_scan` | 4 bytes, size 0 to 6, with header | 260 thousand | each record is that of the definition, the walks agree, refine `RowStream`, end |
| `round_trip` | any row in up to 6 bytes, prefix 2, short below 4; up to 4 signs and digits for 6 bits; up to 2 fields of up to 2 bytes written | 757 thousand | cells, the split of a row, one meaning for all readers, numbers, what was written is read back, termination |
| `reader_source` | 3 Readers, 4 addresses, blocks of up to 2 | 281 thousand (symmetric) | views stay live, one holder per block |
| `reader_source_adjacent` | 1 Reader, 3 addresses | | `BorrowsSuppliedRange` fails, see below |
| `evidence` | 2 attempts, any 2 of 3 paths in 2 directories, which are there or not, with all faults and with none; 2 runs of 1 case, 1 rebuild; 1 attempt beside the second of 2 runs | 304 thousand | pairs, exclusiveness, durability, refinement; competition has a winner; manifests vouch for completed reports; what is published was in place |
| `validation` | 6 bytes, size 0 to 5, three trim policies | 177 thousand | verdict, first error, termination |
| `validation_trim_quote_and_space` | the same, quotes and spaces trimmed | | `RejectsNonTrimContent` fails, see below |
| `mmap_handles` | 2 objects, 3 descriptors, 4 pages of 2 bytes | 25 thousand (symmetric) | each region and descriptor is released once |
| `ci_classification` | up to 2 of 25 paths, 4 events | 11 thousand | no owner is missing, none runs for nothing |
| `ci_pipeline` | up to 2 of 5 paths, 1 platform, lists of up to 3 tests | 816 thousand | what a passing gate stands for; it fails for a cause; it decides |
| `amalgamation` | 4 files, up to 5 directives, and csv2's own headers | 719 thousand | each text once, refines `Translation` |
| `source_archives` | 2 packagings, 2 verifications, 1 edit, 46 kinds of path, 12 pairs found, or none beside a tree with a file that is refused | 2.2 million (symmetric) | one run's pair, whole trees, where both lists agree |

The bounds. Six bytes hold an opening quote, a doubled one, a closing one, a
separator of two bytes and one byte more; every look-ahead and look-behind spans
two, so that longer buffers repeat what shorter ones show. Four bytes of digits
and signs pass both ends of six bits, quoted or not, and go on after an overflow;
two fields of two bytes hold a quote before and after a separator, CR before the
writer's LF, and empty fields on either side. Five bytes hold a
header and two rows ended by CRLF or LF. A view, the storage it lies in and the
address after it need three addresses, and two Readers to pass it on; the third
Reader watches a move between the other two. Five bytes hold a quoted cell with a
blank and another quote after it, or two records with an error in the second.
Two objects, one descriptor of the caller's and one that each object opened need
three numbers; a page of two bytes has an offset within it. Two attempts meet in
every order of their steps, and cross their paths with three; two of these are in one
directory and one in another, and of the directories that are there at first every one
has been written back. Two paths in a patch
are one that hides and one that is hidden; the 25 of `ci_classification` are one
for each rule and the neighbours of its prefixes, the five of `ci_pipeline` one
for each set of owners. The platforms' jobs have the same conditions and do not
meet, so one is enough. Three tests in a list are one wrong entry beside those of
the manifest. Two sources and two headers are enough for a header that is needed
twice, a cycle, and a name that means two files; the second directive of the
first source is where the order matters. One edit can fall between any two steps
of a packaging and a verification; two packagings are two that compete or one
that follows a crash, and two verifications a failure and what it left.

Deadlock is checked everywhere but in `source_archives`, whose runs are bounded
and simply stop. `RowScan`, `RoundTrip`, `EvidenceInputs`, `Validation`,
`ChangeClassification`, `CiPipeline` and `Amalgamation` end: they then stutter
explicitly (`Finished`, `AtEnd`, `NothingLeft`, `Verdict`, `Classified`, `Decided`,
`Ended`).

The runs of the scanners have the usual policy, a comma and a double quote. That
both scanners are also right when the quote is LF or CR, or the delimiter is the
quote, is proved, see below.

The first two paths of `evidence` are alike, so the first attempt is given them in one
order only. It has three kinds of initial states: attempts that have loaded and
verified everything and compete, runs without attempts, and an attempt that loads
while a second run replaces what a first one left, or left nothing. Together they
would only multiply: attempts meet in the publication, and do not look at one
another's inputs. The second run's failures, its end at any step and a rebuild
fall between any two looks.

**Fairness.** Only weak fairness of a process's own steps. For the scanners it
says that a thread that was called keeps executing; the steps are always
enabled until the call returns. For `EvidencePublish` and `EvidenceInputs` it says that a process
that was started keeps being scheduled; no fairness is assumed of failures, of
write-back, or of the runs that write the inputs. For `CiPipeline` it says
that the jobs go on or end, one of them at a time: runners keep running what was
started, and every job has a timeout (`EndFromOutside`). `ReaderSource`,
`MmapHandles`, `ChangeClassification`, `Amalgamation` and `SourceArchives` have
none and no liveness property: a program may stop calling, and that the last
three end is plain from their loops.

**Mutants.** Next to several definitions stands a mutated form, marked so: the
mistake a change of that code could make. No specification uses them; they
record that the properties can fail.

## What disagrees

`README.md` line 120 says that `parse_borrowed(data, size)` "Borrows exactly the
supplied byte range". It does, for every range but one that starts exactly
where the Reader's own source ends: `contains_address_` counts that address as
inside, so that the range is taken for an overrun, refused, and the source
dropped. It happens after a mapping that is followed directly by other memory
of the caller. After an owned string the address is that of its terminating
zero, which cannot start a foreign block. `reader_source_adjacent` shows it.

`README.md` lines 178 and 179 say that `validate` rejects "non-trim content after a
closing quote". With a policy that trims quotes and spaces, as one that the
tests use, it also rejects `""` followed by a space, at the space, though it
accepts a space after any other quoted field. The policy consumes the whole
field from the front; `trim_preserving_structure` then finds the start again, at
the first quote, but leaves the end behind the space. What follows the closing
quote is trimmed to nothing, and rejected all the same.
`validation_trim_quote_and_space` shows it; the policies of `validation`, which
trim one or the other, do not meet it. `PoliciesKeepQuotes` says which policies
those are, and is what the proof needs.

`atomic.py` line 1 calls itself "Durable same-directory JSON staging and publication".
It is durable in a directory that is there. Where `stage_json` makes the directory
(line 25), `publish_staged` syncs the new directory (lines 60 to 66), and nothing syncs
the one above, in which it was entered: `finalize()` reports success while the directory
may still be lost with the power, and what was published with it. `SuccessIsDurable`
without its condition is violated by that, in the instance of `evidence`: an attempt makes
the directory, publishes, and is done before the directory is written back. When the
manifest alone goes into a new directory, the bundle can stay and its manifest be lost, against `benchmark/protocol/README.md`
lines 273 and 274. `SuccessIsDurable`, `BundleHasItsManifest` and `PairSpec` say what is
left: the first where the directories were there before, the second where the two files
share a directory, as they do by default, or the manifest's was there, the third once the
directories have been written back.

The two lists of what is work and no source differ. `verify_source_archives.py` refuses
three kinds of files that `package_source` copies: a symbolic link, which is archived as
one (line 193); a name with a colon, a backslash or a control character (lines 89 to 103);
and a name that is nothing but the suffix, `~` or `-writer-output.csv` (lines 121 and
122), where the regular expressions ask for a character before it (lines 84 and 86 of
`csv2-package-source.cmake.in`). A tree with such a file makes archives that are refused.
No text of the repository says otherwise, so it is no violation of anything:
`FreshPairIsAccepted` has it as its one exception, and shows that the lists agree in all
else.

`benchmark/protocol/README.md` documents that an interruption may leave a
manifest without a bundle; `BundleHasItsManifest` is the other direction.

## What is proved

### The scanners

`RecordScanProofs` proves, for every size of buffer, alphabet and policy that
satisfies `PolicyAssumption` and `MaxSizeAssumption`:

- `ScanTypeCorrect`: `Spec => []TypeOK`;
- `ScanLoopInvariant`: `Spec => []LoopInvariant`;
- `ScanFindsTheRecord`: `Spec => []FindsTheRecord`.

The inductive invariant is `IInv == TypeOK /\ LoopInvariant /\ FindsTheRecord`.
`FindsTheRecord` alone is not inductive: that `EndRecord` returns the right
position needs to know that no earlier line feed was outside quotes, and that
`quote_opened` says whether this one is, which is `LoopInvariant`. `NextIInv` has
one step for the function, one for its call and one for its return, and
`FunctionStep` one per action. The arithmetic is in `CsvBytesTheorems`:
`ParityStep` says how parity changes over one byte, `RecordEndsAt` that a
position where the record ends, with none before it, is the minimum that
`Record` takes, and `RecordIsRest` what `Record` is without such a position.

`CellProofs` proves the same of `find_cell_bounds` and its iterator, for every
size of buffer and prefix and every policy, the delimiter and the quote being one
byte included:

- `CellScanTypeCorrect`: `Spec => []TypeOK`, which bounds every position read by
  the row;
- `CellScanLoopInvariant`: `Spec => []LoopInvariant`;
- `CellScanFindsTheCell`: `Spec => []FindsTheCell`.

The argument is that of the records, with one more fact per loop: whether two
adjacent quotes have been passed, which is what the flag comes to. The `memchr`
tail and the prefix need no loop: `QuoteFreeIsUnescaped` says that a stretch
without quotes has no pair, `CellEndsAt` and `CellIsRest` what `Cell` is when an
end is known and when there is none, and `AdjacencyStep` how the flag
changes over one byte. `LoopInvariant` of both modules and `TypeOK` of `CellScan`
are proved and in no run.

From there it goes on to what callers see:

- `CellsSplitTheRow`: `Spec => []SplitsAtRowDelimiters`;
- `EveryReaderFolds`: `Spec => []ReadersAgree`;
- `QuotingIsUndone`: `RoundTripSpec => []WrittenReadsBack`;
- `ContentIsConverted`: `Spec => []ConvertsTheContent`.

`SplitInv` says that the iterator, between two cells, stands where the quotes of
the row so far are balanced, and that the cells visited are the row up to there.
`ParityJoins` is why it may forget the quotes it has passed: from a balanced
position they are counted as from the start, so that a cell ends where the row is
cut next (`FoundInRow`).

The decoders are recursive functions. The library's induction theorems cannot be
used here, as they take an operator; the proofs go by the least counterexample
instead (`Downwards`, from the well-foundedness of the numbers), over positions
from the end of the cell. `FoldedStep` gives the definition, which has no loop,
the form of a step: with `KeptStep`, a pair at the left end adds two to the run of
quotes behind it or nothing, and with `NthStep` a byte at the left end is
enumerated first. The definition then satisfies the equation of the first decoder,
and that of the second with the segment under way put before it (`Pending`), so
that the functions exist, and by `Downwards` are no others. Where the flag is not
set there is no pair (`FoldedUnpaired`), also after trimming (`TrimWithin`).
`EveryReaderFolds` assumes of `ShortSize` that it is a number and of trim policies
that they are sets of bytes.

`QuotingIsUndone` joins the writer, the record scanner's definition, the cell scanner
and the decoder. Text by text: a row is a function of its tails (`IsTails`), which
`write_row_impl_` puts together from the last one on, and so is a quoted field;
`EscapedIsDoubled` says that writing whole segments comes to writing every quote
twice, and `DoubledReads` that folding undoes that, byte for byte from the end, by
`FoldedStep`. It also carries what the scanners need: quotes are balanced over a
field, and a separator within it is not outside of them (`Word`), whether the field
was quoted (`QuotedReads`) or had nothing to quote (`UnquotedReads`). `RowLayout`
then says where the fields of a row lie in the source, `RowIsFirstRecord` that the
record ends with the row, less no carriage return, and `RowCell` that the cell at the
start of a field is that field. `FieldsSoFar` is the invariant: the cells visited are
the fields that come first, and the iterator stands at the next one; the step is
`VisitNextField`, from `FindsTheCell`. `RoundTripAssumption` says that the reader has
the quote of the writer, that this quote is no separator, and that the fields are
bytes: with `delimiter<'"'>` nothing that is quoted could be read.

`ContentIsConverted` is for every width, sign and base. `MagnitudeStep` is the heart of
it: while no overflow is noted the accumulator is the value so far, the test passes
exactly when the value with one more digit is within the limit, and then neither the
subtraction in the test nor the product wraps around; once the value is past the limit
it stays there, as does the flag. `MagnitudeIs` takes the digits one after the other,
`Limits` says that the limit is the magnitude of the end of the type on that side, the
one more for the negative end included, and `ConversionSays` joins them with `SaidIs`
for any range of the source. A cell without a flag has no pair, so its content is the
bytes themselves (`FoldedUnpaired`). A flagged one is refused, and rightly:
`FlaggedSaysNothing` says that trimming keeps the pair, that the content bounds leave
one of its quotes or nothing, and that decoding keeps the first of the quotes it finds
(`FoldedKeepsQuotes`), which is no part of a number. That the recursive functions exist
at all is `StepsExist`. `ConversionAssumption` says that a digit is a number of half
the type's range, which the code's 36 digits are in eight bits.

Both modules rest on `PolicyAssumption`, which says that the separators and the quote are
bytes, that LF is not CR and that the delimiter is neither, and on the sizes being
natural numbers.

### Publication and its inputs

`EvidenceProofs` proves the publication for any number of attempts, paths and runs,
with every fault, as it stands behind the looks of `EvidenceInputs`:

- `BundlesHaveManifests`: `EvidenceSpec => []BundleHasItsManifest`;
- `SuccessLasts`: `EvidenceSpec => []SuccessIsDurable`;
- `FailureCleansUp`: `EvidenceSpec => []FailureLeavesNoStage`;
- `PublishesAtAStroke`: `EvidenceSpec => PairSpec`, the refinement.

`EvidenceStepPublishes` reduces a step of `EvidenceInputs` to one of the
publication, with `GiveUp` for an attempt whose inputs are rejected. None of the
three invariants is inductive. `BundleHasItsManifest` says nothing of an attempt
that is about to link its bundle: `ManifestsInPlace` says that its manifest is
durable then, and `DurableIsVisible`, that a durable name is never taken away,
says that it stays as long as it has a directory. What an attempt has reported is on the
disk if its directory was there to stay, and otherwise for as long as it is seen
(`Lasts`): a directory that is lost takes both.
`BundlesFollow` then carries what was true at the link, and
`ResultsInPlace` and `StagesOfSteps` say the same of bundles and of staging files.
`PublishInv` is their conjunction, with one lemma per part that a step preserves
it; `NamesAndDisk` says what a step can do to a path, `Moves` to an attempt, and
`Arrives` and `Unstages` what an attempt's own step has done. The refinement needs
`ResultsInPlace` for a power loss, which must not take a reported bundle, and
`NobodyAssumption` to tell a published attempt from none.

The inputs of the finalizer follow, for any number of runs, of cases and of builds:

- `ManifestsVouch`: `EvidenceSpec => []ManifestVouches`;
- `EvidenceWasThere`: `EvidenceSpec => []EvidenceWasInPlace`.

What carries `InputsInv` is that nothing returns: a version of a file that has been
replaced is never written again (`NothingReturns`), because it names the run
that wrote it and how far that was, and runs only go on (`ReportSpent`,
`ManifestSpent`). So an attempt that sees a file again after it saw another one
knows that the first was there all the time between. `DocumentLoaded` says what
one document's three looks have established, `InputsReverified` that from the
second look at the manifest on either everything is in place or something has
changed for good, so that one of the looks that are left will fail. `RunsAlone` is
what `ManifestVouches` needs of runs that do not overlap. The proof attempt showed
that the manifest's version, too, must name its run: for three runs an equal one
could come back, which no file does, as its time is part of its identity.

### The walks

`RecordScanProofs` goes on to the iterator, `rows()` and `index()`:

- `WalksAreGivenRecords`: `WalkSpec => []FindsTheRecord`;
- `IterationStreamsTheRecords`: `WalkSpec => StreamSpec`, the refinement;
- `AllWalksAgree`: `WalkSpec => []WalksAgree`.

`WalkInv` ties the pending call's start to the rows delivered (`RowsInOrder`), and
each row to the record where the one before it ends (`RowsAreRecords`). The later
two walks pass the same starts without storing them: `CountInv` and `IndexInv` say
that each is behind some first `n` rows and has counted, or stored, the kept ones of
these. `WalksAgree` counts with `KeptUpTo`, the number of kept rows among the first
`n`, since the prover has no induction for `SelectSeq`.

### Sources and mappings

`ReaderProofs`, for any number of Readers and a memory of any size
(`MemoryAssumption`: the bounds are natural numbers):

- `ReadersViewLiveMemory`: `Spec => []ViewsAreLive`;
- `BlocksHaveOneHolder`: `Spec => []OneHolder`;
- `CallsReadBeforeReset`: `Spec => []ReadsBeforeReset`.

`SourceInv` has to say of the call between its two steps what the caller's
obligations give (`CallIsSafe`): nobody else views what its Reader holds, and what
it has acquired is live and held by none. `NoneIsLost` is that every block which the
library made is held by a Reader or by that call.

`MmapHandlesProofs`, for any objects, descriptors, page size, address space and sizes
of files (`SizesAssumption`: pages are not empty, the invalid handle is no
descriptor):

- `MembersAreTyped`: `Spec => []TypeOK`;
- `RegionsAreUndone`: `Spec => []RegionsAccounted`;
- `DescriptorsAreOwned`: `Spec => []DescriptorsAccounted`;
- `CallersDescriptorsStay`: `Spec => CallerKeepsItsDescriptors`, an action property.

`MmapInv` adds that an object owns a descriptor alone and one that the library
opened (`OwnersAreAlone`): without it the descriptor that `unmap` closes could be
the caller's, or another object's. `MappingsAreWhole` and the lemmas on pages say
that a mapping is found again from the address of its first byte.

### The CI workflow

`CiPipelineProofs`, for any platforms, paths, patches and answers of git and ctest:

- `PlanCoversEveryPatch`: `ClassifySpec => []PlanCoversPatch`;
- `PipelineInvariant`: `Spec => []PipelineInv`, and from it
- `BothFuzzTargetsRun`: `Spec => []BothTargetsRun`;
- `JobsCompareTheRequest`: `Spec => []SameComparison`;
- `GateFailsForCause`: `Spec => []GateFailsOnlyForCause`;
- `GateVouches`: `Spec => []GatePassMeansVerified`;
- `OnlyReadersArePlanned`: `ClassifySpec => OnlyReadersRun`.

The classification's invariant is that whoever reads a path behind the loop is
selected. It rests on one fact about the rules: the first of them to match a path
selects every owner that reads it, and no path that an owner reads counts as a
document. Those are lemmas over all paths, of any depth, by the first components.
Its other half, an action property, needs the reverse (`SelectedForReason`): for
whoever is selected, a path of the patch that is no document is one that it reads, or
one that is specific to no owner. That holds as the rule which decides of a path
selects only those that have it among their inputs (`SelectedHaveInput`).
`PipelineInv` ties the result of a job to what it had before it (`PriorsHold`), to
what it did (`SuccessIsEarned`) and, when it was skipped, to why
(`SkippedForReason`); `GateIsLast` says that the gate decides when results no
longer change. The assumptions are that paths are sequences of names
(`PathsAssumption`), that no platform is named like another job
(`PlatformsAssumption`), and that a list of tests is a sequence (`ListingsAssumption`).

### Source archives

`DistributionProofs`, for any number of packagings, stages, files, edits and
verifications:

- `PairIsOfOneRun`: `Spec => []PairOfOneRun`;
- `EndedRunsLeaveNoStage`: `Spec => []NoStageLeft`;
- `WhatIsAcceptedIsWhole`: `Spec => []AcceptedIsWhole`;
- `FreshPairsPass`: `Spec => []FreshPairIsAccepted`.

`PackagingInv` is that the lock is held by the run that is under way, that its stage
is its own, and that it renames each archive once and the first one first.
`VerifyInv` follows the three loops: the archives read so far are the reference
(`ReadInv`), those expanded so far are expanded whole (`ExpandInv`), and of the one
being expanded the first `n` members are written (`WriteInv`). That each member is
written once, and none is missing in the end, is what `HasInventory` establishes when
the archive is first read; archives renamed in between are left out by all three.
`PackagersAssumption` keeps "none" from being a run or a stage, and
`InitialPairsAssumption` says that an archive, whoever left it, is a sequence of
members. The first form of `AcceptedIsWhole` said that no file is of a
kind that packaging leaves out; the proof failed at `__pycache__`, see above, where the
archives of the run had none.

`FreshPairIsAccepted` goes from the working tree to the verdict, with edits and
packagings in between. `PairInv` says that what a packaging has copied and archived,
as long as no edit has overtaken it, is the tree as it is (`CopiesAreCurrent`), and so
is the pair of archives when it is current (`PairIsCurrent`). `FirstInv` says that such
a pair stays what the verification reads its contract from (`SteadyIsCurrent`), that
its first run finds no tree but those it has expanded itself (`FirstTree`), and that it
goes on with the inventory of that source (`FirstRunGoesOn`), if the source has nothing
that is copied and then refused (`NoneRefused`): every check then finds
what it looks for (`FirstFinds`). Two more assumptions: `FilesAssumption`
says that no file of the tree is taken for one outside of it. `ContractAssumption`
says that what the verifier looks for is something, and is not left out by packaging:
true of the required files and of the headers in the repository. A header in a
directory that packaging excludes would be looked for all the same, and refused.

### The single header

Also in `DistributionProofs`, for any headers that include one another in any way,
any sources and any list of include paths:

- `EveryHeaderIsThereOnce`: `AmalgamationSpec => []EveryHeaderOnce`.

`AmalgamationInv` follows the recursion: the units in progress are of different
files and have included what the directives behind them mean (`UnitsInProgress`),
an included file that is not in progress has included all that it means and has
text in the result (`FilesComplete`), what is included is needed (`NeededFiles`),
and of a header no text is there twice, nor one that its unit has yet to put out
(`TextsAreOnce`). Sources are excepted: one that an earlier source includes is
there twice. When the stack is empty, what is included is a closed set that has the
sources, so that it is all that is reached. `FoundIsIncluded` says that
`find_included_file`, which looks in the directory of the file and then in the
include paths, finds what a compiler does. `ProjectsAssumption` and
`IncludePathsAssumption` say that paths are sequences of names and that no file has
an empty one.

- `TargetReadsAsTheHeaders`: `AmalgamationSpec => SameTranslation`.

For headers under `Disciplined`, `PlacementInv` adds to `AmalgamationInv` where the
headers under the condition are. A unit that the condition excludes is the innermost:
it opens nothing, because what it includes was put out before it
(`ConditionIsInnermost`). The files that are excluded are never meant by a directive
without the condition, and so the compiler that skips them lacks nothing later
(`ExcludedFiles`). A source has been read only when the generator has come to it, since
no earlier one reaches it (`FilesOfSources`). `Disciplined` is no assumption of the
theorem: headers and sources do not change (`HeadersStay`), and where they are not
disciplined `SameTranslation` asks nothing.

The steps are then mapped one by one (`SourceIsRead`, `PassIsRead`, `HeaderIsRead`,
`EndIsRead`, and the end in `WrittenIsAllRead`), each under both values of the condition
by the same lemmas: `ComesToSource`, `ReadsText` or `StaysThere` is what happens to the
compiler, and `CompilerStep` that each of these is one of its steps, or none.
`TextOf` is a recursive function, whose value the prover does not unfold for a sequence
of unknown length: `TextsExist` and `TextsAreUnique` say that there is one function with
its equations, and `TextOfAppend` follows, that one more chunk adds its text or
nothing. Where these need an induction, they take the least number that fails.

### Validation

`ReaderProofs`, for sources of any size and any bytes:

- `AcceptedSourcesAreValid`: `ValidationSpec => []AcceptsOnlyValidSources`;
- `TheFirstErrorIsReported`: `ValidationSpec => []ReportsTheFirstError`, for policies
  with `PoliciesKeepQuotes`: one that trims the quote trims no other byte than
  separators. The policies of `validation` have it.

The first half of `ReportsTheFirstError` so holds under every policy: whatever is
trimmed, `validate` accepts only what the automaton accepts. The assumption is needed
for the rest, since without it the disagreement above is met, and it concerns only
what follows a closing quote: `TrimIs` then gives that a cell's trimmed end has no
blank before it.

`InStep` relates the three layers to the automaton. Before a record, and before a
cell, the automaton has found no error, is at a cell's start, and counts the same row
and column (`BeforeRecord`, `CellUnderWay`). `CellVerdict` carries it over a cell:
`validate_cell` has no objection exactly when the automaton goes through the cell with
no error and no quote or carriage return left open (`CellIsRead`), and otherwise
the automaton's one error of the source is that of the cell (`ReportedAs`). The
lemmas before it follow the automaton over blanks, over the inside of quotes up to the
closing quote, and over a bare cell. `QuotedIsOdd` joins the layers: the automaton is
in a quoted cell exactly behind an odd number of quotes, which is how `Record` and
`Cell` tell a separator from a byte of a cell, so that a cell ends where the automaton
leaves it (`BehindCell`). `ReadingIs` and `ClosingIs` give the recursive functions of
both sides one step at a time.

### Only model-checked

- Liveness everywhere, and with it the fairness assumed: the prover has no ENABLED.
- The two violations, which are counterexamples.

## Plan

Modelled first, and done: the scanners, the walks, the ownership of sources,
publication, validation, mappings; then the CI workflow with its scripts, the
single header, and source archives; then the reading and writing of cells, their
conversion, and the reports that the finalizer reads. Left, in this order:

1. `WriterStream`: who closes a stream that writers share and move, and its
   width and state after a field that could not be formatted.
2. `MmapHandles` composed with `ReaderSource`, where a Reader holds a mapping.
3. `SkippableContexts`: the comments and strings that `amalgamate.py` skips.

Every invariant, action property and refinement of the passing runs has a theorem; the
liveness properties have none. What is added next should come with its own.

## Not modelled

- The writer's stream, the legacy writer that does not quote, and the formatting of
  fields that are no texts: planned above as far as it has state.
- `std::from_chars`, which replaces the modelled conversion where there is one.
- The file system above a directory: that of a path is there with all above it or not,
  and file systems that write a new directory back with the first sync in it.
- Of the finalizer, the relations between its three reports, and what the bundle
  says; of the runner, measuring and its checks before the first report.
- Schemas, statistics, builds, machine and metrics of the benchmark harness:
  functions of large documents, with real arithmetic or outputs of other tools.
- In the CI tools: the coverage job and the scheduled workflows, what a build or
  a test does inside its job, the parsing of JSON and of lines, and permissions
  of expanded files. A patch that only removes `README.md` is one of documents, so
  that nothing runs (`classify_changes.py` line 36), though the archives must
  hold that file (`verify_source_archives.py` line 22); what an owner reads is
  here what its builds and tests read, and does not include that contract.
- Benchmark kernels, generated data, the vendored test framework and its updater.
