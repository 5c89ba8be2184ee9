# A verification project for yarde

yarde (the crate calls itself kona) is a small SQL engine in Rust. A script of statements is parsed; each
query is bound, turned into a logical plan, cut into stages and run by a fixed set of threads that exchange
rows through files. This directory holds TLA+ models of that engine, the configurations that check them with
TLC, and proofs that TLAPS checks. All paths below are relative to `src/src/`.

1. [The system](#1-the-system)
2. [Plan](#2-plan)
3. [Modules and code](#3-modules-and-code)
4. [Runs](#4-runs)
5. [Fairness and deadlock](#5-fairness-and-deadlock)
6. [Proofs](#6-proofs)
7. [What the code does differently](#7-what-the-code-does-differently)
8. [What is not modelled](#8-what-is-not-modelled)

## 1. The system

### Components

| Component | Code | State | Operations |
|---|---|---|---|
| Job driver | `main.rs`, `flow.rs` | the options, the catalog, the id of the flow | for each statement: parse, compile, `run_flow`, list the output directory; at the end `end_all_threads`, `join` |
| Scheduler and workers | `scheduler.rs`, `task.rs` | a channel to each thread, one channel back, per stage `nchildren_completed` and `npartitions_completed` | `run_flow`, `runnable`, `schedule_stages`, `set_stage_completed`; a worker takes a task, runs it, reports it |
| Stage graph | `stage.rs` | stages with parent, number of children and of partitions | `add_stage`, `set_root_pop_key`, `schedule` (partition p goes to thread p mod n) |
| Parser | `ast.rs`, `sqlparser.lalrpop` | none | text to query graph |
| Catalog | `metadata.rs` | the tables: path, fields, number of partitions | `catalog_table` with its options, `get_table`, `describe_table` |
| Semantic analysis | `qst.rs`, `qgm.rs`, `datum.rs` | the query block being rewritten, its quantifiers, the types of expressions | `split_groupby`, `resolve`, `resolve_star`, `resolve_column`, coercions |
| Logical planner | `lop.rs`, `lop_repartition.rs` | the LOP graph, the work list, the predicates not bound, equivalence classes, virtual columns | `build_unary_plans`, the join enumeration, `harmonize_partitions`, aggregation in one or two steps, the two rewrites of keys (`qrw_*`) |
| Plan compiler | `pop_compile.rs`, `pcode.rs`, `pop.rs` | the stage graph and operators being built, projection maps | `compile_flow`, `compile_lop`, stack programs |
| Scans | `pop_csv.rs`, `pop_parquet.rs` | per task: its range and position | divide the file, read a range |
| Hash join | `pop_hashmatch.rs`, `pop_hash.rs` | hash table of row numbers, build arrays | build, probe, compare keys |
| Hash aggregation | `pop_hashagg.rs` | open-addressing table, accumulators | hash a chunk, find or insert, update, emit |
| Repartitioning | `pop_repartition.rs` | per producer a file per consumer; per consumer the files it has listed | write, finish, list, read |
| Containers | `graph.rs`, `bitset.rs` | slot maps; bits and a numbering of elements | traversal, set operations |

### How they interact

The main thread is the only one that talks to the workers: `ScheduleTask` and `EndThread` down one channel
per thread, `TaskCompleted` up a channel they share. Tasks of different stages never talk; a task writes files
under `flow-<id>/pipeline-<stage>-<parent>/consumer-<partition>` (one file per producer), and a task of the stage above lists the directory
of its own partition once, when its reader is created. So the only thing that keeps a reader from missing a
file is the order in which the scheduler starts stages. In a task, operators are pulled: each `next` asks
its child for a chunk. The planner decides the number of partitions of each operator; the compiler copies it
to the stages; the scheduler and the operators read it there, and nothing compares them.

### What is hard

* *Interleavings*: the order in which tasks of one stage, and stages without a dependency, complete; a
  thread that opens, writes and closes files while others list them; the main thread that goes on to the
  next query while threads still work for the last one.
* *Failure*: a task that returns an error or panics takes its thread and all queued tasks with it and
  reports nothing.
* *Stale state*: a `TaskCompleted` names no flow; the runnable stages are computed from what was reported, not
  from what was sent; the properties of a plan node are cloned from its child.
* *Boundaries*: the ends of byte ranges and of row group ranges, the last bucket of the hash table, 64-bit sums.
* *Agreement at a distance*: numbers of columns given out before a list is complete; partitions and
  partitioning keys decided in three places; columns found by their position in the output of an operator
  that a later rewrite may still extend; a type given at compile time to a value that arrow2 computes.

### What makes each part correct

| Part | Correctness |
|---|---|
| Scheduler | every task of a flow runs once, behind all tasks it reads from; the flow ends when all its tasks are done, and leaves nothing behind |
| CSV and Parquet scans | the tasks of a scan return each record (row group) once, wherever the ranges are cut; each task ends |
| Hash aggregation | one entry per key; COUNT, SUM, MIN and MAX are those of the rows of the key; every search ends |
| Hash join | the pairs returned are those whose keys are equal, all of them, each equally often |
| Repartitioning | a consumer gets every row that belongs to it once, each producer's in order |
| Planner, compiler | the plan returns the rows the query asks for; columns are there where they are used; operators agree with their stage on the number of tasks |
| Catalog, names, types, GROUP BY | illegal jobs are rejected and nothing else is; columns have the types SQL gives them; what runs is answered as written, in one step or two |

The hazards the properties are aimed at are in `PROJECT.json`, each at its line.

## 2. Plan

| Order | Modules | Why here | State |
|---|---|---|---|
| 1 | `StageGraph`, `Dataflow` (abstract), `Scheduler` | the concurrent core; everything else relies on it | modelled, checked; proved for linear stage graphs, for stages of one partition with any joins, and what holds of any job |
| 2 | `CsvScan` | the boundaries of byte ranges | modelled, checked, proved |
| 3 | `HashAgg` | open addressing, wrap-around, sums that overflow | modelled, checked, proved |
| 4 | `Exchange` (abstract), `Repartition` | what consumers rely on the scheduler for | modelled, checked, proved: it implements `Exchange` |
| 5 | `HashMatch` | how keys are compared | modelled, checked, proved for keys in column order |
| 6 | `Planner`, `PlanResult` | partitioning, predicates, columns, virtual columns, projection maps, stages, results | modelled, checked, proved |
| 7 | `Values`, `Expressions`, `Catalog`, `Names`, `GroupBy`, `QueryMeaning`, `GroupByResult` | the front end: the catalog, names, types, casts, the rewriting of GROUP BY, programs | modelled, checked |
| 8 | `ParquetScan` | row group ranges, column order | modelled, checked, proved |
| 9 | `DataInduction` | sequences, counting, finite sets and sums, for the proofs of 1 to 6 and 8 | proved |
| 10 | `PlanResultProofs` | the rows that operators exchange, over plans of any shape | proved |
| 11 | NULL in `Values` and the three-valued WHERE; the numbering of `Bitset` | rest of the front end | open |

`Scheduler` refines `Dataflow` and `Repartition` refines `Exchange`; both are proved. `Exchange` starts its receivers when all senders are
closed, which is what `Scheduler`'s `ConsumerSeesCompleteInput` provides. `PlanResult` builds on `Planner` and on what `HashMatch`,
`HashAgg`, `CsvScan` and `Repartition` establish of the operators, and hands `StageGraph` graphs to the scheduler:
`StagesAgree` says they are such as `Scheduler` assumes. The front end is a chain: `Values`, `Expressions`, `Names`,
then `GroupBy` (with `Catalog`), which has the variables; `QueryMeaning` says what a query means from its text alone, and
`GroupByResult` compares the two. `GroupBy` ends with programs for the operators that `Planner` and `HashAgg` model as such.

Modules to prove about have no `RECURSIVE` operator. `Values` and `Expressions`, and with them the front end,
follow recursive code on trees and stay with TLC.

## 3. Modules and code

`PROJECT.json` maps each definition to its lines. In outline:

### Scheduler (`StageGraph`, `Dataflow`, `Scheduler`, `MCScheduler`; proofs in `SchedulerInv`, `SchedulerProofs`)

`StageGraph` is the data of a job: a sequence of flows, each the `nstages`, `parent` and `npartitions` of its stages
(stage 0 is the root, a parent precedes its children as `add_stage` makes them), its tasks, and the tasks each
one reads from (`Inputs`).

`Scheduler` has one action per step that another thread can observe. The main thread: `StartFlow` (empties
the directory, resets the counters, computes the first runnable stages), `SendTask` / `SendFails` / `StageScheduled`
(the loops of `schedule_stages` and `Stage::schedule`), `RecvTaskCompleted` (count; on the last message of a stage
increment the parent, recompute `Runnable`, schedule or leave the loop; a stage id the flow does not have panics),
`ChannelClosed`, `Display`, `EndAllThreads`, `Join`. A worker: `TakeTask`, `OpenOutput` (truncates the files of an
earlier execution), `FinishTask`, `FailTask` (the thread dies with its queue), `EndThread`. The variables are the code's
counters and channels; `written` stands for complete output on disk and `out` for the open file of a task.

Abstracted: what a task computes; I/O errors of `init_flow_tmpdir` (an early return before anything is sent);
the message `StageCompleted`, which nothing sends. `end_all_threads` and `join` are one step each: once the main
thread is there it only sends or waits, and workers observe no order between the sends. A task that runs
twice writes the same bytes to the same path; what matters is that its file is incomplete meanwhile.
`main.rs:77` removes `TEMPDIR/flow`, a directory no flow uses; it is left out.

`Dataflow` is what a run promises, without threads: flows run in order, each task begins once, behind its
inputs, and a flow begins when all tasks of the one before are done. `TheDataflow` in `Scheduler` is the mapping:
a task has started when a thread holds it or its output is written, and finished when it is written.

### Scans (`CsvScan`, `ParquetScan`; proofs of both in `ScanProofs`)

`CsvScan`: a file is the set of offsets at which its lines end. `SplitPiece` and `PadSplits` are `CSV::compute_partitions`;
a task seeks or reads the header (`Open`), takes record by record (`ReadRecord`, `StopReading`) and returns chunks (`ReturnChunk`), all tasks interleaved. A record
is named by its first and last offset. Every line is a record, one of a single byte included;
lines without content (the `csv` crate skips those), quoted newlines and CRLF are outside the model, because `read_line`, which cuts the pieces, and the csv reader
see them differently and the properties would be about that crate.

`ParquetScan`: the range of row groups of each task, the reader (arrow2, external) that returns a row group with
its columns in file order, and the two sorts that restore the order of the projection. Its names differ from those of `CsvScan` (`ParquetSpec`), so
that one module can extend both.

### Operators (`HashAgg`, `HashMatch`, `Exchange`, `Repartition`; `HashAggProofs`, `HashMatchProofs`, `RepartitionProofs`)

`HashAgg`: `NextChunk` (with `hash_chunk` and its panics), then per row `StartFind`, per bucket one step of `find` (`NextBucket`, a
hit, an insertion), `EndOfInput`. Machine integers are `-MaxInt-1 .. MaxInt` with wrap-around (`Wrap`); `debugBuild` says whether overflow
checks and `debug_assert!` are compiled in. A key is opaque: it stands for the values of all grouping columns,
with its 64-bit hash. COUNT(col) counts NULLs as the code does. With SUM among the aggregates a NULL panics
before it reaches MIN and MAX; `ExtremesRight` says what holds of them up to there.

`HashMatch`: `BuildChunk` copies a chunk and files its rows, once per column, `ProbeChunk` joins a chunk. The hash is 999 as in
`pop_hash.rs`. The key columns of a side are taken in the order of its columns. NULL keys are left out
(comparison of NULLs is arrow2's), and so is an empty key: `lop.rs` plans a join only for at least one
equality. `NSPLITS` is 1 as in the code.

`Repartition`: producers write batch by batch, consumer by consumer, and close their files; consumers list and read.
`Exchange` is the abstract channel: a consumer has a prefix of its share of each producer's rows, and all of it at its end.

### Planning (`Planner`, `PlanResult`; `PlannerProofs`, `PlanResultProofs`)

`Planner` follows a query from its scans to its stages: `BuildScan`, `Join` (the first pair of the work list with an
equality between them, its keys, `harmonize_partitions`), `NoJoin` (the panic), `AggregateOnce` / `AggregateTwice`, the two
rewrites `AddRepartitioningKeys` and `PushdownJoinKeys` (`lop.rs`: keys that are no columns become virtual columns of the operators
below), then `compile_lop` as a stack of calls: `CompileCall` on the way down, `CompileReturn` on the way up, `CompilePanics` when a
projection map lacks a column. A query is its tables with their partitions (`parts`), PARALLEL_DEGREE (`degree`), predicates
and select list, and for GROUP BY the number of keys, the aggregates and whether there is a HAVING. An expression is a sum of
columns and a number, a predicate an equality: enough for classification, equivalence classes and columns. Each occurrence of
an expression is one of its own (`ExprKey`), as in the code, where only `isomorphic` could find two of them equal.

An operator has a projection map (`OutputMap`, `InputMap`): the positions of its columns and, behind them, of its virtual
columns. Predicates, projections and keys are compiled to positions (`Code`). The columns of a bitset come in one fixed order;
the code's order is the order in which a query first names columns, and is as fixed.

`PlanResult` computes what the plan returns, partition by partition and by position, and compares it with the query. A table
holds every row of values 0 and 1 in each of its partitions; a value is its own hash, so rows do go to different
partitions. A join does what `HashMatch` says: it returns a pair once for each column of its build side (`times` of a row, `Copies` of an
operator), and compares the key columns of both sides in the order of the columns (`ComparedKeys`). So the answer is the rows that join, each
as often as the joins return it, and COUNT and SUM over that many; `ResultIsRight` is about plans whose joins compare the sides of their
predicates with one another (`KeysInOrder`), the case that `OnlyMatchesEmitted` is about is left out. The aggregates are COUNT and SUM (SUM of both in the second step), and HAVING selects groups by their key.
`ColumnsFlow` says that no compilation panics for want of a column, and `StagesAgree` that operators and stages have
the same number of tasks and make a graph `StageGraph` accepts. The empty chunk of a join without a match, over which a
join above panics, is left out (section 7; `HashMatch` has it).

### Front end (`Values`, `Expressions`, `Catalog`, `Names`, `GroupBy`, `QueryMeaning`, `GroupByResult`, `MCGroupBy`)

A job is a list of CATALOG TABLE statements and a query. The steps of `GroupBy` are those of `run_job` and `resolve`, in their order, which
matters, since numbers are given out and expressions compared before names are known: `CatalogTable`, then for GROUP BY the split
into two blocks (`TransformSelect`, `TransformHaving`, one expression to a step), `BindTables` (look-up in the catalog, aliases,
duplicates), `ResolveInner` and `ResolveOuter` (stars, names, types, casts), `PlanOnce` or `PlanTwice`, `CompilePrograms`. A job ends
*done*, *rejected* (an `Err`) or *failed* (a panic).

`Values`: the types and what arrow2's kernels compute of two values, with the panics (the kernel for two types that are not equal).
A number is a fraction; Int64 division drops it; there is no overflow here (`HashAgg` has it). A string is a rank and the number of quotes
around it. `Expressions`: trees, `isomorphic`, boolean factors, compilation to stack programs over a projection map, and `Exec`, one
instruction at a time, with what has no code (a literal as the left operand, a logical operator on literals). `Catalog`: the
options and what is wrong with them, the fields inferred from a file or given as COLUMNS. `Names`: which quantifier a
prefix picks, ambiguity, the rank of types and which operand is cast.

`QueryMeaning` does not use any of this: which jobs are legal, the type of an expression, and the answer as a bag of rows or a set of
groups computed from the rows of the files. Two things in it are not SQL's but the code's, because every query has them: a prefix is the first table with
that name or alias (`Named`), and the pairs of a join come once for each column the join has of the second table (`Times`, which counts from the text of the query the columns and keys needed above its
scan). Options of CATALOG TABLE are judged by what each may say (`IsLegalOption`, `IsLegalTable`), not by the code's tests. `GroupByResult` runs the programs: scan or join with its predicates, grouping with its
panics, projection, in two steps when the table has partitions. `IsSupported` and `IsAnswered` name, one by one, what the code
accepts and then panics over or answers otherwise; section 7 lists them.

Abstracted: a query has one or two tables (joins of more are `Planner`'s), joined by at most one equality (the order of several keys is
`HashMatch`'s); with two, the plan has one partition. `t.*` does not occur in the select list of a GROUP BY, where `resolve_star` drops it. An expression is a tree
where the code has nodes in a graph. DISTINCT, ORDER BY and LIMIT are parsed and not looked at again. Casts written in the query are
literals that the parser makes.

## 4. Runs

| Run | Question and bounds | Why the bounds are enough |
|---|---|---|
| `scheduler_linear` | Is every task run once, behind its inputs, with nothing displayed early or left behind, and does the job end? Three stages of 2, 5, 4 partitions, then two of 3, 2; three threads, of which two may fail | two stages have more partitions than threads (queues of several tasks), several flows (messages and files of the one before), a child, a grandchild, and failures in any state. 16 993 states |
| `scheduler_joins` | What holds with joins, and when threads die? A chain of 2 and 3 partitions, two joins with one partition per stage (PARALLEL_DEGREE 1 is the default), a join of two inputs of two partitions, a one-stage query; two threads, both may fail | in the first flow one thread dies with tasks the other does not have, or both do; the double scheduling of section 7 happens in the next two, harmless on one thread, and in the fourth, where it leaves tasks on other threads; the last flow meets their messages, among them one for a stage it does not have. 6415 states |
| `bushy_OnlyDependentsScheduled` | "schedule any dependent stages" | the smallest join that shows the disagreement |
| `csv_scan` | Is each record returned by exactly one of three tasks? Every file of up to 6 bytes with and without header, two rows to a chunk | all line lengths up to twice the piece, lines of one byte, no last newline, fewer bytes than tasks, a header longer than its piece, chunks that end at a seam |
| `parquet_scan` | The same for row groups: 0 to 5 groups, 1 to 3 tasks, three columns in every order | every remainder, and fewer groups than tasks |
| `hash_agg` | Are groups whole, aggregates right, and does the search end? Three keys, two that hash to the last of four buckets, four rows, values -2, 3, NULL, `MaxInt` 3, all key types, both builds | a probe that wraps around, one that passes other keys, sums that overflow in both directions, each panic |
| `hash_match` | Are the pairs those of the join, each as often as the build side has columns? Three rows on each side cut into chunks in all ways, keys of one and of two columns | rows of several chunks, equal keys in several rows, empty chunks |
| `hash_match_OnlyMatchesEmitted` | "Make sure the actual keys match" with crossed keys | the smallest crossed key |
| `repartition` | Do the files implement `Exchange`, and does every consumer end? Two producers, two consumers, three rows, three keys that agree in their last column or not | chunks of several rows, consumers without a file, two files to one consumer |
| `planner` | Does the plan compute the query? 389 queries: three tables with 2 to 4 of eight predicates in two orders; keys that are sums, on one side or both; four tables joined by way of equivalence classes, and two joins that are joined; GROUP BY over a table and a join with 1 to 3 partitions | every kind of predicate (local, aligned, reversed, of three tables, constant, of one table twice), keys that are columns and that become virtual columns, legs that need no repartitioning, aggregation in one and two steps. Three is the least number of tables where the order matters. 7955 states |
| `group_by` | Are illegal jobs rejected, columns typed as SQL says, and legal queries answered? 19 880 jobs: catalogs right and wrong in each option; FROM with one or two tables, with aliases, without and with clashes, joined by columns of all types and by an expression; stars with and without a prefix; one or two keys; 21 select expressions over integers, fractions and strings, all pairs of them; WHERE and HAVING; one and two partitions | each way to be rejected, each coercion, aggregates shared, repeated and nested, AVG with its SUM elsewhere, groups that lie in one partition and in both. The file has two groups by one key and three by two, of one and of several rows; build sides of a join have one to several columns. 145 652 states |
| `group_by_ReferencesCorrespond` | Columns behind a COUNT(*) | the smallest such query |

Each property of a passing run has a variant of a mapped definition, a plausible slip such as a missing test or an
off-by-one, that makes TLC find the property violated (`PROJECT.json`, "mutants"). The variants are defined in the
modules, marked "Variant", and used nowhere.

The properties that relate most state:

* `CompletionIsReal`: the counters of the main thread, which count messages, against the files on disk.
* `OneThreadIsEnough`: with one partition per stage, input and completion are right although stages run twice, up
  to a failure of the thread. This is the configuration the program has by default.
* `ChildrenCountedOnce`: `nchildren_completed` is the number of completed children in every job, whatever duplicate or
  late messages there are. (It is the test `npartitions_completed == npartitions`, and not `>=`, that makes it so.)
* `NoRecordTwice` / `AllRecordsRead`: both sides of a seam, each deciding by itself.
* `NoGapBefore`: what makes the first empty bucket a proof that a key is new.
* `IncompleteOnlyWithoutThreads`: tasks lost with a thread, the messages still in the shared channel, and the end of the loop of `run_flow`:
  a flow that is left without its result is left because no thread lives; otherwise run_flow waits, or a send fails.
* `ResultIsRight`: partitioning keys, equivalence classes, predicates, positions of columns and the number of times a row comes together.
* `RejectedIffIllegal`: five places that return an error (catalog, split, binding, resolution, planning) against the rules of SQL,
  though the split compares expressions before their names are resolved. It names two kinds of legal queries that are rejected, and says there are no others (section 7).
* `AnswerIsRight`: the programs of one or two steps, run on files, against the meaning of the query's text; it says as well
  which queries run at all. Predicates that are computed again in a second step (`lop.rs:505`) are `ColumnsFlow`'s.
* `TypesAgree`: the type an expression is given, before and after the split, against the rules of SQL and the values that come out.

## 5. Fairness and deadlock

* `Scheduler`: weak fairness of the main thread and of `TakeTask`, `FinishTask`, `EndThread` of each thread. The operating system runs
  threads that can run, `recv` returns a message that is there, and a task reads finite inputs. None for
  `OpenOutput` (a task may have no row) nor for `FailTask`. `JobEnds` and `OrderlyFlowsEnd` therefore do not assume that nothing
  fails: they say that the job (the flow) ends unless a task fails.
* `CsvScan`: the planner and each task run. `HashAgg`: `Find` and `EndOfInput`. The child of an aggregation comes to an end: `MaxRows` bounds the
  input, and `EndOfInput` is fair. `Repartition`: producers and consumers run, inputs end.
* Deadlock is checked except in the runs of `Scheduler`: a task that fails is never reported, and run_flow then waits
  for ever for its message while another thread lives. That stop is what the code does (`scheduler.rs:147`).
  Elsewhere a regular end is the stuttering step `Terminated`.

## 6. Proofs

All with TLAPS (SMT, Zenon and PTL), for every value of the constants that the named assumptions of the modules
allow: `FlowsAssumption` (a parent precedes its children), `NThreadsAssumption` (at least one thread), `FaultyAssumption`; `FilesAssumption`, `NSplitsAssumption`,
`ChunkSizeAssumption` (at least one task, one row per chunk); `NullAssumption`, `ValuesAssumption`, `TableAssumption` (at least one bucket);
`CountsAssumption`, `ProjectionsAssumption` (at least one task, no column asked for twice); `SizesAssumption` (at least one
consumer of `Repartition`); `PlansAssumption` (`IsPlan`: at least one key column, and as many on both sides of the join); `QueriesAssumption` (`IsQuery`: a query refers to its own tables) and `ColumnsAssumption` (its columns are
those of a table, its numbers integers). Some theorems of
`SchedulerProofs` and two of `HashMatchProofs` have hypotheses of their own, which their statements name and which are explained below.

**Scheduler, linear plans.** `TypeCorrect` holds for any job. With a linear stage graph (`LinearJob`), that of a plan without a join of two
repartitioned inputs, on any number of threads of which one never fails (`SomeThreadSurvives`; without it `ChannelClosed` ends a flow early, see below),
`LinearCorrect` is the inductive invariant `LinearInv` of `SchedulerInv`: at any time one stage is active. Stages above it (of higher
number) are complete and counted, those below untouched; each task of the active stage that was sent is in one place
only, a queue, a thread or `written`; and `npartitions_completed` plus the messages under way is the number of partitions written. The last conjunct is what makes counting
messages the same as counting partitions; the properties alone are not inductive because a step that counts must know that
the message is not a duplicate. From it: `ReadsCompleteInput`, `CountsAreReal` (for stages with at least one partition), `FlowsComplete`, `NothingIsLeft`.
`ImplementsSafety`: every step is a step of `Dataflow` or leaves it unchanged.

**Scheduler, one partition per stage.** What PARALLEL_DEGREE 1, the default, gives: any joins, with stages sent again while they
are at work (`SerialJob`). `SerialInv`: all work is on thread 0; a stage is under way or has reported only if its inputs have reported; what a reported
stage wrote is on disk or is being written again by the thread, which therefore reads nothing meanwhile; nothing is
queued behind the root, so that when its message comes, all messages have. The last part is what a duplicate could break at the end of a flow, and
it holds because the root is sent once: it is runnable only when its children have reported, and then everything else has been
sent before it. `OneThreadSuffices` follows, unless thread 0 panics, for which the property makes an exception. The invariant makes one only for the death of all threads: when
thread 0 dies its tasks are lost, the root's among them, and its message never comes.

**Scheduler, all threads may fail.** Both invariants, `LinearInv` and `SerialInv`, hold as long as some thread is left (`ThreadLeft`), since the steps that kill threads
only take tasks away, and `ChannelClosed`, the one step that ends a flow without its result, needs all of them dead. Hence `IncompleteFlowsHaveNoThread`: a flow run_flow
returns from is complete, or there is no thread any more. The property is false when the loop ends for one dead thread (its variant in the run), and would be if lost
tasks could be counted.

**Scheduler, any job.** Joins, parallel or not, in which stages run twice, and threads that fail. `EndIsLast`:
a thread's queue has at most one `EndThread`, at its end, and only when the main thread is past `end_all_threads`; hence `EndedThreadsAreIdle`, an
action property. `EachChildCountsOnce`: a stage is counted by its parent exactly when its own count *is* its
number of partitions; the count goes through that number once, because it only grows within a flow. It assumes `NoEmptyStage`, since the count of a stage
without partitions is there from the start and is never tested (PARALLEL_DEGREE 0, section 7).

**CsvScan.** `CsvInv`: the pieces cut so far are disjoint, cover the file up to `end`, begin at a line and are so few that
the rest fits; a task stands at the start of a line and has the records between the start of its piece and its place.
From it `NoUnderflow` (`SplitsFit`), `EachRecordOnce`, `EveryRecordRead`, for any file, number of tasks and chunk size.

**HashAgg.** `HInv`: no gap before an entry, one entry per key, `noccupied` counts them; a probe under way has passed only entries of
other keys; entries are the keys of the rows filed, and COUNT is their number in machine arithmetic. It needs the probe's
history because an insertion is right only if the key is nowhere else, which follows from `NoGapBefore` and the
buckets the probe has seen. From it `SearchIsComplete`, `GroupsAreWhole`, `OccupancyIsCounted`, `GroupsAreTheKeys`, `CountIsNumberOfRows`, for any hash function and table size.
`ExtremesInv` adds that the MIN and MAX of an entry are values of filed rows of its key and bound all of them; with it `ExtremesAreOfTheGroup`.
`SumsInv` adds that a SUM is congruent to the sum of the rows filed, modulo the number of machine integers, and that no value filed is a NULL; with it `SumsAreOfTheGroup`.

**ParquetScan.** `ScanInv`: a task has returned, in their order, just the row groups of its range that its reader has passed (`UpToDate`), and
a closed one has passed them all. The rest is arithmetic about the ranges: `RangesApart` (two tasks have none in common) and `RangesCover` (a row group lies in one of
them), for any number of row groups and tasks. From it `NothingIsReadTwice`, `EverythingIsRead`. `ColumnsInOrder`: the reader returns columns in file order,
and the two sorts turn that into the order of the projection. A sort is known only by what `SortSeq` says of it, that some permutation of the list is ordered; since
places, and columns, are distinct numbers, there is one ordered list of each set (`GrowingUnique`), and so one result.

**Repartition.** `RepartitionInv`: the batches of a file, and the part of the chunk at hand that is still to be written for its consumer, are
together what falls to the consumer of the rows taken, in order; a consumer that reads has listed every file that will ever
exist, because all producers are done. With it each step is one of `Exchange` or stutters (`FilesAreAnExchange`): writing a batch sends its
rows, reading one receives the next ones of that producer. `NoReaderPanics` adds that a listed file is one its producer has finished.

**HashMatch.** `HashMatchInv`: the place of a build row is in the one bucket as often as the build side has columns, and a pair of rows is in the
output that often if the comparison lets it through and not at all otherwise. How the inputs are cut into chunks does not occur in it: that
is what has to be shown of `BuildChunk` and `ProbeChunk`. `JoinedOncePerColumn` needs nothing else. `OnlyMatches` and `AllMatches` assume `KeysInOrder`, that the predicates name the columns of
both sides in the same order; the second run of `HashMatch` shows that they fail without it (section 7).

**Planner.** The invariants of `PlannerProofs`, for any query, stand on each other. `FormInv`: the plan is a forest, children before parents, whose
roots are the work list, with as many children to an operator as its kind has. `PartInv`: an operator has as many partitions as each of its inputs has
readers; a leg that is left without a repartitioning is a join, whose partitions are PARALLEL_DEGREE, since only a join has
partitioning keys at that time. `CompileInv`: there is a number of tasks `T` for every stage, also for those whose number is not known yet because the call
that sets it is still on the stack, and calls and operators agree with it. With these, `StagesCorrect`. `QunInv`: while joins are enumerated the operators
of the work list share out the tables, and a predicate that was applied is about the tables of one of them; hence, when no pair
joins, the sets of tables within one operator are closed under every join there could be, and `GreedyCorrect`. `FlowInv`: whatever an operator refers to is in the
columns of its inputs or among their virtual columns; what predicates and select list still refer to has not been projected away;
a leg of a join computes the keys that are no columns, from the rewrite that adds them on. With it `ColumnsCorrect`: only what the first step of an
aggregation inherits (section 7) can make the compiler panic. `PredInv`: a predicate is still to be applied or is in one operator, and what is still to be applied is not about the
tables of one operator; when all tables are joined nothing is left, and `PredicatesCorrect`.

**PlanResult.** `PlanInv` is all of these and three more. `TreeInv`: the plan is joins of scans, with or without repartitionings, and above them at most one aggregation in one
step or in two; join keys pair the sides of equalities, and the keys a join's leg is partitioned by are the join's or equivalent to them. `WriteInv`: a
repartitioning has the columns of its child, and the virtual columns of its child if that has any, at any time, between the two rewrites too; so keys compiled for the chunks of the child mean the
same on its own. `PopInv`: each operator compiled carries the code that the projection maps of the plan give. When the plan is compiled, `RowsCorrect` follows operator by operator, from the
children up (`DataInd`). `Right(n)` says of operator `n`: what it returns in a partition is made of rows of its tables that satisfy
the predicates about them, has at each position what the map says, and lies in the partition that the value of its keys gives (`Place`); and it has every row the answer
is made of. The last part is weaker than having every row that satisfies the predicates, and has to be: a leg left without a repartitioning is in place only for rows on which the equivalent keys agree,
and they agree on the rows of the answer (`ClassesOne`, by induction over the equalities). `Right(n)` says how often a row comes as well: `Copies[n]` times, the product of the widths of
the build sides below. `RowsCorrect` has the hypothesis `KeysInOrder`: a join that compares its keys in another order than that of its predicates finds other rows (section 7).

From `Right` of the root of the joins, `ResultCorrect` (with `KeysInOrder`, which is in `ResultIsRight`). Without aggregation the root is `Right`, and no predicate is missing there by `PredInv`. With one step the input is in one
partition, and an aggregate over a group in it is one over the group in `Answer`: the rows correspond one to one, and a sum over a set does not change under
a bijection (`SumImage` and its like in `DataInduction`). With two steps, the sum over the tasks of the sums over their rows is the sum over all (`SumOfSteps`), which covers COUNT, a sum of ones.
The theorem has two conditions, and without either the code does drop or add a predicate (section 7). `ConstantsAreApplied`: in a query of one table no predicate is without columns.
`NoFilterInTwoSteps`: if the plan aggregates in two steps, there is no HAVING and no predicate at the scan (or join) that the first step has its properties from.

**Induction.** The provers cannot instantiate the library's induction theorems, whose predicate is an operator. `DataInduction` states induction over numbers and over sequences
for a *set*, `0 \in T` and `T` closed under the successor, or `<< >> \in T` and `T` closed under `Append`, and derives it from
the fact that a well-founded order has minimal elements. With it come induction over finite sets, in the same way, the laws of `FlattenSeq`, which is a recursive function, of counting in sequences (`Times`), of lists in order (`Growing`) and of sums over finite sets.

**Only model-checked.**

* Liveness and all that rests on ENABLED (`JobEnds`, `OrderlyFlowsEnd`, `ScanEnds`, `AggregationEnds`, `ReadersEnd`): outside what the backends do.
* `ReferencesCorrespond`, `RejectedIffIllegal`, `AnswerIsRight`, `TypesAgree`: `Expressions` and what builds on it are recursive operators, of which TLAPS proves nothing.

## 7. What the code does differently

Three disagreements between a comment and the code have a run that shows them:

* **Stages scheduled twice** (`scheduler.rs:98-105`, `bushy_OnlyDependentsScheduled`). "If this was the last task in a stage, schedule any dependent
  stages". `runnable` returns each stage whose children are complete and none of whose partitions has *reported*.
  When one input of a join completes while the other is still at work, that one is sent again. With several
  partitions its duplicates are counted: the stage counts as complete with a partition missing, the join reads
  incomplete input, files are truncated while they are read, and `run_flow` may return with tasks of the flow still
  at work. So `CompletionIsReal`, `ConsumerSeesCompleteInput`, `FlowComplete` and `NothingLeftBehind` hold for linear graphs, where they are proved, and for one partition
  per stage (`OneThreadIsEnough`), and not for joins in parallel.
* **Keys compared in column order** (`pop_hashmatch.rs:325`, `hash_match_OnlyMatchesEmitted`). "Make sure the actual keys match". With `p.1 = b.2 AND p.2 = b.1` the wrong
  columns are compared. As all hashes are 999, nothing else tells keys apart.
* **COUNT(\*) shifts references** (`qst.rs:256`, `group_by_ReferencesCorrespond`). The `*` is expanded to all columns after the places behind it are given: in
  `SELECT s, COUNT(*), SUM(a + b) ... GROUP BY s` the SUM is one of the second column of the table, a string.

Seen while modelling, where nothing in the repository says what should happen; the models follow the code and the
runs' inputs or properties are restricted as noted:

* A joined row is returned once for each column of the build side (`pop_hashmatch.rs:58`), so that SELECT over a join has its rows several times, and COUNT and SUM
  count and add them several times. `EmittedPerColumn` states it of the operator; `ResultIsRight` (`Copies`) and `AnswerIsRight` (`Times`) state what comes of it, and that nothing else is wrong with the number of rows.
* A build side with a column of type Float64 panics (`alloc_build_arrays`, `pop_hashmatch.rs:193`); `IsJoined` leaves it out of what is to run.
* The bound of half the buckets (`pop_hashagg.rs:521`) is a `debug_assert!`. In a release build the search does not end once 1000 keys fill the
  table. `hash_agg` has one bucket more than keys.
* An aggregation in two steps (`lop.rs:505-519`) loses HAVING, and its first step applies the WHERE predicates of the scan again, to groups: when the
  column is not a key it panics (`ColumnsFlow`), and when the number is one of a key it tests another column. `planner` has one such
  query with a column that is not there; `IsAnswered` leaves out WHERE and HAVING with partitions. What is not a key, an aggregate or a quotient
  of them is an error in two steps (`lop.rs:622`, returned by run_job): `SELECT SUM(b) + 1 ... GROUP BY s` is answered for a table of one partition and rejected for one of two. Below a quotient that error
  is unwrapped and panics (`lop.rs:616`). `RejectedIffIllegal` names this as the one kind of legal query, besides that of unclear stars, that is rejected.
* A predicate of constants (`1 = 2`) is bound by no scan (`lop.rs:459`); with one table it is never applied (`ConstantsAreApplied` of `ResultCorrect`).
* `append_virt_cols` (`lop.rs:230`) filters the new columns by themselves: nothing is appended to a list that exists. The list is empty or complete whenever
  it matters (`FlowInv`, `WriteInv`), so this is without effect. The keys of a repartitioning are compiled for the columns of its child and evaluated on
  its own projected chunk; both agree in every plan (`WriteInv`). `lop.rs:713` passes `isomorphic` the same expression twice.
* Two tables without an equality between them have no plan ("No join found").
* Names. With `FROM t x, t` the prefix `t` picks the first, though only the second is called that, and with `FROM t x, t y` it is
  accepted; `QueryMeaning` takes this for the rule (`Named`), so that the properties hold of such queries as well. With `FROM t x`, `t.*` expands to nothing (`IsAnswered` leaves it out), and so does a star with
  a prefix in the select list of a GROUP BY (`IsQuery` leaves it out). `SELECT *` over tables that share the name of a column is rejected as ambiguous, legal as it is: the second kind of legal query that
  `RejectedIffIllegal` names (`StarsAreClear`). With `GROUP BY s`, `SELECT x.s` is rejected: the split compares spellings; `UsesKeysOnly` has this for the rule.
* Types. AVG of integers, and their quotient, is declared Float64 and is an Int64 (`qst.rs:262`), so that what is computed of it panics.
  In an operation of two numeric types only the right operand is cast: the left one panics when it is the narrower, and so does
  a literal of another type. A scalar on the left of an operator and NOT have no code (`pcode.rs:174`). MIN and MAX of Float64 panic.
* Keys of GROUP BY: integer keys panic at the second row of a bucket (`pop_hashagg.rs:406`), those of Float64 always,
  NULL keys at the first (`pop_hashagg.rs:113`). Strings get a pair of quotes with each aggregation, so that HAVING compares
  quoted strings. `COUNT(DISTINCT e)` is COUNT. (`IsSupported`, `IsAnswered`; quotes are taken off before answers are compared.)
* CATALOG TABLE with COLUMNS does not open the file: that it is missing shows when a query scans it.
* A Parquet file without row groups panics (`pop_parquet.rs:41`). PARALLEL_DEGREE 0 makes stages without tasks for which run_flow waits
  for ever; -1 is cast to 2^64 - 1 partitions (`env.rs:34`).
* A bitset has 256 places for all elements any copy ever held (`bitset.rs:42`).
* A build side that is itself a join (a bushy plan) panics when a chunk of it has no match (`BuildVoidChunk`, `pop_hashmatch.rs:141`): the chunk
  has no columns. `planner` has such a plan, and computes it without chunks.

## 8. What is not modelled

* The parser, options, printing and graphviz: sequential and without state that outlives a
  call (of the options, PARALLEL_DEGREE is a constant of the models). `net.rs` is not part of the program.
* NULL outside `HashAgg`, and dates; overflow outside `HashAgg`; NOT, and casts written in a query.
* The numbering of bitset elements (`bitset.rs`): bitsets are sets.
* Nested query blocks other than the one `split_groupby` makes, CTEs, set operators and subqueries: the planner has no plan
  for them (it builds a scan for each quantifier of an ordinary block).
* File system errors: a task that meets one fails, and `FailTask` may happen in any state of a task.
* arrow2, the csv crate and the channels of `std::sync::mpsc`: modelled by how the code uses them (a reader of row groups, lines,
  unbounded FIFO queues).
