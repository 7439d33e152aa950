# Specifications of the school and university crawlers

The repository holds three Go programs and a shell script:

* `sekolah-crawler` lists every school of a public search API (`list`), cuts the list
  into parts (`split`) and fetches the full record of each school (`detail`);
* `run_parts.sh` runs `detail` over a range of parts;
* `pddikti-crawler` does the same for universities, in one file (`list`, `detail`);
* `jiraimport` matches a spreadsheet against the crawled files.

They share no memory and no network protocol: what connects them is files. A command may be
stopped at any time (Ctrl+C, the out-of-memory killer, a power cut) and is re-run with the
same arguments, so what each file holds when the next process opens it is what decides
whether rows are lost or repeated. That is the subject of these specifications.

## 1. Inventory

| Part | Source | State | Operations | Hard behaviour | What makes it correct |
|---|---|---|---|---|---|
| detail phase | `internal/crawler/detail.go` | output CSV, raw JSONL, checkpoint, error log; job channel, worker goroutines, one mutex | `RunDetail`: restart, load, open, feed, work, join | N workers on shared files, Ctrl+C at any step, crash between the row and its checkpoint line, ignored write errors | a checkpointed id has its row; an id that is done is never written again; rows are unique; runs end; re-runs finish |
| retry policy | `internal/crawler/retry.go` | attempt, backoff | `withRetry` | cancellation against the timer, last attempt | bounded attempts, permanent errors not retried |
| rate limiter | `internal/ratelimit/limiter.go` | next slot, mutex | `Wait` | concurrent callers, late timers, idle time, cancellation | slots an interval apart; the rate of every window is capped |
| list phase | `internal/crawler/list.go` | output CSV, shard checkpoint; recursion, seen ids | `RunList`, `crawl`, `pageShard`, `splitFurther`, `verifyCoverage` | crash inside a shard, unstable server order, too large shards | a checkpointed shard is complete; no school twice; "verified" means complete |
| kabupaten discovery | `internal/crawler/discover.go` | cache file | `DiscoverKabupaten`, `LoadOrDiscoverKabupaten` | crash while the cache is written | later runs use the whole list |
| capped list | `list.go`, `runSimpleList` | output CSV | page walk | cap inside a page, a kill that tears a row, re-runs that start over | each run appends exactly the first rows |
| split | `internal/crawler/split.go` | part files, group files | `RunSplit`, `runChunkSplit` | re-splitting over old parts, flushes nobody checks | the parts partition the list |
| detail schema | `internal/crawler/schema.go` | none | `FlattenDetail` | none | one column per header field |
| API client | `internal/api` | HTTP client | requests by class of reply | cancellation of requests in flight | errors classified for the retry |
| command line | `sekolah-crawler/main.go` | signal context | `list`, `split`, `detail`, `test` | one context for all goroutines | |
| part runner | `run_parts.sh` | results | loop over parts | exit code against failed ids, a detail process that survives its script | exit code 0 settles every id; re-running finishes all parts |
| pddikti detail | `pddikti-crawler/main.go` 407-558 | as the detail phase | `runDetail`, `fetchFullDetail` | several requests per row, whose errors are ignored; limiter inside the retry | as the detail phase, and whole rows |
| pddikti list | `pddikti-crawler/main.go` 355-403 | output CSV | `runList` | interruption, last page, re-runs that start over | each run appends exactly the list |
| jiraimport | `jiraimport/main.go` | CSV sheet, temporary file, a database it only reads | load, rank, score, fill in, write, rename | ties, ragged rows, edits and database changes between two steps, kills | the sheet stays whole, its codes fit together, a repeated import changes nothing |

`PROJECT.json` lists the hazards of this code line by line, with the properties that cover each.

## 2. Modules

| Module | Models | Proofs |
|---|---|---|
| `AppendThenAck` | abstract: a log whose rows are acknowledged one by one | |
| `DetailCrawl` | the detail phase with its retries; refines `AppendThenAck` | `DetailCrawlProofs` |
| `PddiktiDetail` | the detail command of the other crawler; refines `AppendThenAck` | `PddiktiDetailProofs` |
| `RateLimiter` | `Limiter.Wait` in discrete time | `RateLimiterProofs` |
| `ShardCrawl` | the sharded list phase, discovery and its cache | `ShardCrawlProofs` |
| `CsvFile` | a CSV file that a kill may tear, as it is read and appended to | |
| `PagedList` | the two list commands without a checkpoint | in `PipelineProofs` |
| `Split` | the split command, both modes | in `PipelineProofs` |
| `PartRunner` | `run_parts.sh` and the detail processes it starts | in `PipelineProofs` |
| `Pipeline` | the commands chained over their files: `PagedList`, `Split`, `PartRunner` | `PipelineProofs` |
| `JiraImport` | jiraimport: sheet, database, codes, rename | `JiraImportProofs` |
| `EditDistance` | `levenshteinRatio` of jiraimport | `EditDistanceProofs` |
| `Selection`, `SeqFacts` | a filter on sequences; lemmas on numbers and sequences | `SeqFacts` |
| `MC...` | small instances for TLC | |

Operators whose comment begins with "Faulty:" are not used by any specification. Each is a definition
with one plausible mistake in it; put in the place of the right one it makes a property fail, which
shows that the property can tell.

### DetailCrawl

`outFile`, `out`, `raw`, `doneLog`, `errLog` are the files; they survive `Kill` and, cut to a
prefix each, `PowerFail`. Everything else is memory and is reset by `FreshMemory`. `phase` is
the line `RunDetail` has come to (`rmDone`, `rmOut`, ..., `load`, `open`, ..., `feed`, `join`;
`down` when no process runs); `wpc[w]` is the same for a worker. `queue` is the part of
`pending` not sent on the channel yet, so that `Feed(w)` is the rendezvous of the `select` with
a worker that receives. It is a set of positions in the id file, and `Feed` sends the smallest, so
the order is that of the file. Between taking the mutex and releasing it a worker
makes separate steps (`WriteRow`, `WriteRaw`, `WriteNewline`, `MarkDone`), because a crash may
fall between any two of them. `Happens(lost)` spends one of `MaxFaults` operations that fail;
whether the code notices is in the action (the csv writer's error is sticky, never asked for).

### AppendThenAck

A list of rows, a list of acknowledged items, and the item that is due. A row is emitted only
for an item not acknowledged; then the item is acknowledged or abandoned; starting over forgets
the acknowledgements before the rows. The mapping of `DetailCrawl` is: rows are `out`,
acknowledgements are `doneLog`, the due item is the id of the worker that holds the mutex.
The mapping of `PddiktiDetail` keeps of each row the institution it is about. `PartRunner` uses
this contract in place of a whole detail process.

### PddiktiDetail

Same shape as `DetailCrawl`, with the limiter inside the retry and one step per sub-request.
A row is the institution and how many of its sub-resources are missing.

### RateLimiter

A call reserves a slot (`Reserve`, the section under the mutex) and then returns at once
(`PassNow`), when its timer fires, or when the context is done. `slots` and `at` are histories.
A waiting goroutine runs at most `MaxLate` after its time; with `MaxLate = 0` timers are exact.
The second limiter (`pddikti-crawler/main.go:125-158`) is the same code.

### ShardCrawl

The recursion of `crawl` is the sequence `agenda` of shards still to be visited, depth first.
The index of the server is a constant: its schools, and for each its kabupaten, status and
bentuk; `Answer(q)` are the schools a query matches. `base` is the filters the command is given
(chosen once for a behaviour); a shard adds to them. A page is the right slice of the matching schools
or, with `Steady = FALSE`, any matching schools up to a page. `Fails` is a request that fails for good,
which is also what Ctrl+C comes to; it ends the run with an error. Rows of a shard reach the file one
by one, since the csv writer's buffer may be handed on at any row. Discovery scans one category a
step, and the cache file grows line by line. The two removals of `-restart` may fail one by one.

### CsvFile, PagedList, Split, PartRunner, Pipeline

These five are one model, read bottom up. A file is a sequence of lines (`CsvFile`): the header, rows,
a torn last line (`Torn`, what a kill leaves of a buffer half handed on), or the line that arises when
the next writer appends to a torn one (`Garbled`, a row about a school nobody has, or one that makes
the reader fail). The three components share no variables; each has its own `Init`, step and trouble
(kills and failures), and `Pipeline` gives each the file of the one before:

* `PagedList`: one walk over pages for two commands. `tool`, `items` and `maxRecords` are chosen once,
  for all launches of a behaviour; `tool` decides the number of the first page, the cap, and the test
  for the last page. Every launch starts over and appends.
* `Split`: `parts` and `groups` are the directory. A split into chunks creates, fills and closes one
  part after the other; a split by a column appends every row to the buffer of its group and flushes
  all of them at the end, without asking whether that worked. A second split writes over the parts it
  needs and leaves the others.
* `PartRunner`: the loop of the script, with the detail process it waits for (`"child"`) and one that
  survived the kill of an earlier script (`"orphan"`). A detail process takes the pending ids of
  its part in any order and settles each: row then checkpoint line (`WriteRowOf`, `AckRow`), or a
  line in the error log (`GiveUp`).
* `Pipeline`: `flow` says what the user chains: the list straight into `detail` (part 0), a split into
  chunks and the script over them, or a split by a column.

### JiraImport

`file["csv"]` is the sheet, `file["out"]` the output when it is not in place, `tmp` their temporary files.
A run reads the sheet, loads two tables of the database (two queries, between which the database may
change), matches row after row, writes the temporary file and renames it. The ranking of the code
is there: hits choose a shortlist of `Limit`, scores choose from it, `Threshold` cuts, and among
equals any may win, because the code sorts the keys of a map. Hits and scores themselves are given with
the database. The user edits the sheet, and the database changes, at any step.

### EditDistance

The two-row table of `levenshteinRatio`, row by row and cell by cell, against `Distance`: the least
cost of all alignments of the two texts, which are sets of paired runes in order.

## 3. Runs

A run asks several questions of one instance. Where a property speaks of behaviours without kills
and failed operations, it says so itself (`kills = 0`, `faults = 0`, `Undisturbed`), so that it can
stand next to properties that must survive them.

| Run | Instance | Distinct states | Shows |
|---|---|---|---|
| `detail` | 3 ids, 2 workers, 2 attempts, with and without `-restart`, `-max-records 2`, raw and error logs, Ctrl+C, 1 kill | 1,036,600 | refinement of `AppendThenAck` (with the order of the removals); checkpoint behind rows and bodies; a clean exit settles every id; until the kill: unique rows, one object per line, rows under a header |
| `detail_liveness` | 2 ids, 2 workers, 1 kill or power cut, 1 failing operation | 281,282 | every run ends; patient re-running gets every id done; an acknowledged id is never written again |
| `limiter` | 3 callers, 5 calls, interval 2, lateness 1, times to 6 | 71,678 | slots spaced, rate capped in every window, every call returns |
| `shards` | 9 schools, 3 levels of splitting, a shard that stays too large, 3 sets of filters, `-restart`, `-max-records 4` for the cap, 1 kill, 2 outages, 1 failing operation | 48,004 | a checkpointed shard is complete; failing requests leave nothing of a shard; every run ends; after outages re-running lists all that can be found |
| `shard_unsteady` | 6 schools, pages in no order and short, 3 sets of filters, 2 outages | 16,348 | no school twice; verified coverage is real |
| `pddikti_detail` | 2 institutions, 2 sub-resources, 2 workers, 1 kill, every reply | 403,566 | refinement of `AppendThenAck`, unique rows until the kill, every run ends |
| `pipeline` | lists of 0, 2 or 3 items on pages of 2, caps 1 and 9, chunks of 2 and 3 or groups, 2 splits, 3 list and split commands, 1 trouble anywhere | 459,147 | each command that succeeds has done what its name says; exit code 0 down the chain settles the list; no school twice; re-running the script fetches everything |
| `jira_import` | 4 sheets (short rows, long rows, doubled and missing columns, summaries in a code column), 2 databases (one with ties), 3 launches, 1 edit, 1 change, 1 kill | 2,825,527 | the sheet is only replaced by the whole of itself with codes filled in; codes of a row belong together; a repeated import changes nothing |
| `edit_distance` | all pairs of texts of up to 4 runes out of 2 | 18,306 | the ratio lies in 0..1 and is that of the cheapest alignment |

Three runs end in a violation, each of something a document of the repository says
(`PROJECT.json`, "findings", has the quotations):

| Run | What the code does |
|---|---|
| `detail_write_error` | an id whose row could not be written is acknowledged |
| `shard_truncated_cache` | a kabupaten cache truncated by a kill is used for ever |
| `pddikti_interrupt` | Ctrl+C during the sub-requests leaves an incomplete row that counts as done |

A fourth divergence has no run, because `SuccessIsExact` states what the code does instead, and holds. The usage
text of pddikti says "Both commands resume automatically if interrupted: re-run the identical command"
(`pddikti-crawler/main.go:633-634`), the comment on the sekolah crawler "Both phases are resumable: interrupt with
Ctrl+C at any point and re-run the same command to continue where it left off"
(`sekolah-crawler/main.go:12-13`). The two lists of `PagedList` do not: they keep no checkpoint, open the output for
appending (`pddikti-crawler/main.go:357`, `list.go:346`) and start at the first page whatever it holds
(`pddikti-crawler/main.go:371`, `list.go:362`; the sekolah list only with `-max-records` inside the result
window). Of items 1, 2, 3 on pages of two, a list interrupted at its second request and run again leaves 1, 2, 1, 2,
3, and `detail` then fetches 1 and 2 twice. That is why `SuccessIsExact` says `IsSuffix(Expected, out)` and not
`out = <<Header>> \o Expected`, and why `NoSchoolTwice` needs `ItemsOnce(out)`: with either left out
the `pipeline` run fails.

### Conditions in the properties

Where a property stops short, it is because the code does. Each condition below excludes behaviours
that are real; without it TLC shows them:

* a kill between a row and its checkpoint line makes the re-run write the row again
  (`detail.go:191-196`), and a kill before the checkpoint line of a shard repeats all its rows
  (`list.go:273-278`); such a repeated row can make up for a missing school in the coverage check
  (`list.go:192`). So `NoDuplicateRows`, `NoSchoolTwice` and `VerifiedIsComplete` speak of no kills;
* a kill between a raw body and its newline joins two objects on one line (`detail.go:193-194`), one
  between the creation of a file and its header leaves it without one (`detail.go:120-129`):
  `OneObjectPerLine` and `RowsUnderHeader` are stated up to the first kill;
* a power cut may keep a checkpoint line and lose the row before it, since nothing is synced:
  `AckedHaveRows` is about a machine that stays up;
* of the removals of `-restart` one may fail and the other not (`list.go:91-94`): `DoneShardsComplete`
  excepts what follows;
* a list without its header loses its first school in `readIDs`, one with a torn line stops every
  later command: `ExitZeroSettlesList` is about clean lists, `AllFetched` about readable parts;
* a list command that is run again, or again after an interruption, appends its rows again (above), and ids listed twice are fetched twice: `NoSchoolTwice` is about lists without repetition (`ItemsOnce`)
  that are split once, up to the first kill. `NoDuplicateRows` and `ImplementsLog` of both detail commands are
  checked on id files without repetition, and their theorems assume that (`IsInjective(IdsFile)`);
* flushes of a split by a column are not checked (`split.go:121-125`): `GroupsCoverList` excepts a
  flush that fails;
* an edit of the sheet that its user saves during an import is lost (`jiraimport/main.go:607, 774`), a
  changed database or a tie gives other codes: the conditions of `ImportKeepsSheet`, `PairsMatch` and
  `RerunChangesNothing`;
* a header without a summary column makes the first column the summary (`jiraimport/main.go:654`), also when
  that is the NPYP or NPSP column: a code that reads like a school's name is then searched for by the next run and
  replaced. `RerunChangesNothing` excludes such headers (`Apart`). `PairsMatch` need not: a sheet that starts without
  codes has no summaries there, and an empty summary finds nothing (`main.go:449`).

Others hold by the shape of the code and need no run: Ctrl+C aborts requests in flight
(`client.go:63`), though `sekolah-crawler/README.md:117-118` says it finishes them; two calls of
`Wait` may return less than an interval apart when the first timer is late (`limiter.go:2-3` says
otherwise); a pddikti institution costs seven requests and one pass of the limiter
(`main.go:508, 266-299`).

### Bounds, and why they are enough

* Two workers: every clause about workers compares two of them, and a third adds no new pair.
  Three ids let one be done, one be held and one wait.
* Two attempts of five: the first, which may be retried, and the last, which may not. The attempt
  counter only matters by whether it is the last.
* One kill: the next process starts from files alone, so several kills are several times the same
  question, and the theorems of section 4 hold for any number of them. Launches are not bounded in
  the detail and shard models.
* `MaxFaults`, `MaxOutages` bound operations that fail: one failure can fall at any step, and two
  outages let the second fall into the run that repairs the first.
* Window 3 and pages of 2: the smallest pair with a page that is not the last, a short last page,
  a shard that fits and one that must be split at every level.
* `MaxCalls` 5 and `MaxTime` 6 for the limiter: interval 2 and lateness 1 make lateness visible without hiding the order of slots.
  Five calls let three callers queue, give up, go idle and come back.
* `MaxCommands` 3 and `MaxTroubles` 1 of the pipeline: list, split and split again, or list twice and
  split, with one kill, failure or Ctrl+C at any step of any command. The script is not bounded.
  Three items on pages of two, in chunks of two or three, give a full and a short page, a part more and
  a part less than before.
* `MaxLaunches` 3 of the import: a first import, one that is disturbed, one that repairs.
* Texts of four runes: every order of insertion, deletion, replacement and match fits.
* Symmetry over workers is used in `detail` only, which has no liveness property.

### Fairness

`RunTerminates` and `WaitReturns` assume that a goroutine that can run does run and that a request
ends, which the client timeouts guarantee (30 s at `sekolah-crawler/main.go:38`; the pddikti client
has one too). Nobody is assumed to interrupt or kill. `ResumeCompletes` of the detail phase has its
assumptions as an antecedent, `Patience`: the operator launches the command again (`WF` of
`Launch(FALSE)`), a server asked for the same id again and again answers it at some time (`SF`,
since every run makes the request anew), and Ctrl+C is not pressed for ever; this is what "safe to
re-run the same command" relies on. The shard runs that ask about re-runs use `RerunSpec`, which adds
`WF` of `Launch(FALSE)`; it says something only while no process runs, so `RunTerminates` does not
gain from it. `RerunsFinish` of the pipeline assumes that a command that runs goes on (`WF`) and that the
user launches `detail`, or the script over all parts, again and again (`SF`, because other commands may
take turns with it); outages are finite there, so a server that answers needs no assumption.

### Deadlock

TLC checks for deadlock in every run of the detail, shard, pddikti detail and pipeline models, where a
command can always be launched again: a feed loop and workers that wait for each other would be one.
The limiter and the import stop at their bounds on calls and launches, the edit distance at its result;
only their configurations turn the check off.

## 4. Proofs

For every value of the constants that the named `ASSUME`s of the modules allow; TLC evaluates the same
assumptions in every run. A proof module has the lemmas first, then one step per action.

`DetailCrawlProofs`, for any workers, ids, attempts, schedules and number of runs:

* `TypeCorrect`: types, and what a worker in its loop holds (`Holding`).
* `AlwaysConsistent`: when no id is listed twice, `Mutex` (the worker between row and mark holds the
  mutex), `Quiet` (nobody works during setup) and `Claims` (an id is queued or in one worker's hands, never
  both, never done). `Claims` alone is not inductive: `MarkDone` acknowledges an id, and that no other
  worker holds it needs distinct claims and distinct ids; that nobody holds a record when `LoadPending`
  fills the queue needs `Quiet`.
* `DoneIsFinal`: from `Claims`, since `WriteRow` is the only action that appends.
* `RowsBeforeAcks` and `BodiesBeforeAcks`: while writes succeed and the machine stays up, every acknowledged id
  has a row and, with a raw log, a body. The strengthenings (`RowsFirst`, `BodiesFirst`) say that the id about to be
  marked has them and that, during a restart, the checkpoint is empty before the other two files are. Duplicate ids
  in the list do no harm here.
* `RowsAreUnique`: up to the first kill or failed operation, when no id is listed twice. The strengthening says that every row is
  acknowledged but the one whose writer holds the mutex.
* `LinesAreWhole` (`OneObjectPerLine`): the raw log ends with a newline, except between the two writes of the worker
  that holds the mutex; a body is appended only by such a worker (`LinesWhole`).
* `HeaderComesFirst` (`RowsUnderHeader`): workers start behind the step that writes the header, and no run ends with
  workers left over (`Rested`), so that the next run's setup has the files to itself.
* `CleanExitIsComplete` (`CleanExitAccountsForAll`): a run that returns nil has settled its whole pending list, after
  whatever kills and power failures. The code has nothing that could be asked at the end but two counters, so the
  invariant is an equation: done and failed of this run and the records still queued or in a worker's hands add up to
  the pending list (`Counted`), no record is in two hands (`OneHand`), and with an error log every record of the id
  file is in the checkpoint, in the error log or unsettled (`Named`). When the last worker leaves and nobody
  has interrupted, nothing is unsettled.
* `DetailImplementsLog`: every step is one of `AppendThenAck` or a stutter.

`PddiktiDetailProofs`:

* `TypeCorrect`: the types are not inductive by themselves; `Sound` adds that an attempt asks for each
  sub-resource once (`left + missing` within `SubRequests`), that a worker backs off only with an
  attempt left, who holds `mu`, and when workers are idle.
* `RowsAreUnique` and `PddiktiImplementsLog` (the latter with writes that succeed), when no id is listed twice: as
  for the other crawler, from `Claims`. The queue is a sequence here, so the argument needs that filtering the id file and taking
  the head of the queue keep its elements distinct (`SelectProperties`, `TakeHead` of `SeqFacts`).

`RateLimiterProofs`, for any callers, interval, lateness and number of calls:

* `TypeCorrect`.
* `SlotsStaySpaced` and `AggregateRateCapped`. The invariant adds that `next` lies an interval beyond
  the last slot (`NextFollows`), that waiting callers are not late by more than `MaxLate`
  (`Waiting`) and that returns are punctual (`Punctual`). The cap follows: the slots of the calls
  granted in a window lie in a window `MaxLate` wider, and so many slots an interval apart do not fit
  in more than that; the first and the last are found by taking the least and the greatest index.

`ShardCrawlProofs`, for any index, filters, window, page size and number of kills, outages and faults:

* `TypeCorrect`, whatever order the server pages in.
* `SkippingLosesNothing` (`DoneShardsComplete`), on a server that pages in a stable order (`Steady`): every shard in the
  checkpoint has its rows in the output.
  The invariant follows a shard through its visit: the pages fetched so far are a prefix of its answer,
  what is not buffered is written already (`seenIDs`), and while the buffer is flushed, what is not
  written is still in it. Schools skipped because an earlier shard had them are the hard part: their rows
  are in the file because only a flushed shard adds to `seenIDs`.
* `ListedOnce` (`NoDuplicateRows`), in any order of pages. Within a run `seenIDs` prevents a second row, but it is
  empty in the next run. What prevents it there is geometry: a shard is paged only if every query it was split from
  was too large (`Proper`), so two paged shards that share a school are the same shard
  (of two splits of one query by different values a school is in one). Hence every row is owned by exactly one
  shard, which is in the checkpoint or in hand (`Accounted`), and a shard in the checkpoint is not paged again. The
  walk must keep the shards of its agenda proper (`ProperAgenda`), which needs of discovery only that it splits
  queries without a kabupaten.
* `VerifiedMeansComplete` (`VerifiedIsComplete`), in any order of pages: the coverage check compares two
  counts. They stand for sets because no school is listed twice (`Once`) and none is listed that does not match.
* `ShardsAreWhole` (`AllOrNothing`), with `Steady`: rows come into the output by a paged shard only, and of that shard all
  rows or, while they are written, some. A shard that fits the window but is not paged lies within the one
  that was paged in its place, or shares nothing with it.

`IndexTabulated` of the module only makes TLC compute the index once; no proof uses it. `Steady` is assumed where
the code relies on it: without it, `DoneShardsComplete` and `AllOrNothing` do not hold.

`PipelineProofs`, for any lists, page sizes, caps, chunk sizes and groups, and any number of commands, kills and failures:

* `PipelineTypeCorrect`: the types of all three components. They need to know what a header line is: rows
  under a header contain none (`Headless`), however often a torn file was appended to. That rests on the
  assumption that the three special lines are no items (`SplitAssumption`).
* `ListsAreExact` (`SuccessIsExact`): a list command that exits with 0 has appended exactly the list or its
  first `-max-records` items, for any list, page size and cap. The invariant says that the rows written
  since the launch are those of the pages before this one and the rows of this page up to the place the
  walk has come to; that the walk stops neither early nor late is arithmetic on the two tests for the last page.
  Every action of the other commands leaves it alone, which the proof shows too.
* `PartsHoldTheList` and `GroupsHoldTheList` (`PartsCoverList`, `GroupsCoverList`): the invariants say that the parts
  before the open one are exactly their chunks (`ChunkInv`), and that the buffer of every group holds the rows of that
  group among those read so far (`GroupInv`); the concatenation of all chunks is the list, and a filter of a
  sequence grown by one element is the filter grown by at most one (`SeqFacts`). Old files in the directory do
  not matter: a part the split needs is emptied when it is created.
* `ExitZeroIsHonest` (`ExitZeroSettlesList`): exit code 0 of list, split and script means that every item of the
  list is in a checkpoint or error log. The chain is an argument over three programs. Lists and splits
  happen only while no script runs (`Chain`), and a detail process works only on a part that stays as it is. The loop
  knows that the parts behind it with result OK are settled (`LoopInv`); a detail process has every id of
  its part settled or in its hands (`InHands`), also when an orphan of an earlier script writes the same
  files, because checkpoints and error logs only grow (`LogsGrow`). Then `PartsHoldTheList` says that the parts are the list.
* `PartsDoNotInterfere` (`NoSchoolTwice`): without kills, and with the list neither repeated nor split anew,
  no item gets two rows. No item is in two places of the parts (`SplitCalm`, from the two theorems on the split); an item
  with a row has one, written by the detail process of the part it is in, and is in that part's checkpoint or about to
  be (`RowsOwned`); what that process has still in its hands has none (`HandsApart`).

`JiraImportProofs`, for any sheets, databases and ranking, and any number of launches, edits, changes and kills:

* `ImportTypeCorrect`: sheets stay sheets, with rows of any length, longer than the header or shorter.
* `SheetIsKept` (`ImportKeepsSheet`): what is renamed over the sheet is the whole of what was read, with cells
  changed in the code columns only. By `Computed`: the lines in memory are those that were read, the header
  extended, with some outcome of `Search` filled into the rows already matched.
* `RerunsAreIdle` (`RerunChangesNothing`): a sheet that was imported is a fixed point of its tables (`ImportSettles`). Its
  header is not extended again, its rows are not padded again and the summary of a filled row is that of
  the row before, so without ties the same codes are found, and they are there already. That the
  summary is that of the row before needs `Apart` (section 3).
* `CodesBelongTogether` (`PairsMatch`): over any number of runs, also those killed or failing at any step. A first import
  writes the two codes of one record (`MadeIsPairedSheet`); every later one, from the same tables, is idle by
  `ImportSettles`. Where summaries would stand among the codes, a sheet without codes stays without (`MadeStaysCodeless`).
  Two assumptions on the constants carry this (`ImportAssumption`): hits are found among the records
  loaded, and the empty text is not a summary that is searched for (`main.go:449`).

`EditDistanceProofs`:

* `RatioStaysInRange` (`RatioInRange`): by the invariant that a cell of the table never exceeds the
  greater of its two indices.
* `RatioIsExact` (`RatioIsSimilarity`): by the invariant that every cell filled so far holds the least cost over all
  alignments of its two prefixes (`Least`). That is the recurrence of the table (`LeastOfThree`): an alignment of two
  prefixes leaves one of the last runes unpaired or pairs the two (`LastOfAlign`), and what each of these adds is a
  fact about cardinalities (`DeleteLast`, `InsertLast`, `PairLast`). It needs no induction over texts: the two
  loops do it.

`SeqFacts` has what these proofs share: filters of sequences, concatenations of blocks, removal at a place,
sequences without repetition.

Only model-checked: liveness (the prover has no fairness), that is `RunTerminates`, `ResumeCompletes`,
`ResumeAfterOutages`, `WaitReturns` and `RerunsFinish`. Every invariant and every action property of the passing runs is
stated by a theorem.

## 5. Not modelled

* Durations: backoff, jitter and `Retry-After`; how many requests per second retries add.
* CSV quoting, JSON decoding, HTTP, and the columns of a row (`schema.go`, `types.go`, the `flatten` of
  pddikti): each maps one value to another, without state.
* In jiraimport: how a name becomes tokens (roman numerals, leading zeros at `main.go:119`) and the weights of
  `scoreCandidate`. They decide which numbers are compared, not what is done with them.
* Lines torn by a power cut or a kill in the detail and shard models, whose files are cut between
  lines; the list files of `Pipeline` are torn inside a line.
* Other filters between two runs over one output (`list.go:136`), and changes of the index between two
  requests, other than an unstable order of its pages.
* Two commands over one output at once, other than the orphan of a killed script.
* `-restart` of a list with `-max-records`: `PagedList` only knows launches without it. Such a launch starts like the
  first one, without a file, except when the removal fails unnoticed, which makes it one of those modelled.
* An unstable listing in `PagedList`: its pages are slices of one order. In `ShardCrawl` the pages of shards may be in
  no order (`Steady = FALSE`), but those of the discovery are always slices.
* In `CsvFile`, a cut inside the last field of a row, which leaves a row that can be read. A row that is joined to a
  torn line makes one row about nobody (`Garbled`) or leaves the file unreadable; in the second case the
  model keeps the torn line last, though the code puts the rows that follow on lines of their own: no command can
  read them.
* More than one orphan at a time in `PartRunner`, that is two scripts killed within one part.
* Removals that a power cut undoes: in `PowerFail` files lose what was appended last, or that they were created.
* Flag parsing, `test` and `usage`, which keep no state.

## 6. Plan

Done: every command that keeps state, the chain of commands, the refinement of both detail phases, and the
proofs above. What is left, by weight:

1. Safety parts of the liveness properties, such as that a step of a run always brings it nearer to its end, which need
   a measure instead of fairness.
2. Filters that change between two runs of `ShardCrawl`, once the code records them in the checkpoint.
