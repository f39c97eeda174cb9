# TLA+ models of sub-sdk

sub-sdk is a collection of Go packages for building services: a websocket hub, access rules,
tokens, captchas, archives that are uploaded to an object store, a cache in front of a database,
imports and exports of spreadsheets, edits and copies of files, a queue of mails, helpers for queries, a description of tables for a
code generator, and a client of an S3 store. It has no
main program: every package is a component of its own, and the protocols worth modelling are inside
the packages, or between a package and the services that it calls (redis, the database, the object
store, the mail server, the shell).

The modules here model the packages whose calls take several steps, run concurrently or may fail
halfway. TLC checks each on small instances; TLAPS proves type correctness of each and
the safety properties that hold, for all values of the constants.

Paths are relative to `src/`. `PROJECT.json` lists components, runs, findings, hazards, theorems, and
for every definition the lines of code that it stands for.

## The system

### Components that are modelled

| component | state it keeps | operations | modules |
|---|---|---|---|
| websocket hub, `websocketx` | `hub.clients`, a buffered channel per client, two pumps per connection | `ServeWs`, `Hub.Run`, `readPump`, `writePump` | Hub, BroadcastLog, HubProof |
| access rules, `casbinx` | the one enforcer and its copy of the rule table | `Casbin`, `UpdateCasbin`, `ClearCasbin`, `UpdateCasbinApi`, `GetCasbinByAuthorityId` | Policy, Access, AccessProof |
| tokens, `jwtx/jwtx.go` | none on the servers; the client holds a token | `GetTokenClaims`, `GetToken`, `ParseToken`, `CheckToken`, the `Get...FromToken`, `ParseTokenFromRequest` | Token, Access, AccessProof |
| captchas, `captchax` | answers in a cache, with a lifetime | `Set`, `Get`, `Verify`, `Generate` | Captcha, Access, AccessProof |
| archives and transfers, `filex` | a file, several parts, or a pipe to `PutObject` | nine packing functions and their unpacking | Archive, Background, BackgroundProof |
| cached connection, `gormx/cachedgorm.go`, `gormx/batchx` | entries in redis with their lifetimes; the database | `QueryCtx`, `QueryRowIndexCtx`, `QueryWithExpireCtx`, `ExecCtx`, `BatchExecCtx` | CachedConn, CachedConnProof |
| excel import, `toolx/excelImport.go` | a transaction; the lines that were read | `SaveDb`, `SaveDbByName`, `ReadExcelIo` | ExcelImport, AtomicImport, ExcelImportProof, Sheet |
| excel export and tags, `toolx/excelExport.go`, `toolx/tag.go` | a file with one sheet | `NewMyExcel`, `ExportToPath`, the `ExportToWeb...`, `GetTag` | Sheet, Query, QueryProof |
| temporary-file editing, `toolx/file.go` | files, and one temporary file for all edits | `FileInsertInfoSeek`, `FileInsertInfoLine`, `WriteFileString`, `WriteFileByte` | Edits, FileSystem, EditsInvariants, FilesProof |
| paths and files, `pathx`, `filex/file.go` | the tree of files | copying, moving, renaming, making and removing of files, directories and embedded templates | Trees, FileSystem, EditsInvariants, FilesProof |
| code generator, `gormx/gen` | the list of columns of a table | `NewAutoCodeService...`, `GetColumn`, `FindIndex` of three databases | Gen, Query, QueryProof |
| notification queue, `notifyx` | a bounded channel | `Push`, `run`, `Mail.send` | Notify, Background, BackgroundProof |
| searches, `gormx/query.go`, `condition.go`, `search.go` | clauses and joins of one query | `ResolveSearchQuery`, `MakeCondition` | Search, Query, QueryProof |
| rule conditions, `condition` | the result of one loop | `EvaluateCondition` | Condition, Query, QueryProof |
| sort numbers, `gormx/sort.go` | a number per row | `CalculateSort` | SortOrder, Query, QueryProof |
| shell execution, `shellx`, `utils/*shell*` | a process group, a worker goroutine, a channel | four `ExecShell` | ExecShell, Background, BackgroundProof |
| object storage client, `minioCli` | objects, unfinished uploads, two channels per removal | removal by prefix and by age, `ClearPrefix`, `RestoreObjectsLife`, listings, `GetObject` and its like | ObjectStore, ObjectStoreProof |

What is hard in each, and what makes it correct:

* **Hub.** Hub goroutine, pumps and `ServeWs` interleave; `writePump` reads `len(c.send)` and then
  receives as often, while the hub sends to and may close the same channel. Correct: every peer gets a
  contiguous run of the hub's message order, a slow peer is evicted without losing its backlog, no
  closed channel is used, one stuck peer blocks nobody.
* **Access rules.** Every operation begins by loading the whole table into the copy that all share,
  and `UpdateCasbin` is a clear and an add with two loads. Correct: an update replaces exactly the rules of
  its authority, a listing is not older than the call.
* **Tokens.** Renewal needs the second half of a lifetime, clocks differ, answers arrive in any order.
  Correct: a client that keeps coming is not logged out.
* **Captchas.** Reading and removing are two calls. Correct: one attempt per captcha.
* **Archives.** Errors in a goroutine must reach `PutObject` through a pipe; deferred closes run after
  errors and may fail unseen; a file may be shorter than its header said. Correct: no error means a complete archive or one that
  does not unpack, unpacking gives back the source, parts are cut where `maxSize` says, no goroutine is stuck.
* **Cached connection.** Commit and deletion of keys are two steps, readers run in between, redis may
  fail. Correct: an outdated entry has a known cause and does not last; one loader per key.
* **Excel import.** Importers read the same `max(id)`, batches end at a boundary, the deferred function
  decides from `err` whether to commit. Correct: all rows or none, and the caller is told which.
* **Excel export.** Only the order of the columns says which cell is whose; empty cells at the end are not in the file. Correct:
  what was exported is what an import reads.
* **Edits and files.** All edits share one temporary path; a tree is walked by listing first and acting later, while other
  calls change it; every step may fail. Correct: a copy without an error is complete, a renaming gives every file its name
  once, an edit happens or does not unless its `Flush` fails unseen, what is appended is kept.
* **Code generator.** Columns and indexes come from several queries, and the table may change in between; Postgres keeps one
  index of a column. Correct: no column or primary key that was there all the time is lost.
* **Notification queue.** `Push` blocks on a full queue that one goroutine empties once a second;
  connections hang. Correct: every `Push` returns and every mail comes to an end.
* **Searches and conditions.** Clauses are kept in a map by their text, joins are nested, and the loop over
  conditions stops early. Correct: the statement asks for what the form asks for; AND and OR mean what
  their comments say.
* **Sort numbers.** Up to three unlocked queries and a store. Correct: distinct numbers, in place.
* **Shell execution.** The caller reads `cmd.Process` while the worker writes it; children keep the pipe
  open. Correct: the deadline returns the caller and kills the whole group.
* **Object store.** Lister, client and caller meet on unbuffered channels, a batch waits between listing
  and request, others put and delete objects, restoring takes its time. Correct: success means done, only old
  objects expire, no goroutine stays behind, a patient caller gets its object.

How they meet: `UpdateCasbin` and the searches use the database directly and do not go through the
cached connection; the uploads of `filex` take a minio client of their own, not the one of `minioCli`;
captchas use go-zero's redis as the cached connection does, with other keys; an edit ends in a move by `filex`, on the
same files that copies and renamings work on; what is exported can be imported. So there
is no module that composes, say, Archive with ObjectStore: no code does. What does meet is composed: the calls on one tree of
files (Edits extends Trees), an export and the import of its file (Sheet), Hub with its specification
BroadcastLog, and ExcelImport with AtomicImport (refinement). Packages that do not meet are checked side by side in unions, one of them in a
behaviour: Access (rules, tokens, captchas), Query (form, conditions, sort numbers, code generator, sheets)
and Background (mails, shell commands, archives).

### Components that are not modelled

| component | why |
|---|---|
| data permission, `gormx/datapermission.go` | one WHERE clause per scope, no state; its text for scope 4 lacks a closing parenthesis (lines 36-42) |
| database configuration, logging, tracing | wiring of gorm, forwards lines and spans |
| string, number, time, crypt helpers | conversions of one value |
| console, responses, errors, middleware, http clients, `wechatX` | one-shot formatting of output, responses and requests |

## Modules and code

Contents of files and messages, names and texts are abstracted to what the properties tell apart. The control is kept: every
guard, early return, error path and deferred call, in the order of the code. Variables marked "history" in
the modules are not in the code; properties compare the state with them.

**Hub** (`websocketx`). `Upgrade` and `StartPumps` are the two halves of `ServeWs`, `HubRegister` and
`HubBroadcast` the rendezvous on the unbuffered channels, `HubSend` and `HubEvict` one round of the range loop
(a send, or `default`: close and delete), with `pending` for what the loop has still to visit. `WriterTake`,
`NextWriter`, `WriterDrain`, `CloseFrame` are the steps of one frame in `writePump`: receive, take a writer
and read `len(c.send)` into `n`, receive `n` times, close. A message is its position in the hub's order.
`BroadcastLog` is the specification: a log, subscribers with a starting point, and deliveries in order.

**Policy, Token, Captcha** and their union **Access**. In Policy a load is two actions, `LoadReads` and
`LoadApplies`, since the adapter reads the table before the copy is replaced; removing and adding change table
and copy in one step under the enforcer's lock. In Token every server has a clock of its own and `CheckToken`
is three actions, one for each time it reads the clock. In Captcha `GetRecord` and `DelRecord` are the
two calls of the cache in `Get`.

**Archive** (`filex`, in the union **Background**). The variable `form` says which of the nine functions runs. `TarEntry`, `ZipEntry`,
`Copy`, `FileEnd`, `NextPart`, `WalkEnds` are the walk with its headers, data and parts, `Trailer` and `Flush`
the deferred closes in their order; every close of a writer, an encoder or a file may fail unseen (`Closes`: the part keeps only a beginning, `kept`), while the function returns nil; `Read`, `PutReturns`, `PutFails` are `PutObject` at the other end of the
pipe; `Fail` is the failure of the call that is due. `Begin`, `Unpack`, `PartEnds` and `Finish` take the parts apart again, one block
a step; a part that is broken or an entry that cannot be written ends that (`UnpackFails`). `CompressAuto` and `DecompressAuto` only choose a form.

**CachedConn** (`gormx`). go-zero's `cache.Take` is external and modelled from its use: `Enter` (become the
leader of a key or wait), `Get`, `Query`, `Put` or `PutNone`, `Finish`. `PutPrimary` stores the row
under its primary key while the index is loaded, with a lifetime longer by `Gap`. `Exec` is the commit,
`Del` the deletion afterwards, whose keys are those of the old data only (`ExecKeys`), which the caller has read before the statement (`Prepare`): another write may have
changed the row in between, and `missed` remembers the keys that are not deleted for that. Every call of redis and of the database may fail.

**ExcelImport** (`toolx/excelImport.go`). `ReadSheet`, `GenData`, `NextBatch`, `Insert`, `BatchDone` and
`Deferred`, the deferred function that commits or rolls back. `ReadSheet` may read a beginning of the sheet only, since errors of `GetRows` are dropped; a panic inside a later `Create`, which would commit the batches before, is not modelled. A transaction sees committed rows, and an insert of
an id that another transaction holds waits for its end. `AtomicImport` is the specification: imports one after the other, each saved
at once or not at all, with ids that go on from the table; `Told` maps results to what the caller was told, and whether it is true.

**FileSystem, Trees, Edits** (`filex/file.go`, `pathx`, `toolx/file.go`). FileSystem has what package `os` does to a
tree, a function from paths to directories and to nodes with data, so a file that is open is read although its path has
changed. In Trees every call has a stack of steps (`todo`), one for each use of the file system: a loop over
entries pushes a step for each (`CopyEntries`, `RenameEntries`), and recursion pushes further ones, so all that was listed and
not yet acted on is visible and can become stale. `Refused` is the error of any step, except where the code drops it. Edits
adds the insertions, `EditOpen`, `EditTemp`, `EditRead`, `EditFlush`, the `Move` of Trees and `EditCleanup`, and the writings `WriteLook`,
`WriteMake`, `WriteOpen`, `WriteEnd`. `spoilt` remembers edits whose temporary file was used by another one, `unflushed` those whose last `Flush`
failed, of which the code does not look at the error: the file is cut off, anywhere, and the edit returns nil. `NewPath` is the name that the code gives a file in a renaming.

**Sheet** (`toolx`). `GetTag` looks at one field a step and lists those with a tag (`tags`), `Cell` is what `NewMyExcel` and `writeData` put into a cell,
`Lines` what excelize gives back, without empty cells and lines at the end, `FieldAt` the position rule of `CreateMap`,
`DataOf` the conversions of `GenDataInt` (`Converts`: texts, float64 and uint64, nothing else comes back). Records are added one an action, and their values drawn from the kinds of fields.

**Gen** (`gormx/gen`). `AskColumns` is the first query; MySQL and Sqlite then ask column by column (`MysqlIndex`, `SqliteIndex`),
Postgres once (`PostgresIndexes` with the choice of `getIndex`, `Chosen`). `elsewhere` is the table of the same name in another schema, whose columns
`GetColumn` of Postgres finds too (`Found`), `rowid` the INTEGER PRIMARY KEY of Sqlite, which `index_list` does not have. `Change` is somebody else's DDL.

**Notify** (`notifyx`, in Background). `Push`, `Handle` and `Wake` (the loop of `run` and its pause), and for every mail
`Check`, `Dial` (up to `MaxTimes`), or `Hang`.

**Search, Condition, SortOrder** and, with Gen and Sheet, their union **Query**. Search walks a form field by field, with the operators of its driver, Postgres or MySQL; `Join` and
`EndOfForm` push and pop the condition that clauses go to; `MakeCondition` puts one condition a step into the statement. Condition is the loop of `EvaluateCondition`,
one condition an action. SortOrder has one action for every query of `CalculateSort` and one for the store
by its caller; floating-point halves are exact until `Unit` is reached, and rounded then.

**ExecShell** (`shellx`, `utils`, in Background). `CallShell` chooses the implementation and whether the context is done already. The variable `impl` says which of four implementations runs. `Fork` and
`SetProcess` are two steps of `Start`, so the caller's `Deadline` may see `cmd.Process` nil although the
process exists; that is the data race, with both outcomes. The shell and its children are the environment.

**ObjectStore** (`minioCli`). One sweep (variable `job`) with its goroutines: `ListNext`, `ListEnd` (the
listing), `Gather`, `Post`, `RemoverEnds` (the client's), `Drain`, `DrainEnd` (the caller's); `SweepAsks` asks
to restore a listed object; `Feed` is the goroutine of `ListIncompleteUploads` with its channel of one place, which `ClearPrefix` leaves behind when it returns at a failed removal (`Abandoned`). `Stat`, `Ask`, `Read` are the fetching of a cold object. `Put`, `Delete`, `Lapse`,
`Thaw` and `Midnight` are everybody else.

## Runs

Six runs pass and show the properties they name; six exhibit a disagreement between code and comment.

| run | bounds | what it shows |
|---|---|---|
| hub | 2 connections, buffer of 1, 3 messages | `UpToDate`, `DrainNeverBlocks`, `CloseAfterBacklog`; `ImplementsBroadcast`: the hub refines BroadcastLog; `SendersReleased`: blocked pumps are released though writers stop; `Delivered`: when writers run, registered peers catch up |
| access | 2 roles, 2 apis, 2 updates, 1 listing, 1 rename; 2 servers (clocks 1 s apart), 2 overlapping requests, a lifetime of 3 s, 4 s; 2 captchas, 2 verifications | `Replaced`: an update leaves exactly what was asked, and others' rules alone; `ListedFresh`; `Survives`: who keeps coming stays logged in; `OneAttempt` |
| background | 3 messages, queue of 1, 3 tries; 4 implementations of `ExecShell`, a shell and 2 children; single files of 0 to 2 blocks, directories of up to 2 entries of every type, parts of 2 blocks, an encoder that holds 2 back; 2 importers, 4 workbooks of up to 5 rows with empty and full sheets, batches of 2 | `EveryMailEnds`: `Push` returns and the mail comes to an end; `KillIsComplete`, `ReturnsAtDeadline`, `WorkerEnds`; `Complete`: no error means that every entry is archived, or that a part has no end; `SplitSizes`; `RoundTrip`: a part without its end does not unpack; `UploadEnds`: the goroutine and `PutObject` do not block each other; `AllOrNothing`, `DenseIds`; `ImplementsAtomic`: racing imports refine AtomicImport; `ImportsEnd`: no two wait for each other |
| cache | 2 connections, 1 row, 2 values of the index; 1 write among all queries, or 2 overlapping writes with the queries of one connection | `OneLoader`; `Coherent`: an outdated entry has one of four causes; `EventuallyFresh`: once prolonging reads stop, outdated entries go away for good; `CallsReturn` |
| query_files | forms of 4 fields, 2 deep; 4 conditions; 3 rows, 2 overlapping calculations, numbers to 3 in halves; 2 columns, 4 indexes, 2 changes; 3 structures, 2 records; any 2 of 31 calls on a tree of 7 files, 5 deep | `AllAsked`, `AllOrAny`, `DistinctSorts`, `Adjacent`; `EveryColumn`: no column or primary key is lost but in Sqlite, and none is made up; `SheetRoundTrip`: what a sheet can keep comes back to its own field; `CopyComplete`: without an error every file is there, with what was in it; `RenamedOnce`; `EditsCommit`: an edit happens or does not, unless its `Flush` fails unseen; `AppendsKept` |
| object_store | 3 keys, 2 initial stores, batches of 2, 1 getter, 2 disturbances | `Thorough`, `OnlyExpired`, `AnswersFit`; `Ends`: no goroutine is left behind but the listing of the uploads after a failed removal, and a caller that keeps asking gets its object |
| archive_file | single files | violation of `FileRestored` |
| excel_sheet | 1 importer | violation of `NamedSheet` |
| files_line | 1 edit of a file whose last line has no end | violation of `EveryLineKept` |
| files_names | 1 renaming of a directory with two levels below | violation of `RenamedThroughout` |
| store_expired | as object_store | violation of `PastLifeDay` |
| shell_orphan | `shellx/cmd_nowin.go` | violation of `NoOrphan` |

Two runs are of packages that do not meet: MCBackgroundImport of Background and ExcelImport, MCQueryFiles of Query and
Edits. A variable (`turn`) chooses which of them a behaviour is of, and the other stays as it is, or, where fairness would ask it
to go on, has come to its end before: as they share no variable, no interleaving of the two
could tell a property anything that the behaviours of each do not. MCCachedConn likewise chooses one of two scenes, which bound the
calls that are made; every step of a call once made stays possible.

Why these bounds are enough:

* *hub.* Two clients are the one that is slow and the one that is not. With a buffer of one, three
  messages fill it, overflow it, and leave one for the client that stays. `writePump` drains at most one
  message with this buffer; longer drains are covered by the proofs, for all buffers.
* *access.* Two updates of the same and of different roles, one listing between their loads. A lifetime of
  three has a half that is rounded, and four seconds let a token be renewed and expire. The three parts
  share nothing; the variable `part` of Access lets a behaviour be of one part, so that their interleavings are not multiplied.
  Roles, updates and requests are interchangeable (symmetry), and no property of this run is a liveness property.
* *background, archives.* Two entries give every pair of types, order and fill level of a part; two blocks reach
  `MaxSize` exactly and in two steps. Every call may fail at every step.
* *cache.* One row has a value of the index that it had and one that it gets. A write between any two
  steps of a reader is enough for the races, and two writes whose old rows were read before either for keys that are outdated; `CoherentCorrect` and `OneLoaderCorrect` hold for every
  number of rows and writes.
* *background, imports.* Five rows are two full batches and a partial one; sheets with no line, a title only,
  and exactly one row are among them. Two importers race; the theorems hold for any number.
* *background, mails.* A queue of one is full with the second message, and the third waits.
* *query_files, queries.* Four fields are a form within a form with a field before and behind it. Three rows are the least
  with a row between two others. One column has its primary key behind another index; two changes drop something and add it again.
  Fields without a tag are at the beginning, in the middle and at the end of the structures; a second record shows an empty
  line. Rows and callers are interchangeable, and no property is a liveness property.
* *background, shell.* A child that outlives the shell and one that starts late.
* *query_files, files.* Two calls are every pair that can meet. The tree has a directory in a directory in a directory, which is
  where the recursions differ from the loops; names that are taken, a new name that is an old one, and a missing directory. Paths are
  at most five long: a copy of a directory into itself ends there, as it does at the longest path of the system.
* *object_store.* Three keys with batches of two give a full and a partial batch. The sweep that restores is
  a second asker for the getter's object. Two disturbances are the least to delete an object and put it again.

`CHECK_DEADLOCK FALSE` is set where the modelled calls end: there is a last step. The cache runs for ever.

### Fairness

* *Hub.* The hub goroutine runs. A sender blocked in an unbuffered channel is in a queue of the Go runtime and
  `select` picks among ready cases at random, hence strong fairness for registering and broadcasting. Only
  `Delivered` assumes that `writePump` runs, which its write deadline (`writeWait`) justifies.
* *Background.* Goroutines run: the fairness is that of its three parts, of which those never called have nothing enabled. No call is promised.
* *Archive.* The packing goroutine runs and `PutObject` reads its pipe; nothing promises that `PutObject` fails when nobody closes the pipe.
* *CachedConn.* Calls that began go on, and time passes. No call is promised to begin or to succeed.
* *ExcelImport.* Importers go on. Nothing makes one fail that waits for another.
* *Notify.* The run goroutine and mails go on; senders blocked in a buffered channel are served in order,
  hence strong fairness of `Push`. A dial may hang for ever.
* *ExecShell.* Caller and worker run. Nothing is assumed of the command or of the context.
* *ObjectStore.* The three goroutines run, the store restores what it was asked to, and a caller that is told to wait comes back.
* Access, Query and Edits state no liveness and assume no fairness.

## Proofs

TLAPS proves the following for every value of the constants that meets the assumptions named in the modules.

**HubProof** (`BufSizeAssumption`, `MaxMsgsAssumption`). `TypeCorrect`, and by one inductive invariant,
`HubInv`, `HubCorrect`, of which `ContiguousCorrect`, `UpToDateCorrect`, `NoPanicCorrect`, `DrainCorrect` and
`CloseCorrect` are parts. The properties are not inductive alone: that a frame continues the queue needs to
know that clients not yet registered have nothing queued, and that nobody is given more than the log
has; `Lifecycle` says so. `HubRefinesBroadcast` shows that each step maps to a step of BroadcastLog or leaves it
alone: registering subscribes, a rendezvous on `broadcast` publishes, a frame that the connection accepts delivers.

**CachedConnProof** (`KindsAssumption`, `ExpiryAssumption`, `WritesAssumption`, `SentinelAssumption`).
`TypeCorrect`, `OneLoaderCorrect`, `CoherentCorrect`, from `CacheInv`: types of database, cache and processes,
uniqueness of the index, `OneLoader` and `Coherent`. Uniqueness is needed because an index entry is current
only if no other row has taken its value. Every step is by one process, so `Frame` gives what the others keep.

**ExcelImportProof** (`BooksAssumption`, `BatchAssumption`, `ImportersAssumption`). `TypeCorrect`,
`AllOrNothingCorrect`, `ReportedCorrect` (no error: every row is saved), `DenseIdsCorrect` and `ImportRefinesAtomic`, from `ImportInv`: `Flow` ties the position of an
importer to the rows it has inserted, `Contents` says that the table consists of the committed importers' rows,
`Dense` that its integer ids are 1 to the largest, and `OneHolder` that of the importers whose transaction
holds such ids there is one, and that it began at the largest. The last is the heart of it:
two importers that read the same largest id collide at the first row. For the refinement it gives that an
importer that commits integer ids looked up the id that is the largest still, so that its rows are those of an import made at that moment.

**ObjectStoreProof** (`StoresAssumption`, `BoundsAssumption`). `TypeCorrect`, `ThoroughCorrect`,
`OnlyExpiredCorrect`, `AnswersFitCorrect`, the first three from `SweepInv`: `Stages` ties goroutines and channels to each other, `Pending` says
where an object that is due can be (gone, before the listing, listed, in the batch, reported as failed), and
`Holds` that what the sweep by age carries is old or was put anew since. A step of others concerns one key,
which it adds to `touched` unless it changes the object's restoring only (`Spares`). `AnswersFit` needs `Seen` besides: what a
getter does next is what `AfterStat` says of the object that it saw.

**AccessProof** (`PolicyAssumption`, `TokenAssumption`, `EmptyAssumption`). `AccessTyped`, `ReplacedCorrect`, `ListedFreshCorrect`,
`SurvivesCorrect`, `OneAttemptCorrect`, from `AccessInv`, which is one invariant for each part. Rules: an update that nobody has
disturbed is the only one of its authority and its rules are cleared (`Cleared`); what a listing has loaded has every rule that was
there all the time and none that was never there (`Fresh`). Tokens: `Fits` ties the times of a token to each other, and `Answered` says
that a request goes on only with a token that was accepted, so that the answer of a renewal lives longer than what it replaces. Captchas:
what the cache holds is the answer or nothing, nothing once it was taken, and only one call can be about to remove it (`Attempt`).

**BackgroundProof** (`ImplsAssumption`, `QueueCapAssumption`, `MaxTimesAssumption`, `SourcesAssumption`, `SizeAssumption`).
`BackgroundTyped`, `KillIsCompleteCorrect`, `CompleteCorrect`, `SplitSizesCorrect`, `RoundTripCorrect`, from `BackgroundInv`. Shell: the
process is known only after it was started, and a kill of the group leaves none of it. Archives: every entry that was walked has
one header, its data is behind it in the same part and is counted (`Counted`, `Behind`), and data is missing only from an archive with a broken part;
for splits, `Sized` says that the current size counts the data of the part at hand. Unpacking has made what is in the blocks before its place (`UnpackInv`).
Of the queue the invariant says that a message is in it once and that its mail begins when it leaves; its property `EveryMailEnds` is liveness.

**QueryProof** (`UnitAssumption`, `IndexAssumption`, `NumberAssumption`, `BoundsAssumption`, `ModelAssumption`). `QueryTyped`, `DistinctSortsCorrect`,
`AdjacentCorrect`, `EveryColumnCorrect`, `AllOrAnyCorrect`, `SheetRoundTripCorrect`, `AllAskedCorrect`, from `QueryInv`.

* Sort numbers: `Sound` says what a call that was not disturbed knows of the rows at each of its queries: nobody is between the
  neighbours that it has read. A call that another one disturbs is excused, so the step to prove is that no other call takes its place
  without disturbing it. Halves are in units of 1/`Unit`, for every `Unit`.
* Code generator: `Steady` and `Listed` say that what was there all the time is in the reply, in the list, or still to be asked for; and that the
  choice of Postgres is the primary key whenever there is one.
* Conditions: `InLoop` is `AllOrAny` while the loop runs: every AND so far has matched, since the first that does not ends it.
* Sheets: a trimmed sequence is the beginning of what was written, and behind it all was empty (`TrimmedIs`, `LinesAre`); `TagsInv`
  makes positions of columns and fields correspond, which `ImportInv` uses cell by cell.
* Searches: `Collected` says that what each field asked for is in its condition, unless a later one took its place, `Stated` that the statement has what
  the conditions have that went to it, and `Ranked` that its orders are in the order of conditions, and of fields in each. Depth and number of
  fields are arbitrary.

**FilesProof** (`OrderAssumption`, `TreesAssumption`, `EditsAssumption`). `FilesTypeOK`, `AppendsAreKept`, `InsertionsCommit`, `FilesRenamedOnce`, `FilesCopyComplete`. The
inductive invariants are in a module of their own, EditsInvariants. The
assumptions: names are distinct, every directory above a path of the tree at the start and of the template is there, a prefix and a suffix make different names of different ones,
nobody removes the root or edits a file in the directory of the temporary file, and in a file that is edited every second word is the end of a line.

* A call may write at and below the paths of `Writes` only, and its steps hold only such paths and nodes of files there (`StepOK`,
  `NewOK`); every one of the 40 steps changes the tree in one of six ways (`Changes`). From this `TreeFrame`, `DataFrame` and `NodeAlone` say once what calls
  that do not write at a path leave alone there.
* `AppendInv`: of all that writes at a file that is only appended to, nothing but a step that looks, opens or appends is left, the last holds
  the node that stands there, and that node stands nowhere else.
* `CommitInv`: the file of the insertion stands alone and has its old text until the step that moves the temporary file onto it, and the new text after it,
  or a beginning of that when the flush failed (`Reached`);
  the temporary file is empty until it is flushed and then has that text, since another insertion that uses it makes both spoilt (`TempNodes`,
  `TempNode`). `ShapeInv` says what an insertion has left.
* `RewrittenLines`: what the loop writes word by word is `Inserted`, which goes line by line. `FlattenSeq` is recursive: a choice of a function
  exists for every sequence (`JoinsExist`), and facts about it are proved by the least number for which they fail (`Least`).

* `RenameInv`: for every file below the directory there is one step on the stack that renames it or will lead to that (`Covers`), or none and it has its
  new path; and the file is where that step will look for it. It is at its old path until the directory right below the first one that it is in has
  the new name (`Behind`), and then at the path `Moved` (`Ahead`). A step that reads a directory is replaced by one step for each of its entries, of which one covers the file
  (`NamesListed`, `DirsListed`, `WaysOne`); a new name is free, because it was when the renaming began and new paths differ from all others
  (`NewPathFree`, `NewPathsApart`, `NamesApart`), so that no file is replaced.
* `GroundInv`: at and below a path where nothing happens but renamings of what is below a directory, with free new names (`Calm`), stands exactly what stood there at the start,
  each file with its text and each path with some names replaced by the new ones (`Alias`); a renaming moves all of it or nothing (`GroundMoved`). So what a copy reads under a path that it has listed
  before is what was listed, or is missing, and then the copy ends with an error (`GroundAt`, `CopyGoesOn`).
* `CopyInv`: a copy without an error so far has every file of its source at its place (`Copied`), or has one step left that will copy it (`Copying`): one whose path it
  is below (`Begins`), one that makes the file (`Opens`), or one that pours into the empty file that stands there (`Pours`). No two steps make the same (`CopySteps`), so
  a file that is complete is not emptied again; what stands at the target is the copy's own (`CopyNodes`).

`CopyComplete` is about copies of a source in which others do nothing but such renamings (`Steady`). Free new names are needed: the attempt to prove it without them led to a copy of `a/b` while
`a` is renamed by name, where a directory beside `b` gets the name `b` and is copied in its place, without an error.

Three modules were changed so that they can be reasoned about, to finer steps than before: unpacking, `GetTag` and `MakeCondition`
have an action for each round of their loops.

Only model-checked: every liveness property (`SendersReleased`, `Delivered`, `EveryMailEnds`, `ReturnsAtDeadline`, `WorkerEnds`, `UploadEnds`,
`EventuallyFresh`, `CallsReturn`, `ImportsEnd`, `Ends`), since liveness under fairness is out of reach of the prover. Every
invariant that a run checks, and finds to hold, is the statement of a theorem. What a property excepts, its theorem does not cover either: overlapping edits, captchas,
updates of the same rules and calculations, failed listings of a removal, and the other cases that the comments of the properties name. `ContiguousCorrect`, `NoPanicCorrect`, `ReportedCorrect` and the theorems of types are
not among the properties of the runs; `ImplementsBroadcast` and `ImplementsAtomic` say more.

## Findings

* `files_line`: both insertions of `toolx/file.go` stop at the end of the file (lines 36 and 87) before they write what was read there: the last
  line of a file that does not end with a newline is dropped, without an error.
* `archive_file`: `filex/zstd-upload.go:344` takes a stream that is not a tar archive for a single file,
  but line 287 has read its first block looking for a header; the file comes back without it.
* `excel_sheet`: `getSheetIndexByName` counts from 1 and `ReadExcelIo` from 0, so `SaveDbByName` imports the sheet
  behind the named one, and panics for the last.
* `files_names`: `pathx/file.go:209-210` says that `RenameFilesAndDirWithPrefixAndSuffix` renames all files and directories, recursively; the
  recursion renames files only, so that directories below the subdirectories keep their names.
* `store_expired`: `minioCli/remove.go:62`, 70 and 84 say that objects older than `lifeDay` days are removed; line 90 compares `>=` calendar days, and
  with a `lifeDay` of 1 an object put before midnight is removed after it.
* `shell_orphan`: a context that is done before the worker has set `cmd.Process` returns `DeadlineExceeded` and kills nothing (`shellx/cmd_nowin.go:57`).

Seen while modelling, modelled as the code has it where it concerns a model, and without a run:

* `websocketx/client.go:57-60`: the unregistration of a client is commented out. A client whose pumps have
  returned stays in `hub.clients`, and its connection open, until broadcasts fill its buffer.
* `condition/condition.go:60-73`: the result starts as true, so a list that begins with OR is accepted at once.
* `jwtx/jwtx.go:136` says that an expired token is refreshed within a time; `CheckToken` refuses it, and renews
  tokens that are still valid. `GetToken` writes a numeric `userId`, which `ParseToken` never accepts. `ParseToken`
  dereferences nil for a text that has not three parts.
* `casbinx/casbin.go:59`: when the first load fails, `sync.Once` is spent and every later call dereferences nil.
* `captchax/store.go:33-42`: `Get` returns the empty text for a captcha that is not there; an empty answer equals it.
* `minioCli/bucket.go:36` promises to remove a bucket with all objects; the call fails unless it is empty.
* `toolx/file.go:19-20`: edits of different files at the same time use one temporary file, and lose text. Nobody makes its
  directory: without it every edit fails, and the first that succeeds removes it, so that the next one fails. Line 50 ignores
  the error of `Flush`: a full disk replaces the file with an incomplete one.
* `toolx/file.go:128-135`: a file that is made by another call after `FileExist` has looked is emptied, also when text is to be appended.
* `filex/file.go:131`: `CopyFile` of a file onto itself empties it, and `CopyDir` into a directory below the source copies what it has just made until the path is too long.
* `filex/file.go:198`: `FileMove` is said to need a directory as its target; onto a directory the renaming fails.
* `pathx/file.go:243` says that `RenameFilesWithPrefixAndSuffix` does not go into subdirectories; lines 252-253 do. A file that has one of the new names is replaced without a word.
* `gormx/query.go:15-26` says that the types with an i ignore case (ILIKE on Postgres) and that those without do not; lines 87-119 make no difference between
  the two: on Postgres `iexact` is `=`, and `contains`, `startswith` and `endswith` are ILIKE. `AllAsked` is about the clause that the code makes.
* `gormx/gen/pg_gen.go:97-145` finds the table by its name alone: columns of a table of that name in another schema are listed too, those of both several times.
* `gormx/gen/sqlite.go:50`: `pk` is read and not used, so an INTEGER PRIMARY KEY, which has no index, is a column without a key. `gormx/gen/mysql.go:114`
  lists a column once for every index that it is in.
* `toolx/excelImport.go:190` and 234: int, int64, uint, uint32 and float32 fall to `default: continue` and are dropped without an error. Lines 79 and 85 drop the errors
  of `GetRows`, which come with the rows before the one that cannot be read.
* `filex/tar.go:59-67`, `filex/zip.go:118-133`, `filex/zstd.go:34` and their like: what a deferred `Close` returns is ignored, so an archive without its end is
  reported as a success; an empty `.zst` unpacks as an empty file.
* `gormx/batchx/batchx.go:26-31`: the cache keys come from old rows that were read before the statement; when two writes change the index value of a row, the
  one that commits last may miss the key that the other one has brought in.
* `minioCli/clear.go:32-35` and 50-53 return while the goroutine behind `ListIncompleteUploads` still sends: it waits until the context is cancelled.
* `minioCli/remove.go:18` promises to remove all objects; when the listing fails, lines 32 and 80 log it, and nil is returned with objects left.
* `pathx/file.go:35`: `CreateIfNotExist` looks and then calls `os.Create`, which empties a file made in between.
* `gormx/gen/type.go:49-52`: `NewAutoCodeService` takes the service of Postgres for Sqlite and that of MySQL for Postgres.
* `gormx/gen/sqlite.go:68`: a column whose index query fails is left out of the table, without an error.
* `toolx/excelExport.go:56`: a field whose tag has options (`json:"name,omitempty"`) is an empty column, since the whole tag is looked up; numbers of more than 15 digits
  and times do not come back. `ExportToWebGin` goes on with nil after an error (line 100). A name that is not allowed for a sheet loses all cells
  without an error (line 197), and an import of that file panics.
* `filex/zip.go:218` ignores the error of the walk.
* `toolx/excelImport.go:286` ignores the error of `Commit`; a panic in the import commits (the deferred
  function sees a nil error), which is harmless where a sheet without a title panics, because nothing was inserted then.

## Plan

In order of importance; the first sixteen are built.

1. Hub, BroadcastLog and the proof of the refinement.
2. CachedConn, its coherence and its proof.
3. ObjectStore and its proof.
4. ExcelImport, AtomicImport and the proof of the refinement.
5. Archive: packing, uploading, unpacking.
6. ExecShell.
7. Notify.
8. Policy, Token, Captcha, side by side in Access.
9. Search, Condition, SortOrder, side by side in Query.
10. Runs for disagreements with comments.
11. FileSystem, Trees and Edits: the calls on one tree of files.
12. Gen and Sheet, in Query.
13. Background, the union of Notify, ExecShell and Archive.
14. AccessProof, BackgroundProof and QueryProof, and `AnswersFit` in ObjectStoreProof.
15. FilesProof: types, `AppendsKept`, `EditsCommit` and `RenamedOnce`.
16. `CopyComplete` in FilesProof, with `GroundInv` and `CopyInv`.
17. An abstract specification for the captcha (an answer that is taken at most once) and for the rules (an
    atomic replacement), with Captcha and Policy shown to implement them for calls that are not excused.

Assumptions of the models that a user of the packages must keep: `MailService` is set before the first `Push`; an
`ExcelStruct` is used for one import; the destination of an unpacking is neither `.` nor `/` (below which the path checks
of `filex` accept nothing) and does not exist yet; days have 24 hours; listings are in the order of the keys.
