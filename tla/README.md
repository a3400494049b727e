# Verification of ms2pg

TLA+ models of ms2pg, the SQL Server to PostgreSQL migration tool in `src/`, the TLC
configurations that check them on small instances, and TLAPS proofs of the properties
that matter most. Paths below are relative to the repository (`src/...`).

## The system

One process (`main.go`, `internal/app`) parses flags, derives a context that SIGINT and
SIGTERM cancel, and calls `loader.Runner.Run` once. There is no state file and no
resume: whatever a run leaves behind is in the PostgreSQL target.

| Component | State | Operations | Interacts with |
| --- | --- | --- | --- |
| Loader, `internal/loader` | position in the pipeline, `pendingViews`, `retryViews` | `Run`: introspect, map, prune foreign keys, validate, prepare, defaults, copy each table, reset sequences, indexes, unique constraints, checks, foreign keys, views in passes | calls the source and the target, one after the other |
| Table copy, `targetdb.CopyTable` and `mssql.StreamTable` | a bounded channel of rows, `err`, `current`, `finished`, two contexts | producer goroutine, `Next`/`Values`/`Err` called from pgx's encoder goroutine, `CopyFrom` | shares the channel and `err` between three goroutines; one SQL Server query, one PostgreSQL COPY |
| Target DDL, `internal/targetdb` | none of its own; the PostgreSQL catalogue | `PrepareDatabase`, `Create*`, `ResetSequences`; each statement is a transaction of its own | PostgreSQL, other runs through it |
| Validation, `targetdb.Validate` | none | name collisions, disabled objects, untranslatable definitions | guards the first change of the target |
| Introspection, `internal/source/mssql` | the catalogue it builds, maps of keys still to be completed | ten catalogue queries, outside a transaction | SQL Server, and through it every session that changes the source |
| Filters, `internal/catalog` | patterns | `MatchesSchema/Table/View` | introspection |
| Rewriting, `internal/sqlrewrite` | a scanner over one text: position, nesting depth, placeholders | `Protect`, `ProtectIdentifiers`, `ProtectExpression`, `Restore`, `RewriteCalls` | translation, validation |
| Translation, `postgres.go` and `internal/mapping` | none between definitions | views, checks and defaults in several passes over the text | rewriting; its verdict goes to validation, its text to the target |

Hard behaviours: three goroutines and two servers that can each fail, hang or be
cancelled during a copy; a pipeline of dozens of statements that can stop after any of
them and is never rolled back; several runs against one target; statements that take
effect after their client has given up; a source that keeps changing while its catalogue
and its rows are read; a view order that is found by trial; texts that are taken apart and
put together again by up to four passes, none of which parses SQL. `PROJECT.json` lists them, each at its line.

What makes each part correct:

- **copy**: all rows in order or none; success only for all; an error only for a reason;
  it always returns and leaves no goroutine behind.
- **loader**: a run touches only what it created; it never loads a table twice; success
  means everything selected exists; failure after the first change has a cause that
  could not be known before.
- **identity**: generated values are fresh; bounds agree with the source type.
- **constraints**: the target accepts the writes the source accepts; creating a
  constraint does not fail on consistent data.
- **introspection**: what was in the source all the time is in the catalogue, keys and lists
  of columns that never were are not, and a run that copied a table without columns does not
  report success.
- **filters**: a table or view is selected exactly when its schema and its name are.
- **rewriting and translation**: rewriting sees the code and nothing but the code; what
  comes out means what went in; what is accepted calls nothing the target does not have.

## Modules

| Module | Models | Depends on |
| --- | --- | --- |
| `TableCopy` | abstract specification: what the loader may assume about `CopyTable` | |
| `StreamCopy` | `CopyTable`, `streamCopySource`, `StreamTable`, pgx's side of COPY, the server's COPY | refines `TableCopy` |
| `StreamCopyProof` | proofs about `StreamCopy` | |
| `Catalog` | the catalogue: selection, foreign key pruning, `Validate`, the statements and their order | |
| `SharedTarget` | abstract specification: what runs may do to the target they share | |
| `Migration` | `Runner.Run` for several runs against one target | `Catalog`; refines `SharedTarget`; a table copy is one statement, by the contract of `TableCopy` |
| `MigrationProof` | proofs about `Migration`: of any number of runs, of a run that has the target to itself, and of the refinement | `CatalogProof` |
| `CatalogProof` | lemmas about the operators of `Catalog` | `NumberProof` |
| `Identity` | one identity column from source to live target | |
| `IdentityProof` | proofs about `Identity` | `NumberProof` |
| `Constraints` | one unique key, check and foreign key from source to live target | |
| `ConstraintsProof` | proofs about `Constraints` | |
| `Filters` | include and exclude patterns, and what they are meant to select | |
| `Introspection` | `Introspect` against a source that changes, and the run that follows | `Filters` |
| `IntrospectionProof` | proofs about `Introspection` and `Filters` | `NumberProof` |
| `NumberProof` | lemmas about least and greatest numbers, induction over a set, increasing functions | |
| `Protect` | the scanner that cuts literals, comments and names out of a text, and `Restore` | |
| `ProtectProof` | proofs about `Protect`, for every text | `NumberProof` |
| `Translation` | the passes over views, checks and defaults, and the verdict of `Validate` on them | `Protect` |
| `MC*` | instances for TLC | |

### StreamCopy

`main`, `prod` and `enc` say where the caller, the producer and the encoder are; `srv` is
the COPY as PostgreSQL sees it. An action is a step between two points where another
goroutine can act: a channel operation, a lock, a call that blocks. Rows are numbers in
the order of the source query; columns are left out because both sides use
`table.Columns` in the same order. `err` is only ever changed by `SetErr`, under its
mutex in the code.

pgx is not part of the repository. Of `CopyFrom` the model keeps what `CopyTable` relies
on: it starts one goroutine that pulls rows and encodes them, hands them over when its
buffer is full or the rows are finished (so `EncodeRow` may stop to flush after any row),
asks `Err` before it hands anything over and once more when nothing is left, closes the
pipe with an error or with end of file, and sends CopyFail or CopyDone accordingly; it
joins the goroutine before it returns; a done context closes the connection.
`StreamTable` runs under the run's context and not under `copyCtx`, as `loader.go:92`
passes it: a producer that waits for SQL Server is not released by `cancelCopy`, one
that waits for the channel is.

`fault` is a history variable: it records that something failed or was cancelled, for
`NoSpuriousError` to refer to.

### Catalog and Migration

A catalogue is a record of sequences in the order in which the code's loops visit them
(names sorted). One schema is modelled; a name stands for a schema-qualified name. Each
statement states what relations it needs, which names must be free (`creates`) and which
name PostgreSQL picks by itself if it is free (`implicit`, the sequence of an identity
column). `unsupported` is the set of objects whose definition the translation rejects.
`Consistent` and `Layered` say what SQL Server guarantees of a catalogue: nothing hangs on a
table that is not there, a foreign key refers to a key or index of its table, and a view selects
only from tables and from views that were created before it.

`plan` is what a run has made of the catalogue and its selection before it touches the target:
the catalogue it works on, whether `Validate` accepts it, the names `PrepareDatabase` looks
for, and the statements. `created` is what a run has taken in the target: the names of
`creates`, and those of `implicit` that were free.

`Migration` runs the statements of `Program` one at a time: `Send`, `TakeEffect` or
`Refuse` in the target, `Succeed` or `Fail` in the run. A run may be cancelled, crash,
or lose its connection between any two; a statement it was waiting for becomes an orphan
that may still take effect (`OrphanTakesEffect`) or not. The source is taken to be
consistent and constant here; `Constraints` looks at rows and `Introspection` at a schema
that is neither.

`SharedTarget` says what all this may amount to, seen from the target: a run takes names
nobody has, and keeps them for good; a table receives its rows once, and from the run it
belongs to; and a run that has reported success takes nothing and loads nothing any more,
not even by a statement that was still on its way. It knows of no stages, statements or
views. Its variables are some of those of `Migration`, and `SharesTarget` says that
`Migration` implements it.

### Identity

The source column generates values, takes explicit ones under `SET IDENTITY_INSERT` and
loses rows; `CreateColumn` renders the bounds and the start, `CopyRows` brings the values
over, `ResetSequence` derives the state of the sequence from them, and the target then
generates values of its own. Integer types are scaled down to `Width` bits; `tinyint`
stays unsigned, the others signed.

### Constraints

Two source tables are in use and their unique key, check and foreign key are disabled
and enabled again, with or without validation. `Introspect` reads their state,
`Validate` and `PrepareDatabase` accept or reject, the two tables are copied in either
order while the source may go on changing, and the constraints are created over what was
copied, in the order of the loader. `NULL` is a value that equals itself in SQL Server's
unique keys, and in PostgreSQL's only under `NULLS NOT DISTINCT`. Updates are left out:
the two servers differ in which untrusted constraints an update rechecks. Collations are
left out as well, as the README of the tool does.

### Filters and Introspection

`Filters` is a module of operators: `MatchesTable`, `MatchPattern` and `path.Match` as the
code has them, on names that are sequences of symbols, next to `Selected`, which says what
the README promises: a pattern with a dot is one pattern for the schema and one for the
name.

`Introspection` maps table names to what the queries read of them: columns in order, with
the seed of an identity column, and keys with their entries. `LoadTables` ... `LoadViews` are
the ten queries, in the order of `Introspect`. Each sees one state of the source; between
any two of them other sessions may create, alter, rename columns of, or drop tables
(`Alter`, `Drop`), as far as SQL Server lets them (`Consistent`). A query over keys gives one
row for each entry, in the order of its ORDER BY (`InOrder`), which the code puts together
again in maps (`KeyOf`, `SameKey`);
`SeedOf` corrects the seeds the column query could not know. What a run makes of such a
catalogue decides whether the mix does harm: `CreateTables`, `CopyTable` and `Constrain` keep
of the pipeline which columns each step needs, on which side. `Validate` is not part of it,
since it never asks whether the columns of a key are there. `steady` and `ever` are history
variables: what was in the source all the time, and at any time.

What `NothingInvented` says of the catalogue differs from one kind of entry to the other,
because the queries do. A key comes from one query and is compared as a whole. The names of a
table's columns, their order and which of them are identity columns come from one query too
(`Outline`). Their seeds come from the next one: after an alteration between the two, a list of
columns with its seeds may be of two moments, and is, in the run. Each seed is then still one
its column had at some time, or 1, which `loadColumns` puts in first and which stays if the
column is no identity column any more or has another name (`ColumnExplained`). A column that
was an identity column all the time has its own seed, by `SteadyIsComplete`.

### Protect and Translation

A text is a sequence of symbols: one for each character the scanner looks at, one for a
blank, a line end, or a word. Words are whole because nothing in the code looks inside of
one, with one exception: an N in front of a literal, which is a word of its own here.
Placeholders are symbols that occur in no text. In the code they are texts between NUL
characters, whose prefix grows until the input does not contain it, so that they are never
part of a word, a blank or a parenthesis, and never one of the symbols the scanner looks at
(`PlaceholdersAssumption`).

`Protect` has one action for each way the scanner moves on (enter, move, leave, for names,
literals and the two kinds of comment), under the three combinations of options the code
uses. `ProtectSpec` is the scanner on its own: it reads any text in which no placeholder
occurs (`Readable`), under any of the options, and after it another one. Each pass of
`Translation` that protects a text is such a reading; the property `ProtectSpec` of the run
`translation` says so, and carries over what is proved about every text. Two promises of
`protect` are stated there. `OnlyNormalised`: with a part of the text in the place of each
placeholder, what was written is the text, and the part differs from the fragment only where
a bracketed name became a quoted one or the prefix of a literal was dropped; a text with
neither is restored as it was. `NothingLeftToProtect`: where names are protected too, no
symbol that begins a literal, a name or a comment is left for a rewriting to find.

`Translation` runs the passes over one definition: for a view
`NormalizeViewDefinition` and `NormalizeSQLExpression`, for a default `MapDefault`,
`NormalizeSQLExpression` and the value of a bit column, for a check
`NormalizeSQLExpression` and `NormalizeBooleanComparisons`, and for all of them the
validation of the functions they call. Each of these protects the text, works on what is
left, and restores it.

The definitions are terms, so that their meaning is known without a parser: `Source` writes
a term as T-SQL text, which the passes then work on without knowing the term;
`TargetDefinition` writes the meaning of the term as PostgreSQL text; both texts are compared
token by token (`Tokens`, a lexer written from the rules of the two servers and not from the
scanner). `translateCall` has dozens of cases that differ in the text of a template;
`Rules` holds one of each form.

Assumptions. T-SQL and PostgreSQL read the symbols used here alike. SQL Server stores only
texts that parse, so unclosed literals do not come from it; they are checked anyway because
the scanner has code for them. Of `mapDefault` the model keeps the outer parentheses it takes
off; those of its replacements that stand for a call are made again by `normalizeSQLExpression`,
which follows. It also replaces such names where no parenthesis follows; the only one T-SQL
accepts there is `CURRENT_TIMESTAMP`, which stays what it is.

What a definition means, and whether it is supported, is known from its term: the verdict is
right when a definition is accepted exactly if every call in its term is one that is
translated, or that the target has (`Supported`). The text of a translation plays no part in
it, so that a translation which is then rejected counts as a wrong verdict.

## Runs

| Run | Question | Bounds | States |
| --- | --- | --- | --- |
| `copy` | safety of the copy, its contract, the inductive invariant; does it end when the servers respond, and when it is cancelled while they do not | 4 rows, capacity 2 | 26,424 |
| `migration_race` | two runs, one target: what each takes, loads and reports, and that together they keep `SharedTarget` | 2 tables, an index, a foreign key, a view; 2 selections | 291,728 |
| `migration_alone` | one run, all kinds of objects; does it end | 5 targets, 4 catalogues, 20 selections, 3 views in the wrong order, some of which cannot be created | 216,714 |
| `migration_sequence_name` | violation, see Findings | | |
| `identity` | fresh values, agreeing bounds | 3 bits, 3 rows, increments -2, -1, 1, 2 | 77,736 |
| `identity_state` | violation | the same, signed type, no explicit values | |
| `constraints` | equal writes, no late failure, torn copies | 2 columns, 2 values and NULL, 2 rows, 2 changes during the copy, PostgreSQL 14 and 15 | 1,653,554 |
| `constraints_disabled` | violation | no changes during the copy | |
| `introspection` | torn catalogues; what the filters select | 2 statements of other sessions on 3 tables with two columns or three and a key of each kind; 1,938 combinations of filters over 8 names | 232,330 |
| `translation` | does every pass take its text apart as promised, is only code rewritten, does it keep its meaning, is the verdict right | 6,939 definitions: all texts of 5 of the symbols that quote and of 4 or 8 of those that comment, calls nested two deep | 209,365 |
| `translation_meaning` | violation | one view | |
| `translation_verdict` | violation | two checks | |

Why the bounds are enough. The channel is empty, partly filled and full with capacity 2,
and 4 rows leave one in the channel's producer, two in the channel and one with the
encoder at the same time; the proofs remove both bounds. Two runs are the smallest
number that can race, and a third adds no new kind of conflict, since every property
relates a run to one other. Three views in the wrong order need three passes. A unique
key is violated by two rows, a composite one with NULL in either column; a torn foreign
key takes two changes (the child and its parent disappear between the two copies).
A torn catalogue takes two statements at most to look like one that never was: one before
and one after a query; three tables give a referenced, a referring and an unselected one, and
two of them share the names of their columns, indexes and of the table itself. The texts are
as long as the shortest ones in which a quote is doubled, prefixed and closed beside another
kind of quote, and in which a comment is nested and followed by something. Calls nested two
deep put each translated call into each place of each other one; a third level meets nothing
new, because `RewriteCalls` treats the text of an argument like any other.
Symmetry is used in `migration_race` only, over the two interchangeable runs; that run
checks invariants and `SharesTarget`, which is a safety property that treats all runs alike.

Deadlock is not checked: a copy, a run, a migrated table and a translated definition
legitimately stop.

## Fairness

`HungSpec` of `StreamCopy` has weak fairness for the steps of each goroutine, which the Go
scheduler justifies, and for `AbandonStep`, the way database/sql and pgx end a wait once its
context is done. It has none for the two servers: `CancelUnblocks` holds although they may
never answer again. `Termination` and `ProducerStops` state in their antecedent,
`ServersRespond`, that both servers keep responding, which is weak fairness of their steps. No fault is fair,
and fairness of `SendCancelled` is never needed against a select that could for ever
choose the row, because rows run out. `FairSpec` of `Migration`, under which
`migration_alone` checks `RunsEnd`, has weak fairness for the run and for the target's
answers. The other modules state no liveness: their code has no loop and no wait whose end
depends on another party.

## Findings

- `migration_sequence_name`: a table may have the name PostgreSQL gives the sequence of
  an identity column. `targetRelationNames` does not know these names, so the run fails
  while it creates the tables, with the target changed (`postgres.go:358`).
- `identity_state`: the sequence continues from the rows that exist, not from the last
  value SQL Server generated; values of deleted rows are reused (`postgres.go:611`).
- `constraints_disabled`: a unique constraint whose index is disabled is not rejected as a
  disabled index is; with duplicate rows the run fails after everything was copied
  (`postgres.go:138`).
- `translation_meaning`, two in one view: the blanks around an argument are trimmed, and with
  them the line end that closes a line comment, so that the comment swallows the rest of the
  call (`calls.go:61`); and each bracketed name becomes a quoted one on its own, so that
  `[a][f]`, a column with a new name, becomes `"a""f"`, which is one name (`protect.go:69`).
- `translation_verdict`, one for each of its checks (`tlc -continue` shows both): a call by a
  delimited name, which is how SQL Server stores calls in checks and defaults, is invisible
  to the validation of functions, and the run fails when the constraint is created
  (`postgres.go:1445`); and a check with `DATEDIFF(month, ..)`, which the README of the tool
  lists as supported, is rejected after its translation, because the word FROM of
  `EXTRACT(.. FROM (..))` is taken for a function and is on no list (`postgres.go:48`).

In the passing runs the first does not arise because no table is named like a sequence, and
the third because `UniqueDisable` is FALSE. In `translation` comments stand in front of
the operands of calls; its texts do have names, and literals, side by side, but
`SeparatedMeaningPreserved` and `RestoreUndoesProtect` except them (`Separated`); no function
is called by a delimited name; and `DATEDIFF(month, ..)` is in views only.

## Proofs

`StreamCopyProof` proves, for every number of rows and every capacity of at least 1:

    Spec => []IInv      with   IInv == TypeOK /\ Phases /\ StreamEnded /\ RowsConserved
                                       /\ Verdicts /\ FaultRecorded

and from it `TypeOK`, `RowsConserved`, `CommittedIsComplete`, `CancelComesTooLate`,
`NoSpuriousError` and the refinement `KeepsContract`. The properties are not inductive
by themselves. That a committed COPY is complete, for instance, needs the chain: the
server commits only after CopyDone (`Verdicts`), which is sent only when the pipe ended in
end of file, which needs a finished encoder with an empty buffer that found no error, which
needs a closed and empty channel, which the producer closes only after having stored its
error (`StreamEnded`), and which therefore says that all rows were read; `RowsConserved`
then turns the number of rows into the rows themselves. The assumptions are
`NumRowsAssumption` and `CapacityAssumption`. The proof has one step per action; facts about
appending, shifting and concatenating numbered rows are lemmas at its top.

`ConstraintsProof` proves `NoLateFailure`, `TornCopyNoticed`, `SameWrites` and `TypeOK` of
`Constraints` for any columns, keys, filters, values, versions and bounds, from

    IInv == TypeOK /\ SourceSound /\ StillTrue /\ Stages /\ TargetSound

`SourceSound` says what SQL Server guarantees about its own rows, `StillTrue` that
catalogue and copies describe the source until it changes, `Stages` what is done at which
stage, and `TargetSound` what PostgreSQL has validated. None of the properties is inductive
alone: that a valid constraint does not fail over the copied rows needs the rows to be the
source's rows and the catalogue's state to be its state, and the source to enforce what it
calls trusted. The lemma `SameUniqueness` is the heart of `WritesAgree`: under a key without
nullable columns no two rows can agree in a NULL, so `needsNullsNotDistinct` leaves NULLS
NOT DISTINCT out only where it makes no difference. The assumptions are
`ColumnsAssumption`, `KeysAssumption` and `BoundsAssumption`. `TypeCorrect` and
`TornCopiesFail` need nothing else and hold also when unique constraints can be disabled.
`NoneFailsLate` and `WritesAgree` have the hypothesis `~UniqueDisable`: with a unique constraint
that can be disabled `NoLateFailure` is false, as the run `constraints_disabled` shows, and so is
`SameWrites`, because the target enforces what the source does not.

`MigrationProof` proves `OwnTablesOnly`, `LoadedOnce`, `ExistingRefused`, `SuccessIsComplete`
and `TypeOK` of `Migration` for any source catalogues, selections, occupied targets and any
number of runs, from

    IndInv == TypeOK /\ Separate /\ LoadsOK /\ \A r \in Runs : RunOK(r)
    RunOK(r) == StagesOK(r) /\ ProgressOK(r) /\ CreatedOK(r) /\ OrphansOK(r) /\ ViewsOK(r)

`RunOK` is about one run at a time, and the step of another run leaves it alone. `StagesOK` says
that nothing is sent before both checks have passed, `ProgressOK` that what took effect is the
program up to the next statement, `CreatedOK` that every statement found what it needs among
the names of its own run, `OrphansOK` that a statement nobody waits for is the last of a run
that has failed, `ViewsOK` that no view is lost between two passes. `Separate` is what keeps
runs apart: no name is taken twice, because PostgreSQL takes a name only if it is free. That
a statement needs only what its own run has created does not follow from one step: it needs
`ProgressOK`, and the lemma `NeedsFirst` of `CatalogProof`, that `Program` creates what a
statement needs before that statement, for every consistent catalogue and every selection.
`SuccessIsComplete` needs in addition that `Introspect` and `FilterForeignKeys` leave a
consistent catalogue (`SelectedConsistent`): without the pruning, a foreign key to a table
outside the selection would make it false.

`MigrationProof` also proves the refinement, `TargetShared`: `Spec => SharesTarget`. Under
`IndInv` a step of `Migration` is a step of `SharedTarget` or leaves its variables alone. A name
is taken only where the target has it free, and the names runs have are not
(`CreatedIsTaken`). A table that is loaded was created by the run that loads it, and had
not been loaded (`ApplyShares`). The hard part is a run that has succeeded: a statement it once
gave up waiting for could still arrive. There is none that could do anything
(`NothingAfterSuccess`, `WhoApplies`): a statement that is not a view is abandoned only by a run
that fails, and a run that succeeds in spite of an abandoned view has created that view in a
later pass, so that the abandoned statement finds its name taken (`OrphansOK`, `ViewsOK`).

Its last part proves `ViewsMaximal` and `FailureHasCause`, of a run that has the target to itself, from `IndInv /\ AloneInv`. `AloneInv`
describes a run that nothing disturbs: no statement of its program is refused, a view is refused
only for what it selects from, and no view that failed in a pass without progress has become
possible since. The last step is an argument about order: of the views that are left when a
pass brings nothing, the one of least rank in `Layered` selects only from what is there, and
would have been created. Both theorems have the hypothesis `UsualNames`, that no sequence takes
the name of another relation of the catalogue; the run `migration_sequence_name` shows that
`FailureHasCause` is false without it. The assumptions on the constants are `SourcesAssumption`
(the catalogues are consistent) and `ViewsAssumption` (views are layered).

`ProtectProof` proves `OnlyNormalised`, `NothingLeftToProtect` and `ScannerTypeOK` of
`ProtectSpec` for every text of any length, every option and any placeholders, and, as an
action property, that every step of the scanner comes closer to the end of its text
(`ScanningEnds`, with `Distance`), so that it never loops. The invariant is

    ScanInv == ScanTyped /\ Counted /\ Opened /\ OutputKnown
               /\ NothingLeftToProtect /\ NothingOpens /\ Reassembled

`Reassembled` says of the text read so far what `OnlyNormalised` says of the whole text; while a
fragment is being read, it ends where the fragment began, or one symbol before, at the prefix of
a literal. That a text is restored rests on each placeholder in the output standing for a
fragment that is there (`OutputKnown`) and on no symbol of the text being taken for one
(`Readable`). `Counted` says that there are no more fragments than openers in the text, so that
the placeholders last. `NothingLeftToProtect` is not inductive: two symbols that are harmless one
by one, `-` and `-`, open a comment once they stand next to each other in the output.
`NothingOpens` looks one symbol ahead for that reason: a fragment between the two leaves a
placeholder there, and without one the scanner had already seen them together. The assumption is
`PlaceholdersAssumption`; `FlattenSeq`, with which `Restore` puts the pieces together, is reduced
to concatenation by the lemmas at the top.

`IdentityProof` proves `NextIsFresh`, `BoundsAgree` and `TypeOK` of `Identity` for every width
and every set of increments of either sign, from `IdentityInv == TypeOK /\ Passed`: once the
sequence is set, it has reached or passed every value of the table, in the direction in which
it counts. `NextIsFresh` alone is not inductive: the value after the next one might be taken.
`Passed` holds after `ResetSequences` because `ExtremeValue` is the greatest value of an
ascending and the least of a descending column, which a table with rows always has
(`Extremes`). The assumptions are `WidthAssumption` and `IncrementsAssumption`.

`IntrospectionProof` proves `NothingInvented`, `SteadyIsComplete`, `SuccessHasColumns` and
`TypeOK` of `Introspection` for any sources, filters and alterations and any number of
statements of other sessions, from

    IntroInv == TypeOK /\ SourceOK /\ PhasesOK /\ ColumnsReal /\ ColumnsComplete /\ KeysOK

`SourceOK` says that the source is at any time between `steady` and `ever`; `ColumnsComplete` and
`KeysOK` say what of the catalogue is complete after how many queries. That a column has its
own seed in the end takes the two queries together: after the second it is there with its
name, perhaps with another seed (`Resembles`), and the third finds the seed by the name, since
no two columns of a table share one. The lemma `KeysOfRows` is about the maps: collecting
rows by table and name, and sorting them, gives back exactly the keys the rows came from,
because keys of one kind and table differ in their names and a finite set of numbered rows
has one order (`KeyOfItsRows`). `SteadyIsComplete` is stated after the last query only and
is not inductive: nothing in it says what the queries that are still to come have missed.

`SelectedByParts` has an invariant of its own, `SelectionOK`: what is selected is what
`MatchesTable` selects, and what has been there all the time was there when the tables were
read. What is left is a statement about patterns (`SelectedAsMeant`, and under it
`QualifiedMatch`): the code matches `schema.object` as one text, in which a wildcard could take
the dot for its own. It cannot, if neither name has a dot: each dot of the pattern then stands
for the only one of the name, the pattern before it has to reach exactly that place
(`PrefixReach`, `DotReach`), and the rest starts behind it (`SuffixReach`).

The assumptions are `DefinitionsAssumption`, what SQL Server guarantees of a table and its keys
(`WellFormed`), `ScenariosAssumption` and `AlterationsAssumption`, which are about types only,
and `LowerCaseAssumption`: no letter becomes a dot in lower case.

TLC has checked `IndInv` and `AloneInv` on the instances of `migration_race` and
`migration_alone`, `IdentityInv` on that of `identity`, `IntroInv` and `SelectionOK` on that of
`introspection`, `ScanInv` on the texts without calls of `translation`; all instances satisfy the assumptions, and those of the two runs of `Migration`
satisfy `UsualNames`.

Induction on numbers is done with sets: the lemma `Induction` of `NumberProof` says that a set
of numbers with 0 and every successor contains all of them, so that no operator has to be
passed to a theorem. `Among` of `Catalog`, which keeps the elements of a sequence that are in a
set, and `Reach` of `Filters`, which is how far a pattern gets, are recursive functions on
positions for that reason.

Only model-checked:

- Liveness (`Termination`, `ProducerStops`, `CancelUnblocks`, `RunsEnd`), which is out of the
  prover's reach.
- `TypeOK`, `OnlyCodeIsExposed`, `RestoreUndoesProtect`, `SeparatedMeaningPreserved` and
  `VerdictIsRight` of `Translation`, and that its passes read their texts as `ProtectSpec` says: its functions on
  texts and terms are recursive operators, which the prover does not take.

## Not modelled

- The table from source types to target types, and value normalisation: conversions of one
  value at a time, without control or state.
- Of the translation: the `CREATE VIEW` header and its options, `COLLATE`, hexadecimal
  defaults, the names of types in T-SQL, and those cases of `translateCall` that differ from a
  modelled one only in their text.
- Of the validation: the length of identifiers, the kinds of index, and the keywords that
  are not functions (`TOP`, `APPLY`, `NEXT VALUE FOR`). What is on no list at all, of a view
  in particular, is left to PostgreSQL by the code, so no property can hold of it.
- Of the filters: character classes in patterns, and `\`, with which `path.Match` takes the
  meaning from the symbol behind it. Names with a dot are in the run, but
  `SelectedByParts` leaves them out: the code matches schema and name as one text, in which
  their dot may be taken for the one between the two.
- Tables that are shipped with SQL Server, which one catalogue query leaves out and another
  does not.
- The slice `rows.Scan` fills: that each row is copied before it is handed over is visible in
  the code, and no interleaving of the model shares a row.
- Command line parsing: no state.
- Referential actions, `INCLUDE` columns, sort directions, defaults' values: no property so
  far depends on them.
- The pgcrypto extension, logging, connection set-up beyond its failure.

## Plan

Done: the copy, the pipeline, constraints, identity columns, introspection and filters, with
proofs of every safety property their runs check; the two contracts, `TableCopy` and
`SharedTarget`, with proofs that the code keeps them; the scanner of `Protect` with proofs;
translation, model-checked.

Left: the passes of `Translation` with recursive functions in the place of recursive operators,
so that at least `OnlyCodeIsExposed` can be proved; referential actions in `Constraints`.
