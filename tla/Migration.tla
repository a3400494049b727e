------------------------------- MODULE Migration -------------------------------
(***************************************************************************)
(* Runner.Run: one or more runs of the tool against one PostgreSQL target.  *)
(*                                                                          *)
(* A run checks that its relations are absent, one query each, then sends   *)
(* the statements of Program one by one, each in a transaction of its own,  *)
(* and finally creates the views, in passes.  A statement is sent, takes    *)
(* effect or is refused in the target, and is answered; between any two of  *)
(* these the run may be cancelled, crash or lose the connection.  A         *)
(* statement the run stopped waiting for may still take effect: it is an    *)
(* orphan.  Copying a table is one such statement, by the contract of       *)
(* TableCopy.                                                               *)
(***************************************************************************)
EXTENDS Catalog

CONSTANTS
    Runs,               (* runs of the tool against the target *)
    Sources,            (* source catalogues *)
    Selections,         (* sets of table and view names the filters may select *)
    Existing            (* sets of relations the target may hold at the start *)

ASSUME SourcesAssumption == Sources \subseteq Catalogues /\ \A c \in Sources : Consistent(c)
ASSUME ViewsAssumption == \A c \in Sources : Layered(c)

VARIABLES
    source,             (* the source catalogue *)
    chosen,             (* what the filters of each run select *)
    schemaOnly,         (* runs started with -schema-only *)
    plan,               (* the catalogue each run has read, and what follows from it *)
    existing,           (* relations in the target before any run *)
    stage,              (* how far Run has come *)
    unchecked,          (* relation names ensureRelationsAbsent has yet to look up *)
    pos,                (* the statement, or the view of the pass, that is next *)
    pending,            (* pendingViews *)
    retry,              (* retryViews *)
    session,            (* the statement a run waits for *)
    orphans,            (* statements nobody waits for any more *)
    ctxDone,            (* cancelled runs *)
    result,             (* what Run returned *)
    applied,            (* statements of each run that took effect in the target *)
    created,            (* names of relations each run has taken in the target *)
    loads,              (* how often rows were copied into a table *)
    fault               (* history: something failed, crashed or was cancelled *)

config == <<source, chosen, schemaOnly, plan, existing>>
viewVars == <<pending, retry>>
target == <<applied, created, loads>>
vars == <<config, stage, unchecked, pos, viewVars, session, orphans, ctxDone, result,
          target, fault>>

\* What Run makes of a source catalogue and a selection before it touches the target.
Plan(s, selection, only) ==
    LET database == FilterForeignKeys(Introspect(s, selection))
    IN [database |-> database,
        valid |-> Valid(database),
        relations |-> ToSet(TargetRelationNames(database)),
        statements |-> Program(database, only),
        views |-> ToSet(Each(CreateView, database.views))]

Database(r) == plan[r].database

\* targetRelationNames of the catalogue of a run.
RelationNames(r) == plan[r].relations

Statements(r) == plan[r].statements

AllStatements(r) == ToSet(Statements(r)) \cup plan[r].views

AllTables == UNION {Names(s.tables) : s \in Sources}

TypeOK ==
    /\ source \in Sources
    /\ chosen \in [Runs -> Selections]
    /\ schemaOnly \subseteq Runs
    /\ plan = [r \in Runs |-> Plan(source, chosen[r], r \in schemaOnly)]
    /\ existing \in Existing
    /\ stage \in [Runs -> {"validate", "check", "build", "views", "ended"}]
    /\ unchecked \in [Runs -> SUBSET STRING]
    /\ \A r \in Runs : unchecked[r] \subseteq RelationNames(r)
    /\ pos \in [Runs -> Nat \ {0}]
    /\ pending \in [Runs -> Seq(AnyView)] /\ retry \in [Runs -> Seq(AnyView)]
    /\ \A r \in Runs : stage[r] = "views" => pos[r] <= Len(pending[r]) + 1
    /\ \A r \in Runs : Len(retry[r]) <= Len(pending[r]) /\ ToSet(retry[r]) \subseteq ToSet(pending[r])
    /\ \A r \in Runs : ToSet(pending[r]) \subseteq ToSet(Database(r).views)
    /\ session \in [Runs -> {"idle", "sent", "ok", "refused"}]
    /\ ctxDone \subseteq Runs
    /\ result \in [Runs -> {"pending", "ok", "error", "crashed"}]
    /\ applied \in [Runs -> SUBSET AnyStatement]
    /\ \A r \in Runs : applied[r] \subseteq AllStatements(r)
    /\ orphans \subseteq Runs \X AnyStatement
    /\ \A o \in orphans : o[2] \in AllStatements(o[1])
    /\ created \in [Runs -> SUBSET STRING]
    /\ loads \in [AllTables -> Nat]
    /\ fault \in BOOLEAN

Init ==
    /\ source \in Sources
    /\ chosen \in [Runs -> Selections]
    /\ schemaOnly \in SUBSET Runs
    /\ plan = [r \in Runs |-> Plan(source, chosen[r], r \in schemaOnly)]
    /\ existing \in Existing
    /\ stage = [r \in Runs |-> "validate"]
    /\ unchecked = [r \in Runs |-> {}]
    /\ pos = [r \in Runs |-> 1]
    /\ pending = [r \in Runs |-> <<>>]
    /\ retry = [r \in Runs |-> <<>>]
    /\ session = [r \in Runs |-> "idle"]
    /\ orphans = {}
    /\ ctxDone = {}
    /\ result = [r \in Runs |-> "pending"]
    /\ applied = [r \in Runs |-> {}]
    /\ created = [r \in Runs |-> {}]
    /\ loads = [t \in AllTables |-> 0]
    /\ fault = FALSE

-------------------------------------------------------------------------------
(* The PostgreSQL target. *)

Relations == existing \cup UNION {created[r] : r \in Runs}

ForeignKeys == {s.name : s \in {t \in UNION {applied[r] : r \in Runs} : t.op = "foreignKey"}}

Loaded(name) == name \in AllTables /\ loads[name] > 0

\* The source is consistent: a foreign key fails only on rows whose referenced
\* rows are not there yet.
Dangling(s) ==
    \E f \in ToSet(source.foreignKeys) :
        /\ \/ s.op = "foreignKey" /\ s.name = f.name /\ Loaded(f.table)
           \/ s.op = "rows" /\ s.name = f.table /\ f.name \in ForeignKeys
        /\ f.referenced # f.table /\ ~Loaded(f.referenced)

\* Mutant: tables are created with IF NOT EXISTS.
ClaimsUnlessTable(s) == IF s.op = "table" THEN {} ELSE s.creates

\* Names that must be free: no CREATE of the code says IF NOT EXISTS, but for schemas.
Claims(s) == s.creates

\* An identity sequence takes its usual name before the table and its key are
\* created, unless that name is taken.
Refused(s) ==
    \/ ~(s.needs \subseteq Relations)
    \/ Claims(s) \cap (Relations \cup s.implicit) # {}
    \/ s.name \in source.unsupported
    \/ Dangling(s)

Apply(r, s) ==
    /\ ~Refused(s)
    /\ applied' = [applied EXCEPT ![r] = @ \cup {s}]
    /\ created' = [created EXCEPT ![r] = @ \cup s.creates \cup (s.implicit \ Relations)]
    /\ loads' = IF s.op = "rows" THEN [loads EXCEPT ![s.name] = @ + 1] ELSE loads

-------------------------------------------------------------------------------
(* The run, up to the first change of the target. *)

Ends(r, outcome) ==
    /\ stage' = [stage EXCEPT ![r] = "ended"]
    /\ result' = [result EXCEPT ![r] = outcome]

\* Filters, connections and the catalogue queries; mapCatalog; Validate.
Accept(r) ==
    /\ stage[r] = "validate" /\ plan[r].valid
    /\ stage' = [stage EXCEPT ![r] = "check"]
    /\ unchecked' = [unchecked EXCEPT ![r] = RelationNames(r)]
    /\ UNCHANGED <<config, pos, viewVars, session, orphans, ctxDone, result, target, fault>>

Reject(r) ==
    /\ stage[r] = "validate" /\ ~plan[r].valid
    /\ Ends(r, "error")
    /\ UNCHANGED <<config, unchecked, pos, viewVars, session, orphans, ctxDone, target, fault>>

\* ensureRelationsAbsent: one query for each name, in no particular order.
RelationAbsent(r) ==
    /\ stage[r] = "check"
    /\ \E name \in unchecked[r] :
           /\ name \notin Relations
           /\ unchecked' = [unchecked EXCEPT ![r] = @ \ {name}]
    /\ UNCHANGED <<config, stage, pos, viewVars, session, orphans, ctxDone, result, target, fault>>

RelationExists(r) ==
    /\ stage[r] = "check" /\ unchecked[r] \cap Relations # {}
    /\ Ends(r, "error")
    /\ UNCHANGED <<config, unchecked, pos, viewVars, session, orphans, ctxDone, target, fault>>

StartBuilding(r) ==
    /\ stage[r] = "check" /\ unchecked[r] = {}
    /\ stage' = [stage EXCEPT ![r] = "build"]
    /\ UNCHANGED <<config, unchecked, pos, viewVars, session, orphans, ctxDone, result, target, fault>>

\* A source or target that cannot be reached, a failed query, a PostgreSQL version
\* without NULLS NOT DISTINCT, a cancelled context.
FailEarly(r) ==
    /\ stage[r] \in {"validate", "check"}
    /\ Ends(r, "error")
    /\ fault' = TRUE
    /\ UNCHANGED <<config, unchecked, pos, viewVars, session, orphans, ctxDone, target>>

-------------------------------------------------------------------------------
(* One statement after the other. *)

HasNext(r) ==
    \/ stage[r] = "build" /\ pos[r] <= Len(Statements(r))
    \/ stage[r] = "views" /\ pos[r] <= Len(pending[r])

NextStatement(r) ==
    IF stage[r] = "build" THEN Statements(r)[pos[r]] ELSE CreateView(pending[r][pos[r]])

\* Mutant: a failed statement is passed over as a failed view is.
FailedIsPassedOver(r) ==
    /\ retry' = IF stage[r] = "build" THEN retry
                ELSE [retry EXCEPT ![r] = Append(@, pending[r][pos[r]])]
    /\ pos' = [pos EXCEPT ![r] = @ + 1]
    /\ UNCHANGED <<stage, result>>

\* A failed statement ends the run; a failed view is put aside.
Failed(r) ==
    IF stage[r] = "build"
    THEN Ends(r, "error") /\ UNCHANGED <<pos, retry>>
    ELSE /\ retry' = [retry EXCEPT ![r] = Append(@, pending[r][pos[r]])]
         /\ pos' = [pos EXCEPT ![r] = @ + 1]
         /\ UNCHANGED <<stage, result>>

Send(r) ==
    /\ HasNext(r) /\ session[r] = "idle" /\ r \notin ctxDone
    /\ session' = [session EXCEPT ![r] = "sent"]
    /\ UNCHANGED <<config, stage, unchecked, pos, viewVars, orphans, ctxDone, result, target, fault>>

TakeEffect(r) ==
    /\ session[r] = "sent"
    /\ Apply(r, NextStatement(r))
    /\ session' = [session EXCEPT ![r] = "ok"]
    /\ UNCHANGED <<config, stage, unchecked, pos, viewVars, orphans, ctxDone, result, fault>>

Refuse(r) ==
    /\ session[r] = "sent" /\ Refused(NextStatement(r))
    /\ session' = [session EXCEPT ![r] = "refused"]
    /\ UNCHANGED <<config, stage, unchecked, pos, viewVars, orphans, ctxDone, result, target, fault>>

\* Any other failure of the statement; for a copy, of the source query too.
Break(r) ==
    /\ session[r] = "sent"
    /\ session' = [session EXCEPT ![r] = "refused"]
    /\ fault' = TRUE
    /\ UNCHANGED <<config, stage, unchecked, pos, viewVars, orphans, ctxDone, result, target>>

Succeed(r) ==
    /\ session[r] = "ok"
    /\ session' = [session EXCEPT ![r] = "idle"]
    /\ pos' = [pos EXCEPT ![r] = @ + 1]
    /\ UNCHANGED <<config, stage, unchecked, viewVars, orphans, ctxDone, result, target, fault>>

Fail(r) ==
    /\ session[r] = "refused"
    /\ session' = [session EXCEPT ![r] = "idle"]
    /\ Failed(r)
    /\ UNCHANGED <<config, unchecked, pending, orphans, ctxDone, target, fault>>

\* The run stops waiting for its statement, which may not have run yet.
Abandon(r) ==
    /\ session' = [session EXCEPT ![r] = "idle"]
    /\ orphans' = IF session[r] = "sent" THEN orphans \cup {<<r, NextStatement(r)>>} ELSE orphans

Waiting(r) == session[r] \in {"sent", "ok"}

GiveUp(r) ==
    /\ Waiting(r) /\ r \in ctxDone
    /\ Abandon(r)
    /\ Failed(r)
    /\ UNCHANGED <<config, unchecked, pending, ctxDone, target, fault>>

LoseConnection(r) ==
    /\ Waiting(r)
    /\ Abandon(r)
    /\ Failed(r)
    /\ fault' = TRUE
    /\ UNCHANGED <<config, unchecked, pending, ctxDone, target>>

\* Nothing is sent under a cancelled context.
NotSent(r) ==
    /\ HasNext(r) /\ session[r] = "idle" /\ r \in ctxDone
    /\ Failed(r)
    /\ UNCHANGED <<config, unchecked, pending, session, orphans, ctxDone, target, fault>>

-------------------------------------------------------------------------------
(* The views. *)

StartViews(r) ==
    /\ stage[r] = "build" /\ pos[r] > Len(Statements(r))
    /\ stage' = [stage EXCEPT ![r] = "views"]
    /\ pending' = [pending EXCEPT ![r] = Database(r).views]
    /\ pos' = [pos EXCEPT ![r] = 1]
    /\ UNCHANGED <<config, unchecked, retry, session, orphans, ctxDone, result, target, fault>>

Finish(r) ==
    /\ stage[r] = "views" /\ pending[r] = <<>>
    /\ Ends(r, "ok")
    /\ UNCHANGED <<config, unchecked, pos, viewVars, session, orphans, ctxDone, target, fault>>

PassOver(r) == stage[r] = "views" /\ pending[r] # <<>> /\ pos[r] > Len(pending[r])

\* Mutant: the run gives up after a pass in which any view failed.
StuckOnAnyFailure(r) == retry[r] # <<>>

\* Mutant: a pass without progress is followed by another one.
NeverStuck(r) == FALSE

\* The pass created no view.
Stuck(r) == Len(retry[r]) = Len(pending[r])

\* Mutant: retryViews is declared outside the loop and never emptied.
EndPassKeepsRetry(r) ==
    /\ PassOver(r) /\ ~Stuck(r)
    /\ pending' = [pending EXCEPT ![r] = retry[r]]
    /\ pos' = [pos EXCEPT ![r] = 1]
    /\ UNCHANGED <<config, stage, unchecked, retry, session, orphans, ctxDone, result, target, fault>>

EndPass(r) ==
    /\ PassOver(r) /\ ~Stuck(r)
    /\ pending' = [pending EXCEPT ![r] = retry[r]]
    /\ retry' = [retry EXCEPT ![r] = <<>>]
    /\ pos' = [pos EXCEPT ![r] = 1]
    /\ UNCHANGED <<config, stage, unchecked, session, orphans, ctxDone, result, target, fault>>

GiveUpViews(r) ==
    /\ PassOver(r) /\ Stuck(r)
    /\ Ends(r, "error")
    /\ UNCHANGED <<config, unchecked, pos, viewVars, session, orphans, ctxDone, target, fault>>

-------------------------------------------------------------------------------
(* What happens to a run, and what it leaves behind. *)

\* SIGINT or SIGTERM.
Cancel(r) ==
    /\ stage[r] # "ended" /\ r \notin ctxDone
    /\ ctxDone' = ctxDone \cup {r}
    /\ fault' = TRUE
    /\ UNCHANGED <<config, stage, unchecked, pos, viewVars, session, orphans, result, target>>

\* The process dies.
Crash(r) ==
    /\ stage[r] # "ended"
    /\ Ends(r, "crashed")
    /\ fault' = TRUE
    /\ Abandon(r)
    /\ UNCHANGED <<config, unchecked, pos, viewVars, ctxDone, target>>

OrphanTakesEffect ==
    /\ \E o \in orphans : Apply(o[1], o[2]) /\ orphans' = orphans \ {o}
    /\ UNCHANGED <<config, stage, unchecked, pos, viewVars, session, ctxDone, result, fault>>

OrphanDies ==
    /\ \E o \in orphans : orphans' = orphans \ {o}
    /\ UNCHANGED <<config, stage, unchecked, pos, viewVars, session, ctxDone, result, target, fault>>

-------------------------------------------------------------------------------
RunStep(r) ==
    \/ Accept(r) \/ Reject(r) \/ RelationAbsent(r) \/ RelationExists(r) \/ StartBuilding(r)
    \/ Send(r) \/ Succeed(r) \/ Fail(r) \/ GiveUp(r) \/ NotSent(r)
    \/ StartViews(r) \/ Finish(r) \/ EndPass(r) \/ GiveUpViews(r)

ServerStep(r) == TakeEffect(r) \/ Refuse(r)

FaultStep(r) == FailEarly(r) \/ Break(r) \/ LoseConnection(r) \/ Cancel(r) \/ Crash(r)

Next ==
    \/ \E r \in Runs : RunStep(r) \/ ServerStep(r) \/ FaultStep(r)
    \/ OrphanTakesEffect \/ OrphanDies

Spec == Init /\ [][Next]_vars

\* A run goes on whenever it can; the target answers.
FairSpec == Spec /\ \A r \in Runs : WF_vars(RunStep(r)) /\ WF_vars(ServerStep(r))

-------------------------------------------------------------------------------
(* Properties. *)

\* Names the statements of the run take.
Declared(r) == UNION {s.creates : s \in AllStatements(r)}

\* Names that were there before, or that another run has taken.
Foreign(r) == existing \cup UNION {created[q] : q \in Runs \ {r}}

\* A run changes only tables it has created itself: it never alters, fills or
\* constrains a table that was there before or that another run owns, however the
\* absence check and the creation interleave.
OwnTablesOnly ==
    \A r \in Runs : \A s \in applied[r] : s.op # "view" => s.needs \subseteq created[r] \ Foreign(r)

\* No table ever receives the rows of its source table twice, not even from a
\* second run or from a COPY that commits after its run has ended.
LoadedOnce == \A t \in AllTables : loads[t] <= 1

\* README: the selected tables and views must not already exist.
ExistingRefused == \A r \in Runs : Declared(r) \cap existing # {} => applied[r] = {}

\* A run that reports success has created every selected object, has loaded every
\* table unless it is schema only, and has kept every foreign key between selected
\* tables.
SuccessIsComplete ==
    \A r \in Runs : result[r] = "ok" =>
        LET c == Introspect(source, chosen[r])
            Done(op) == {s.name : s \in {t \in applied[r] : t.op = op}}
        IN /\ Declared(r) \subseteq created[r]
           /\ Names(c.tables) = Done("table") /\ Names(c.views) = Done("view")
           /\ Names(c.indexes) = Done("index") /\ Names(c.uniques) = Done("unique")
           /\ Names(c.checks) = Done("check") /\ Names(c.defaults) = Done("default")
           /\ \A f \in ToSet(c.foreignKeys) :
                  f.name \in Done("foreignKey") <=> f.referenced \in chosen[r]
           /\ \A t \in ToSet(c.tables) :
                  /\ loads[t.name] = IF r \in schemaOnly THEN 0 ELSE 1
                  /\ t.sequence # NoName /\ r \notin schemaOnly => t.name \in Done("sequence")

\* Runs that got as far as changing the target.
Changed(r) == applied[r] # {}

\* What the selected views are made of is selected or was there before.
ViewsCovered(r) ==
    \A v \in ToSet(Database(r).views) : v.uses \subseteq chosen[r] \cup existing

\* A run that has begun to change the target fails only because something broke, the
\* run was cancelled, another run got in between, or a view selects from a relation
\* left out by the filters: Validate has seen everything else, and the order of the
\* statements and of the passes over the views suits every catalogue.
FailureHasCause ==
    \A r \in Runs : result[r] = "error" /\ Changed(r) =>
        fault \/ (\E q \in Runs \ {r} : Changed(q)) \/ ~ViewsCovered(r)

\* A run left alone creates every view that can be created, whatever their order.
ViewsMaximal ==
    \A r \in Runs :
        result[r] = "error" /\ Changed(r) /\ ~fault /\ (\A q \in Runs \ {r} : ~Changed(q)) =>
            \A v \in ToSet(Database(r).views) :
                v.name \notin created[r] => ~(v.uses \subseteq Relations)

\* Every run ends, even when views keep failing.
RunsEnd == \A r \in Runs : <>(result[r] # "pending")

\* Runs, their statements in flight and the statements they have left behind share the
\* target as SharedTarget allows it; in particular nothing a run has left behind is
\* carried out once the run has reported success, although it may have lost a connection
\* while a view was being created and have created the view in a later pass.
Shared == INSTANCE SharedTarget WITH Tables <- AllTables, owned <- created
SharesTarget == Shared!Spec
================================================================================
