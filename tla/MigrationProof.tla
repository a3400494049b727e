---------------------------- MODULE MigrationProof ----------------------------
(***************************************************************************)
(* Proofs about Migration: no table is touched by a run that has not        *)
(* created it or filled twice, an occupied target is left alone, and        *)
(* success means that everything has been done.  A run that nothing         *)
(* disturbs fails only over a view, and then it has created every view that *)
(* can be created.                                                          *)
(***************************************************************************)
EXTENDS Migration, CatalogProof

-------------------------------------------------------------------------------
(* The inductive invariant, for one run at a time. *)

\* The run has got past the checks: the catalogue is valid, the names were free.
Admitted(r) == plan[r].valid /\ RelationNames(r) \cap existing = {}

\* Nothing is sent before the checks are over, and one statement at a time.
StagesOK(r) ==
    /\ (stage[r] = "ended") <=> (result[r] # "pending")
    /\ stage[r] = "check" => plan[r].valid /\ RelationNames(r) \cap existing \subseteq unchecked[r]
    /\ stage[r] \in {"validate", "check"} => applied[r] = {}
    /\ stage[r] \in {"validate", "check", "build"} => \A o \in orphans : o[1] # r
    /\ (\/ stage[r] \in {"build", "views"} \/ result[r] = "ok"
        \/ applied[r] # {} \/ \E o \in orphans : o[1] = r) => Admitted(r)
    /\ session[r] # "idle" => HasNext(r)
    /\ session[r] = "ok" => NextStatement(r) \in applied[r]

\* The statements up to the next one took effect, and no later one did.
ProgressOK(r) ==
    /\ stage[r] \in {"validate", "check"} => pos[r] = 1
    /\ stage[r] = "build" => pos[r] <= Len(Statements(r)) + 1
    /\ stage[r] = "build" => \A j \in DOMAIN Statements(r) : j < pos[r] => Statements(r)[j] \in applied[r]
    /\ stage[r] = "build" => \A s \in applied[r] :
           \E j \in DOMAIN Statements(r) :
               Statements(r)[j] = s /\ (j < pos[r] \/ (j = pos[r] /\ session[r] = "ok"))
    /\ stage[r] = "views" \/ result[r] = "ok" => ToSet(Statements(r)) \subseteq applied[r]

\* A statement that took effect found its relations among those of its own run.
CreatedOK(r) ==
    /\ created[r] \cap existing = {}
    /\ \A s \in applied[r] : s.creates \subseteq created[r]
    /\ \A s \in applied[r] : s.op # "view" => s.needs \subseteq created[r]

\* A statement that nobody waits for, but for a view, is the last one of a run that has
\* failed, and a copy has not taken effect yet.
OrphansOK(r) ==
    \A o \in orphans : o[1] = r /\ o[2].op # "view" =>
        /\ result[r] \in {"error", "crashed"}
        /\ o[2].needs \subseteq created[r]
        /\ o[2].op = "rows" => o[2] \notin applied[r]

\* Every view was created, or is yet to be tried in this pass, or was put aside.
ViewsOK(r) ==
    /\ stage[r] \in {"validate", "check", "build"} => pending[r] = <<>> /\ retry[r] = <<>>
    /\ stage[r] = "views" => Len(retry[r]) < pos[r] /\ pos[r] <= Len(pending[r]) + 1
    /\ stage[r] = "views" => \A v \in ToSet(Database(r).views) :
           \/ CreateView(v) \in applied[r]
           \/ v \in ToSet(retry[r])
           \/ \E k \in DOMAIN pending[r] : pos[r] <= k /\ pending[r][k] = v
    /\ result[r] = "ok" => \A v \in ToSet(Database(r).views) : CreateView(v) \in applied[r]

RunOK(r) ==
    StagesOK(r) /\ ProgressOK(r) /\ CreatedOK(r) /\ OrphansOK(r) /\ ViewsOK(r)

\* No relation belongs to two runs.
Separate == \A r, q \in Runs : r # q => created[r] \cap created[q] = {}

\* The rows of a table were loaded once if a run has loaded them, and else never.
LoadsOK ==
    \A t \in AllTables :
        /\ loads[t] <= 1
        /\ (loads[t] > 0) <=> \E r \in Runs : \E s \in applied[r] : s.op = "rows" /\ s.name = t

IndInv == TypeOK /\ (\A r \in Runs : RunOK(r)) /\ Separate /\ LoadsOK

-------------------------------------------------------------------------------
(* What the catalogue of a run and its statements are like. *)

\* The fields of a plan.
LEMMA PlanFields ==
    ASSUME NEW s, NEW selection, NEW only
    PROVE  LET c == Selected(s, selection)
               p == Plan(s, selection, only)
           IN /\ p.database = c
              /\ p.valid = Valid(c)
              /\ p.relations = ToSet(TargetRelationNames(c))
              /\ p.statements = Program(c, only)
              /\ p.views = ToSet(Each(CreateView, c.views))
    BY DEF Plan, Selected

\* The statements of a valid plan: none of them is for a view, the relations one needs are
\* created by earlier ones, and no two of them copy the same rows.
Orderly(statements) ==
    /\ statements \in Seq(AnyStatement)
    /\ \A i \in DOMAIN statements : statements[i].op # "view"
    /\ \A i \in DOMAIN statements : \A name \in statements[i].needs :
           \E j \in DOMAIN statements : j < i /\ name \in statements[j].creates
    /\ \A i, j \in DOMAIN statements :
           i # j /\ statements[i].op = "rows" => statements[i] # statements[j]

\* Program is orderly for every consistent catalogue that Validate accepts.
LEMMA ProgramOrderly ==
    ASSUME NEW c, Sound(c), Consistent(c), NEW only \in BOOLEAN
    PROVE  Orderly(Program(c, only))
<1>1. PICK p : p = Program(c, only)
    OBVIOUS
<1>2. Tidy(p, 0, 8) /\ ToSet(p) = StatementsFor(c, only)
    BY <1>1, ProgramInOrder
<1>3. p \in Seq(AnyStatement) /\ \A i \in DOMAIN p : i \in Nat /\ Place(p[i].op) \in 0..8
    BY <1>2 DEF Tidy
<1>4. \A i \in DOMAIN p : p[i] \in StatementsFor(c, only)
    BY <1>2 DEF ToSet
<1>5. \A i \in DOMAIN p : p[i].op # "view"
    BY <1>4, StatementsOfKind
<1>6. ASSUME NEW i \in DOMAIN p, NEW name \in p[i].needs
      PROVE  \E j \in DOMAIN p : j < i /\ name \in p[j].creates
    <2>1. PICK y \in StatementsFor(c, only) : Place(y.op) < Place(p[i].op) /\ name \in y.creates
        BY <1>4, NeedsFirst
    <2>2. PICK j \in DOMAIN p : p[j] = y
        BY <1>2 DEF ToSet
    <2>3. j < i
        BY <1>2, <2>1, <2>2, EarlierKindFirst
    <2> QED
        BY <2>1, <2>2, <2>3
<1>7. ASSUME NEW i \in DOMAIN p, NEW j \in DOMAIN p, i < j, p[i].op = "rows" PROVE p[i] # p[j]
    BY <1>2, <1>3, <1>7 DEF Tidy, Apart
<1>8. \A i, j \in DOMAIN p : i # j /\ p[i].op = "rows" => p[i] # p[j]
    <2> TAKE i, j \in DOMAIN p
    <2> HAVE i # j /\ p[i].op = "rows"
    <2>1. i < j \/ j < i
        BY <1>3
    <2>2. CASE i < j
        BY <1>7, <2>2
    <2>3. CASE j < i
        BY <1>7, <2>3
    <2> QED
        BY <2>1, <2>2, <2>3
<1> QED
    BY <1>1, <1>3, <1>5, <1>6, <1>8 DEF Orderly

\* The plan of a run, in the state of the run.
LEMMA PlanOfRun ==
    ASSUME TypeOK, NEW r \in Runs
    PROVE  /\ Database(r) = Selected(source, chosen[r])
           /\ plan[r].valid = Valid(Database(r))
           /\ Database(r) \in Catalogues /\ Consistent(Database(r))
           /\ RelationNames(r) = ToSet(TargetRelationNames(Database(r)))
           /\ plan[r].views = {CreateView(v) : v \in ToSet(Database(r).views)}
           /\ plan[r].valid => /\ Sound(Database(r)) /\ Orderly(Statements(r))
                               /\ ToSet(Statements(r)) = StatementsFor(Database(r), r \in schemaOnly)
<1>0. source \in Catalogues /\ Consistent(source)
    BY SourcesAssumption DEF TypeOK
<1>1. plan[r] = Plan(source, chosen[r], r \in schemaOnly)
    BY DEF TypeOK
<1>2. PICK c : c = Selected(source, chosen[r])
    OBVIOUS
<1>3. /\ Database(r) = c /\ plan[r].valid = Valid(c)
      /\ RelationNames(r) = ToSet(TargetRelationNames(c))
      /\ Statements(r) = Program(c, r \in schemaOnly)
      /\ plan[r].views = ToSet(Each(CreateView, c.views))
    BY <1>1, <1>2, PlanFields DEF Database, RelationNames, Statements
<1>4. c \in Catalogues /\ Consistent(c) /\ (Valid(c) => Sound(c))
    BY <1>0, <1>2, SelectedConsistent
<1>5. plan[r].views = {CreateView(v) : v \in ToSet(c.views)}
    BY <1>3, <1>4, CatalogueFields, ViewStatements
<1>6. ASSUME Valid(c)
      PROVE  /\ Sound(c) /\ Orderly(Statements(r))
             /\ ToSet(Statements(r)) = StatementsFor(c, r \in schemaOnly)
    <2>1. (r \in schemaOnly) \in BOOLEAN
        OBVIOUS
    <2>2. Sound(c)
        BY <1>4, <1>6
    <2>3. Orderly(Program(c, r \in schemaOnly))
        BY <1>4, <2>1, <2>2, ProgramOrderly
    <2>4. ToSet(Program(c, r \in schemaOnly)) = StatementsFor(c, r \in schemaOnly)
        BY <2>1, <2>2, ProgramInOrder
    <2> QED
        BY <1>3, <2>2, <2>3, <2>4
<1> QED
    BY <1>2, <1>3, <1>4, <1>5, <1>6

-------------------------------------------------------------------------------
(* The steps of one run. *)

\* Every function of the state is defined for every run.
LEMMA Domains ==
    ASSUME TypeOK
    PROVE  /\ DOMAIN stage = Runs /\ DOMAIN unchecked = Runs /\ DOMAIN pos = Runs
           /\ DOMAIN pending = Runs /\ DOMAIN retry = Runs /\ DOMAIN session = Runs
           /\ DOMAIN result = Runs /\ DOMAIN applied = Runs /\ DOMAIN created = Runs
    BY DEF TypeOK

\* What the steps of other runs leave alone.
Untouched(q) ==
    /\ UNCHANGED config
    /\ stage'[q] = stage[q] /\ unchecked'[q] = unchecked[q] /\ pos'[q] = pos[q]
    /\ pending'[q] = pending[q] /\ retry'[q] = retry[q] /\ session'[q] = session[q]
    /\ result'[q] = result[q] /\ applied'[q] = applied[q] /\ created'[q] = created[q]
    /\ {o \in orphans' : o[1] = q} = {o \in orphans : o[1] = q}

\* A run that is left alone in this sense stays as it should be.
LEMMA UntouchedOK ==
    ASSUME NEW q \in Runs, RunOK(q), Untouched(q)
    PROVE  RunOK(q)'
<1>0. /\ plan' = plan /\ existing' = existing
      /\ \A o : o[1] = q => (o \in orphans' <=> o \in orphans)
    BY DEF Untouched, config
<1>1. StagesOK(q)'
    BY <1>0 DEF RunOK, StagesOK, Untouched, Admitted, RelationNames, HasNext, NextStatement, Statements
<1>2. ProgressOK(q)'
    BY <1>0 DEF RunOK, ProgressOK, Untouched, Statements
<1>3. CreatedOK(q)'
    BY <1>0 DEF RunOK, CreatedOK, Untouched
<1>4. OrphansOK(q)'
    BY <1>0 DEF RunOK, OrphansOK, Untouched
<1>5. ViewsOK(q)'
    BY <1>0 DEF RunOK, ViewsOK, Untouched, Database
<1> QED
    BY <1>1, <1>2, <1>3, <1>4, <1>5 DEF RunOK

\* A step before the run has sent anything.
LEMMA EarlySteps ==
    ASSUME TypeOK, NEW r \in Runs, RunOK(r),
           Accept(r) \/ Reject(r) \/ RelationAbsent(r) \/ RelationExists(r) \/ StartBuilding(r) \/ FailEarly(r)
    PROVE  RunOK(r)' /\ \A q \in Runs \ {r} : Untouched(q)
<1>0. /\ plan' = plan /\ existing' = existing /\ orphans' = orphans /\ applied' = applied
      /\ created' = created /\ session' = session /\ pos' = pos /\ pending' = pending /\ retry' = retry
      /\ stage[r] \in {"validate", "check"} /\ stage'[r] \in {"check", "build", "ended"}
    BY Domains DEF Accept, Reject, RelationAbsent, RelationExists, StartBuilding, FailEarly, Ends,
                   config, viewVars, target
<1>a. /\ stage'[r] = "ended" => result'[r] = "error"
      /\ stage'[r] # "ended" => result'[r] = result[r]
      /\ stage'[r] = "check" => plan[r].valid /\ RelationNames(r) \cap existing \subseteq unchecked'[r]
      /\ stage'[r] = "build" => Admitted(r)
    <2>1. CASE Accept(r)
        BY <2>1, Domains DEF Accept
    <2>2. CASE Reject(r) \/ RelationExists(r) \/ FailEarly(r)
        BY <2>2, Domains DEF Reject, RelationExists, FailEarly, Ends
    <2>3. CASE RelationAbsent(r)
        BY <2>3, Domains DEF RelationAbsent, RunOK, StagesOK, Relations
    <2>4. CASE StartBuilding(r)
        BY <2>4, Domains DEF StartBuilding, RunOK, StagesOK, Admitted
    <2> QED
        BY <2>1, <2>2, <2>3, <2>4
<1>b. applied[r] = {} /\ (\A o \in orphans : o[1] # r) /\ session[r] = "idle" /\ result[r] = "pending"
    BY <1>0 DEF RunOK, StagesOK, HasNext
<1>1. StagesOK(r)'
    BY <1>0, <1>a, <1>b DEF StagesOK, Admitted, RelationNames
<1>2. ProgressOK(r)'
    <2>1. pos'[r] = 1 /\ Statements(r)' = Statements(r) /\ applied'[r] = {} /\ result'[r] # "ok"
        BY <1>0, <1>a, <1>b DEF RunOK, ProgressOK, Statements
    <2>2. stage'[r] = "build" => Statements(r) \in Seq(AnyStatement)
        BY <1>a, PlanOfRun DEF Admitted, Orderly
    <2> QED
        BY <1>0, <2>1, <2>2 DEF ProgressOK
<1>3. CreatedOK(r)'
    BY <1>0 DEF RunOK, CreatedOK
<1>4. OrphansOK(r)'
    BY <1>0, <1>b DEF OrphansOK
<1>5. ViewsOK(r)'
    BY <1>0, <1>a, <1>b DEF RunOK, ViewsOK
<1>6. ASSUME NEW q \in Runs \ {r} PROVE Untouched(q)
    BY Domains DEF Accept, Reject, RelationAbsent, RelationExists, StartBuilding, FailEarly, Ends,
                   config, viewVars, target, Untouched
<1> QED
    BY <1>1, <1>2, <1>3, <1>4, <1>5, <1>6 DEF RunOK

\* The statement a run has come to.
LEMMA NextFacts ==
    ASSUME TypeOK, NEW r \in Runs, RunOK(r), HasNext(r)
    PROVE  /\ Admitted(r)
           /\ NextStatement(r) \in AnyStatement
           /\ NextStatement(r) \in AllStatements(r)
           /\ \/ /\ stage[r] = "build"
                 /\ pos[r] \in DOMAIN Statements(r)
                 /\ NextStatement(r) = Statements(r)[pos[r]]
                 /\ NextStatement(r).op # "view"
              \/ /\ stage[r] = "views"
                 /\ pos[r] \in DOMAIN pending[r]
                 /\ pending[r][pos[r]] \in ToSet(Database(r).views)
                 /\ NextStatement(r) = CreateView(pending[r][pos[r]])
                 /\ NextStatement(r).op = "view"
<1>1. Admitted(r)
    BY DEF HasNext, RunOK, StagesOK
<1>2. Orderly(Statements(r))
    BY <1>1, PlanOfRun DEF Admitted
<1>3. pos[r] \in Nat /\ pos[r] # 0
    BY DEF TypeOK
<1>4. CASE stage[r] = "build"
    <2>1. pos[r] \in DOMAIN Statements(r) /\ NextStatement(r) = Statements(r)[pos[r]]
        BY <1>2, <1>3, <1>4 DEF HasNext, NextStatement, Orderly
    <2>2. NextStatement(r) \in ToSet(Statements(r))
        BY <2>1 DEF ToSet
    <2>3. NextStatement(r) \in AnyStatement /\ NextStatement(r).op # "view"
        BY <1>2, <2>1 DEF Orderly
    <2> QED
        BY <1>1, <1>4, <2>1, <2>2, <2>3 DEF AllStatements
<1>5. CASE stage[r] = "views"
    <2>1. pending[r] \in Seq(AnyView) /\ ToSet(pending[r]) \subseteq ToSet(Database(r).views)
        BY DEF TypeOK
    <2>2. pos[r] \in DOMAIN pending[r] /\ NextStatement(r) = CreateView(pending[r][pos[r]])
        BY <1>3, <1>5, <2>1 DEF HasNext, NextStatement
    <2>3. pending[r][pos[r]] \in AnyView /\ pending[r][pos[r]] \in ToSet(Database(r).views)
        BY <2>1, <2>2 DEF ToSet
    <2>4. NextStatement(r) \in AnyStatement
        BY <2>2, <2>3, StatementTypes
    <2>5. NextStatement(r) \in plan[r].views
        BY <2>2, <2>3, PlanOfRun
    <2>6. NextStatement(r).op = "view"
        BY <2>2 DEF CreateView, Statement
    <2> QED
        BY <1>1, <1>5, <2>2, <2>3, <2>4, <2>5, <2>6 DEF AllStatements
<1> QED
    BY <1>4, <1>5 DEF HasNext

\* A step that changes nothing but what the run waits for.
LEMMA SessionSteps ==
    ASSUME TypeOK, NEW r \in Runs, RunOK(r), Send(r) \/ Refuse(r) \/ Break(r) \/ Cancel(r)
    PROVE  RunOK(r)' /\ \A q \in Runs \ {r} : Untouched(q)
<1>0. /\ plan' = plan /\ existing' = existing /\ orphans' = orphans /\ applied' = applied
      /\ created' = created /\ stage' = stage /\ result' = result /\ unchecked' = unchecked
      /\ pos' = pos /\ pending' = pending /\ retry' = retry
      /\ session'[r] = "sent" \/ session'[r] = "refused" \/ session'[r] = session[r]
      /\ session[r] = "ok" => session'[r] = "ok"
      /\ HasNext(r) \/ session'[r] = session[r]
    <2>1. CASE Send(r)
        BY <2>1, Domains DEF Send, config, viewVars, target
    <2>2. CASE Refuse(r)
        BY <2>2, Domains DEF Refuse, config, viewVars, target, RunOK, StagesOK
    <2>3. CASE Break(r)
        BY <2>3, Domains DEF Break, config, viewVars, target, RunOK, StagesOK
    <2>4. CASE Cancel(r)
        BY <2>4, Domains DEF Cancel, config, viewVars, target
    <2> QED
        BY <2>1, <2>2, <2>3, <2>4
<1>1. StagesOK(r)'
    BY <1>0 DEF RunOK, StagesOK, Admitted, RelationNames, HasNext, NextStatement, Statements
<1>2. ProgressOK(r)'
    BY <1>0 DEF RunOK, ProgressOK, Statements
<1>3. CreatedOK(r)'
    BY <1>0 DEF RunOK, CreatedOK
<1>4. OrphansOK(r)'
    BY <1>0 DEF RunOK, OrphansOK
<1>5. ViewsOK(r)'
    BY <1>0 DEF RunOK, ViewsOK, Database
<1>6. ASSUME NEW q \in Runs \ {r} PROVE Untouched(q)
    BY Domains DEF Send, Refuse, Break, Cancel, config, viewVars, target, Untouched
<1> QED
    BY <1>1, <1>2, <1>3, <1>4, <1>5, <1>6 DEF RunOK

\* A statement that takes effect: what it adds to what the run has applied and created, and
\* that it found what it needs in the target.
LEMMA ApplyFacts ==
    ASSUME TypeOK, NEW r \in Runs, NEW s \in AnyStatement, Apply(r, s)
    PROVE  /\ applied'[r] = applied[r] \cup {s}
           /\ created'[r] = created[r] \cup s.creates \cup (s.implicit \ Relations)
           /\ \A q \in Runs \ {r} : applied'[q] = applied[q] /\ created'[q] = created[q]
           /\ s.needs \subseteq Relations
           /\ s.creates \cap Relations = {}
           /\ (created'[r] \ created[r]) \cap Relations = {}
    BY Domains DEF Apply, Refused, Claims

\* The tables, keys and indexes a statement of the run needs were created by the run.
LEMMA NeedsCreated ==
    ASSUME TypeOK, NEW r \in Runs, RunOK(r), HasNext(r), stage[r] = "build"
    PROVE  NextStatement(r).needs \subseteq created[r]
<1>1. Orderly(Statements(r)) /\ pos[r] \in DOMAIN Statements(r) /\ NextStatement(r) = Statements(r)[pos[r]]
    BY NextFacts, PlanOfRun DEF Admitted
<1>2. ASSUME NEW name \in NextStatement(r).needs PROVE name \in created[r]
    <2>1. PICK j \in DOMAIN Statements(r) : j < pos[r] /\ name \in Statements(r)[j].creates
        BY <1>1, <1>2 DEF Orderly
    <2>2. Statements(r)[j] \in applied[r]
        BY <2>1 DEF RunOK, ProgressOK
    <2> QED
        BY <2>1, <2>2 DEF RunOK, CreatedOK
<1> QED
    BY <1>2

\* A copy that has been sent and not carried out has not been carried out before either.
LEMMA RowsNotYet ==
    ASSUME TypeOK, NEW r \in Runs, RunOK(r), HasNext(r), stage[r] = "build", session[r] = "sent",
           NextStatement(r).op = "rows"
    PROVE  NextStatement(r) \notin applied[r]
<1>1. Orderly(Statements(r)) /\ pos[r] \in DOMAIN Statements(r) /\ NextStatement(r) = Statements(r)[pos[r]]
    BY NextFacts, PlanOfRun DEF Admitted
<1>2. \A x \in applied[r] : \E j \in DOMAIN Statements(r) : Statements(r)[j] = x /\ j < pos[r]
    BY DEF RunOK, ProgressOK
<1> QED
    BY <1>1, <1>2 DEF Orderly, TypeOK

\* The target carries out the statement of a run.
LEMMA TakeEffectStep ==
    ASSUME TypeOK, NEW r \in Runs, RunOK(r), TakeEffect(r)
    PROVE  RunOK(r)' /\ \A q \in Runs \ {r} : Untouched(q)
<1>0. /\ plan' = plan /\ existing' = existing /\ orphans' = orphans /\ unchecked' = unchecked
      /\ stage' = stage /\ result' = result
      /\ pos' = pos /\ pending' = pending /\ retry' = retry
      /\ session' = [session EXCEPT ![r] = "ok"] /\ session'[r] = "ok" /\ session[r] = "sent"
    BY Domains DEF TakeEffect, config, viewVars
<1>1. HasNext(r)
    BY <1>0 DEF RunOK, StagesOK
<1>2. PICK s \in AnyStatement : s = NextStatement(r)
    BY <1>1, NextFacts
<1>3. Apply(r, s)
    BY <1>2 DEF TakeEffect
<1>4. /\ applied'[r] = applied[r] \cup {s}
      /\ created'[r] = created[r] \cup s.creates \cup (s.implicit \ Relations)
      /\ \A q \in Runs \ {r} : applied'[q] = applied[q] /\ created'[q] = created[q]
      /\ (created'[r] \ created[r]) \cap existing = {}
    BY <1>3, ApplyFacts DEF Relations
<1>5. HasNext(r)' /\ NextStatement(r)' = s /\ Statements(r)' = Statements(r)
    BY <1>0, <1>1, <1>2 DEF HasNext, NextStatement, Statements
<1>6. /\ stage[r] = "build" => s \in AnyStatement /\ s.op # "view" /\ s.needs \subseteq created[r]
                                /\ pos[r] \in DOMAIN Statements(r) /\ s = Statements(r)[pos[r]]
      /\ stage[r] # "build" => s.op = "view"
      /\ stage[r] \in {"build", "views"} /\ Admitted(r)
    BY <1>1, <1>2, NextFacts, NeedsCreated
<1>7. StagesOK(r)'
    <2>1. Admitted(r)' /\ s \in applied'[r]
        BY <1>0, <1>4, <1>6 DEF Admitted, RelationNames
    <2> QED
        BY <1>0, <1>5, <1>6, <2>1 DEF RunOK, StagesOK
<1>8. ProgressOK(r)'
    BY <1>0, <1>4, <1>5, <1>6 DEF RunOK, StagesOK, ProgressOK
<1>9. CreatedOK(r)'
    BY <1>0, <1>4, <1>6 DEF RunOK, CreatedOK
<1>10. OrphansOK(r)'
    BY <1>0, <1>4, <1>6 DEF RunOK, StagesOK, OrphansOK
<1>11. ViewsOK(r)'
    BY <1>0, <1>4 DEF RunOK, ViewsOK, Database
<1>12. ASSUME NEW q \in Runs \ {r} PROVE Untouched(q)
    <2>1. UNCHANGED config
        BY DEF TakeEffect
    <2>2. session'[q] = session[q]
        BY <1>0
    <2> QED
        BY <1>0, <1>4, <2>1, <2>2 DEF Untouched
<1> QED
    BY <1>7, <1>8, <1>9, <1>10, <1>11, <1>12 DEF RunOK

\* The target carries out a statement that nobody waits for any more.
LEMMA OrphanStep ==
    ASSUME TypeOK, NEW o \in orphans, RunOK(o[1]), Apply(o[1], o[2]), orphans' = orphans \ {o},
           UNCHANGED <<config, stage, unchecked, pos, viewVars, session, result>>
    PROVE  o[1] \in Runs /\ RunOK(o[1])' /\ \A q \in Runs \ {o[1]} : Untouched(q)
<1> DEFINE r == o[1]
           s == o[2]
<1>a. r \in Runs /\ s \in AnyStatement /\ \A p \in orphans : p = <<p[1], p[2]>>
    BY DEF TypeOK
<1> HIDE DEF r, s
<1>0. /\ plan' = plan /\ existing' = existing /\ unchecked' = unchecked
      /\ stage' = stage /\ result' = result /\ session' = session
      /\ pos' = pos /\ pending' = pending /\ retry' = retry
    BY DEF config, viewVars
<1>3. Apply(r, s)
    BY DEF r, s
<1>4. /\ applied'[r] = applied[r] \cup {s}
      /\ created'[r] = created[r] \cup s.creates \cup (s.implicit \ Relations)
      /\ \A q \in Runs \ {r} : applied'[q] = applied[q] /\ created'[q] = created[q]
      /\ (created'[r] \ created[r]) \cap existing = {}
    BY <1>3, <1>a, ApplyFacts DEF Relations
<1>5. RunOK(r) /\ o[1] = r /\ o[2] = s
    BY DEF r, s
<1>6. /\ stage[r] \notin {"validate", "check", "build"} /\ Admitted(r)
      /\ s.op # "view" => s.needs \subseteq created[r]
    BY <1>5 DEF RunOK, StagesOK, OrphansOK
<1>7. StagesOK(r)'
    <2>1. Admitted(r)' /\ (HasNext(r)' <=> HasNext(r)) /\ NextStatement(r)' = NextStatement(r)
        BY <1>0, <1>6 DEF Admitted, RelationNames, HasNext, NextStatement, Statements
    <2> QED
        BY <1>0, <1>4, <1>5, <1>6, <2>1 DEF RunOK, StagesOK
<1>8. ProgressOK(r)'
    BY <1>0, <1>4, <1>5, <1>6 DEF RunOK, ProgressOK, Statements
<1>9. CreatedOK(r)'
    BY <1>0, <1>4, <1>5, <1>6 DEF RunOK, CreatedOK
<1>10. OrphansOK(r)'
    BY <1>0, <1>a, <1>4, <1>5 DEF RunOK, OrphansOK
<1>11. ViewsOK(r)'
    BY <1>0, <1>4, <1>5 DEF RunOK, ViewsOK, Database
<1>12. ASSUME NEW q \in Runs \ {r} PROVE Untouched(q)
    BY <1>0, <1>4, <1>5 DEF Untouched
<1> QED
    BY <1>a, <1>5, <1>7, <1>8, <1>9, <1>10, <1>11, <1>12 DEF RunOK

\* A statement that never takes effect.
LEMMA OrphanDiesStep ==
    ASSUME OrphanDies, NEW r \in Runs, RunOK(r)
    PROVE  RunOK(r)'
<1>0. /\ plan' = plan /\ existing' = existing /\ unchecked' = unchecked
      /\ stage' = stage /\ result' = result /\ session' = session
      /\ pos' = pos /\ pending' = pending /\ retry' = retry
      /\ applied' = applied /\ created' = created /\ orphans' \subseteq orphans
    BY DEF OrphanDies, config, viewVars, target
<1>1. StagesOK(r)'
    BY <1>0 DEF RunOK, StagesOK, Admitted, RelationNames, HasNext, NextStatement, Statements
<1>2. ProgressOK(r)'
    BY <1>0 DEF RunOK, ProgressOK, Statements
<1>3. CreatedOK(r)'
    BY <1>0 DEF RunOK, CreatedOK
<1>4. OrphansOK(r)'
    BY <1>0 DEF RunOK, OrphansOK
<1>5. ViewsOK(r)'
    BY <1>0 DEF RunOK, ViewsOK, Database
<1> QED
    BY <1>1, <1>2, <1>3, <1>4, <1>5 DEF RunOK

\* The target has answered.
LEMMA SucceedStep ==
    ASSUME TypeOK, NEW r \in Runs, RunOK(r), Succeed(r)
    PROVE  RunOK(r)' /\ \A q \in Runs \ {r} : Untouched(q)
<1>0. /\ plan' = plan /\ existing' = existing /\ orphans' = orphans /\ unchecked' = unchecked
      /\ stage' = stage /\ result' = result /\ pending' = pending /\ retry' = retry
      /\ applied' = applied /\ created' = created
      /\ session[r] = "ok" /\ session'[r] = "idle" /\ pos'[r] = pos[r] + 1
      /\ \A q \in Runs \ {r} : session'[q] = session[q] /\ pos'[q] = pos[q]
    BY Domains DEF Succeed, config, viewVars, target
<1>1. HasNext(r) /\ NextStatement(r) \in applied[r] /\ pos[r] \in Nat \ {0}
    BY <1>0 DEF RunOK, StagesOK, TypeOK
<1>2. /\ Statements(r)' = Statements(r)
      /\ stage[r] \in {"build", "views"} /\ Admitted(r)
      /\ stage[r] = "build" => /\ Statements(r) \in Seq(AnyStatement)
                               /\ pos[r] \in DOMAIN Statements(r) /\ NextStatement(r) = Statements(r)[pos[r]]
      /\ stage[r] = "views" => /\ pending[r] \in Seq(AnyView) /\ retry[r] \in Seq(AnyView)
                               /\ pos[r] \in DOMAIN pending[r]
                               /\ NextStatement(r) = CreateView(pending[r][pos[r]])
    <2>1. stage[r] = "build" => Statements(r) \in Seq(AnyStatement)
        BY <1>1, NextFacts, PlanOfRun DEF Admitted, Orderly
    <2> QED
        BY <1>0, <1>1, <2>1, NextFacts DEF Statements, TypeOK
<1>3. StagesOK(r)'
    BY <1>0, <1>2 DEF RunOK, StagesOK, Admitted, RelationNames
<1>4. ProgressOK(r)'
    <2>1. CASE stage[r] = "build"
        BY <1>0, <1>1, <1>2, <2>1 DEF RunOK, StagesOK, ProgressOK
    <2>2. CASE stage[r] = "views"
        BY <1>0, <1>2, <2>2 DEF RunOK, ProgressOK
    <2> QED
        BY <1>2, <2>1, <2>2
<1>5. CreatedOK(r)'
    BY <1>0 DEF RunOK, CreatedOK
<1>6. OrphansOK(r)'
    BY <1>0 DEF RunOK, OrphansOK
<1>7. ViewsOK(r)'
    BY <1>0, <1>1, <1>2 DEF RunOK, ViewsOK, Database
<1>8. ASSUME NEW q \in Runs \ {r} PROVE Untouched(q)
    BY <1>0 DEF Untouched, Succeed
<1> QED
    BY <1>3, <1>4, <1>5, <1>6, <1>7, <1>8 DEF RunOK

\* A run that ends without success, the statement it waits for left behind.
LEMMA EndedOK ==
    ASSUME TypeOK, NEW r \in Runs, RunOK(r), stage[r] # "ended",
           plan' = plan, existing' = existing, applied' = applied, created' = created,
           stage'[r] = "ended", result'[r] \in {"error", "crashed"}, session'[r] = "idle",
           \/ orphans' = orphans
           \/ session[r] = "sent" /\ orphans' = orphans \cup {<<r, NextStatement(r)>>}
    PROVE  RunOK(r)'
<1>1. \A o \in orphans : o[1] = r => o[2].op = "view"
    BY DEF RunOK, StagesOK, OrphansOK
<1>2. \A o \in orphans' \ orphans : o = <<r, NextStatement(r)>> /\ session[r] = "sent"
    OBVIOUS
<1>3. ASSUME session[r] = "sent"
      PROVE  /\ Admitted(r)
             /\ \/ NextStatement(r).op = "view"
                \/ /\ NextStatement(r).needs \subseteq created[r]
                   /\ NextStatement(r).op = "rows" => NextStatement(r) \notin applied[r]
    <2>1. HasNext(r)
        BY <1>3 DEF RunOK, StagesOK
    <2>2. CASE stage[r] = "views"
        BY <2>1, <2>2, NextFacts
    <2>3. CASE stage[r] = "build"
        BY <1>3, <2>1, <2>3, NextFacts, NeedsCreated, RowsNotYet
    <2> QED
        BY <2>1, <2>2, <2>3 DEF HasNext
<1>4. StagesOK(r)'
    <2>1. applied[r] # {} => Admitted(r)
        BY DEF RunOK, StagesOK
    <2>2. (\E o \in orphans' : o[1] = r) => Admitted(r)
        BY <1>2, <1>3 DEF RunOK, StagesOK
    <2>3. Admitted(r)' <=> Admitted(r)
        BY DEF Admitted, RelationNames
    <2> QED
        BY <2>1, <2>2, <2>3 DEF StagesOK
<1>5. ProgressOK(r)'
    BY DEF ProgressOK
<1>6. CreatedOK(r)'
    BY DEF RunOK, CreatedOK
<1>7. OrphansOK(r)'
    BY <1>1, <1>2, <1>3 DEF OrphansOK
<1>8. ViewsOK(r)'
    BY DEF ViewsOK
<1> QED
    BY <1>4, <1>5, <1>6, <1>7, <1>8 DEF RunOK

\* A view put aside for the next pass.
LEMMA PutAsideOK ==
    ASSUME TypeOK, NEW r \in Runs, RunOK(r), stage[r] = "views", HasNext(r),
           plan' = plan, existing' = existing, applied' = applied, created' = created,
           stage' = stage, result' = result, pending' = pending,
           retry'[r] = Append(retry[r], pending[r][pos[r]]), pos'[r] = pos[r] + 1, session'[r] = "idle",
           \/ orphans' = orphans
           \/ orphans' = orphans \cup {<<r, NextStatement(r)>>}
    PROVE  RunOK(r)'
<1>1. /\ pending[r] \in Seq(AnyView) /\ retry[r] \in Seq(AnyView)
      /\ pos[r] \in Nat \ {0} /\ pos[r] \in DOMAIN pending[r] /\ pending[r][pos[r]] \in AnyView
      /\ NextStatement(r).op = "view" /\ Admitted(r)
    BY NextFacts DEF TypeOK
<1>2. \A o \in orphans' : o \in orphans \/ o = <<r, NextStatement(r)>>
    OBVIOUS
<1>3. /\ Len(retry'[r]) = Len(retry[r]) + 1
      /\ ToSet(retry'[r]) = ToSet(retry[r]) \cup {pending[r][pos[r]]}
    <2>1. /\ Len(retry'[r]) = Len(retry[r]) + 1 /\ DOMAIN retry'[r] = 1..(Len(retry[r]) + 1)
          /\ DOMAIN retry[r] = 1..Len(retry[r]) /\ Len(retry[r]) \in Nat
          /\ \A i \in 1..Len(retry[r]) : retry'[r][i] = retry[r][i]
          /\ retry'[r][Len(retry[r]) + 1] = pending[r][pos[r]]
        BY <1>1
    <2> QED
        BY <2>1 DEF ToSet
<1>4. StagesOK(r)'
    BY <1>1, <1>2 DEF RunOK, StagesOK, Admitted, RelationNames
<1>5. ProgressOK(r)'
    BY DEF RunOK, ProgressOK, Statements
<1>6. CreatedOK(r)'
    BY DEF RunOK, CreatedOK
<1>7. OrphansOK(r)'
    BY <1>1, <1>2 DEF RunOK, OrphansOK
<1>8. ViewsOK(r)'
    BY <1>1, <1>3 DEF RunOK, StagesOK, ViewsOK, Database
<1> QED
    BY <1>4, <1>5, <1>6, <1>7, <1>8 DEF RunOK

\* A statement that failed, that the run no longer waits for, or that it did not send; and
\* the end of the process.
LEMMA FailSteps ==
    ASSUME TypeOK, NEW r \in Runs, RunOK(r),
           Fail(r) \/ GiveUp(r) \/ LoseConnection(r) \/ NotSent(r) \/ Crash(r)
    PROVE  RunOK(r)' /\ \A q \in Runs \ {r} : Untouched(q)
<1>0. /\ plan' = plan /\ existing' = existing /\ unchecked' = unchecked
      /\ pending' = pending /\ applied' = applied /\ created' = created
      /\ session'[r] = "idle"
      /\ \/ orphans' = orphans
         \/ session[r] = "sent" /\ orphans' = orphans \cup {<<r, NextStatement(r)>>}
    BY Domains DEF Fail, GiveUp, LoseConnection, NotSent, Crash, Abandon, config, viewVars, target
<1>e. ASSUME NEW q \in Runs \ {r} PROVE Untouched(q)
    <2>1. /\ stage'[q] = stage[q] /\ pos'[q] = pos[q] /\ retry'[q] = retry[q]
          /\ session'[q] = session[q] /\ result'[q] = result[q]
        BY Domains DEF Fail, GiveUp, LoseConnection, NotSent, Crash, Abandon, Failed, Ends, viewVars
    <2>2. {o \in orphans' : o[1] = q} = {o \in orphans : o[1] = q}
        BY <1>0
    <2>3. UNCHANGED config
        BY DEF Fail, GiveUp, LoseConnection, NotSent, Crash
    <2> QED
        BY <1>0, <2>1, <2>2, <2>3 DEF Untouched
<1> SUFFICES RunOK(r)'
    BY <1>e
<1>1. CASE Failed(r) /\ (Fail(r) \/ GiveUp(r) \/ LoseConnection(r) \/ NotSent(r))
    <2>1. HasNext(r)
        BY <1>1 DEF Fail, GiveUp, LoseConnection, NotSent, Waiting, RunOK, StagesOK
    <2>2. CASE stage[r] = "build"
        <3>1. stage'[r] = "ended" /\ result'[r] \in {"error", "crashed"}
            BY <1>1, <2>2, Domains DEF Failed, Ends
        <3> QED
            BY <1>0, <2>2, <3>1, EndedOK
    <2>3. CASE stage[r] = "views"
        <3>1. /\ stage' = stage /\ result' = result
              /\ retry'[r] = Append(retry[r], pending[r][pos[r]]) /\ pos'[r] = pos[r] + 1
            BY <1>1, <2>3, Domains DEF Failed
        <3> QED
            BY <1>0, <2>1, <2>3, <3>1, PutAsideOK
    <2> QED
        BY <2>1, <2>2, <2>3 DEF HasNext
<1>2. CASE Crash(r)
    <2>1. stage[r] # "ended" /\ stage'[r] = "ended" /\ result'[r] \in {"error", "crashed"}
        BY <1>2, Domains DEF Crash, Ends
    <2> QED
        BY <1>0, <2>1, EndedOK
<1> QED
    BY <1>1, <1>2 DEF Fail, GiveUp, LoseConnection, NotSent

\* The beginning and the end of the passes over the views.
LEMMA PassSteps ==
    ASSUME TypeOK, NEW r \in Runs, RunOK(r),
           StartViews(r) \/ Finish(r) \/ EndPass(r) \/ GiveUpViews(r)
    PROVE  RunOK(r)' /\ \A q \in Runs \ {r} : Untouched(q)
<1>0. /\ plan' = plan /\ existing' = existing /\ orphans' = orphans /\ unchecked' = unchecked
      /\ session' = session /\ applied' = applied /\ created' = created
      /\ stage[r] \in {"build", "views"}
    BY DEF StartViews, Finish, EndPass, GiveUpViews, PassOver, config, viewVars, target
<1>a. /\ Statements(r)' = Statements(r) /\ Database(r)' = Database(r) /\ Admitted(r)
      /\ Admitted(r)'
    BY <1>0 DEF Statements, Database, RunOK, StagesOK, Admitted, RelationNames
<1>b. /\ pending[r] \in Seq(AnyView) /\ retry[r] \in Seq(AnyView) /\ pos[r] \in Nat \ {0}
      /\ Statements(r) \in Seq(AnyStatement) /\ Database(r).views \in Seq(AnyView)
    <2>1. Statements(r) \in Seq(AnyStatement)
        BY <1>a, PlanOfRun DEF Admitted, Orderly
    <2>2. Database(r).views \in Seq(AnyView)
        BY PlanOfRun, CatalogueFields
    <2> QED
        BY <2>1, <2>2 DEF TypeOK
<1>c. session[r] = "idle" /\ ~HasNext(r)
    <2>1. ~HasNext(r)
        BY <1>b DEF StartViews, Finish, EndPass, GiveUpViews, PassOver, HasNext
    <2> QED
        BY <2>1 DEF RunOK, StagesOK
<1>d. CreatedOK(r)' /\ (OrphansOK(r) /\ result'[r] = result[r] => OrphansOK(r)')
    BY <1>0 DEF RunOK, CreatedOK, OrphansOK
<1>e. ASSUME NEW q \in Runs \ {r} PROVE Untouched(q)
    BY Domains DEF StartViews, Finish, EndPass, GiveUpViews, Ends, config, viewVars, target, Untouched
<1> SUFFICES RunOK(r)'
    BY <1>e
<1>1. CASE StartViews(r)
    <2>1. /\ stage[r] = "build" /\ pos[r] > Len(Statements(r))
          /\ stage'[r] = "views" /\ result' = result
          /\ pending'[r] = Database(r).views /\ pos'[r] = 1 /\ retry' = retry
        BY <1>1, Domains DEF StartViews
    <2>2. StagesOK(r)'
        BY <1>0, <1>a, <1>c, <2>1 DEF RunOK, StagesOK
    <2>3. ProgressOK(r)'
        BY <1>0, <1>a, <1>b, <2>1 DEF RunOK, ProgressOK, ToSet
    <2>4. ViewsOK(r)'
        <3>1. retry[r] = <<>> /\ result[r] # "ok"
            BY <2>1 DEF RunOK, StagesOK, ViewsOK
        <3>2. \A v \in ToSet(Database(r).views) : \E k \in DOMAIN pending'[r] : 1 <= k /\ pending'[r][k] = v
            BY <1>b, <2>1 DEF ToSet
        <3>3. Len(retry'[r]) < pos'[r] /\ pos'[r] <= Len(pending'[r]) + 1
            BY <1>b, <2>1, <3>1
        <3> QED
            BY <1>a, <2>1, <3>1, <3>2, <3>3 DEF ViewsOK
    <2> QED
        BY <1>d, <2>1, <2>2, <2>3, <2>4 DEF RunOK
<1>2. CASE Finish(r)
    <2>1. /\ stage[r] = "views" /\ pending[r] = <<>>
          /\ stage'[r] = "ended" /\ result'[r] = "ok" /\ pending' = pending /\ retry' = retry
        BY <1>2, Domains DEF Finish, Ends, viewVars
    <2>2. StagesOK(r)'
        BY <1>0, <1>a, <1>c, <2>1 DEF RunOK, StagesOK
    <2>3. ProgressOK(r)'
        BY <1>0, <1>a, <2>1 DEF RunOK, ProgressOK
    <2>4. ViewsOK(r)'
        <3>1. Len(retry[r]) < pos[r] /\ pos[r] <= 1 /\ Len(retry[r]) = 0
            BY <1>b, <2>1 DEF RunOK, ViewsOK
        <3>2. ToSet(retry[r]) = {}
            BY <1>b, <3>1 DEF ToSet
        <3>3. \A v \in ToSet(Database(r).views) : CreateView(v) \in applied[r]
            BY <2>1, <3>2 DEF RunOK, ViewsOK
        <3> QED
            BY <1>0, <1>a, <2>1, <3>3 DEF ViewsOK
    <2>5. OrphansOK(r)'
        BY <1>0, <2>1 DEF RunOK, StagesOK, OrphansOK
    <2> QED
        BY <1>d, <2>2, <2>3, <2>4, <2>5 DEF RunOK
<1>3. CASE EndPass(r)
    <2>1. /\ stage[r] = "views" /\ stage' = stage /\ result' = result /\ pos[r] > Len(pending[r])
          /\ pending'[r] = retry[r] /\ retry'[r] = <<>> /\ pos'[r] = 1
        BY <1>3, Domains DEF EndPass, PassOver
    <2>2. StagesOK(r)'
        BY <1>0, <1>a, <1>c, <2>1 DEF RunOK, StagesOK
    <2>3. ProgressOK(r)'
        BY <1>0, <1>a, <2>1 DEF RunOK, ProgressOK
    <2>4. ViewsOK(r)'
        <3>1. \A v \in ToSet(Database(r).views) : CreateView(v) \in applied[r] \/ v \in ToSet(retry[r])
            BY <1>b, <2>1 DEF RunOK, ViewsOK
        <3>2. \A v \in ToSet(retry[r]) : \E k \in DOMAIN retry[r] : 1 <= k /\ retry[r][k] = v
            BY <1>b DEF ToSet
        <3>3. result[r] # "ok"
            BY <2>1 DEF RunOK, StagesOK
        <3>4. Len(retry'[r]) < pos'[r] /\ pos'[r] <= Len(pending'[r]) + 1
            BY <1>b, <2>1
        <3> QED
            BY <1>0, <1>a, <2>1, <3>1, <3>2, <3>3, <3>4 DEF ViewsOK
    <2> QED
        BY <1>d, <2>1, <2>2, <2>3, <2>4 DEF RunOK
<1>4. CASE GiveUpViews(r)
    <2>1. stage[r] # "ended" /\ stage'[r] = "ended" /\ result'[r] \in {"error", "crashed"}
        BY <1>4, Domains DEF GiveUpViews, PassOver, Ends
    <2> QED
        BY <1>0, <1>c, <2>1, EndedOK
<1> QED
    BY <1>1, <1>2, <1>3, <1>4

\* A step of a run keeps what the invariant says of it, and leaves the others alone.
LEMMA RunStepOK ==
    ASSUME TypeOK, NEW r \in Runs, RunOK(r), RunStep(r) \/ ServerStep(r) \/ FaultStep(r)
    PROVE  RunOK(r)' /\ \A q \in Runs \ {r} : Untouched(q)
    BY EarlySteps, SessionSteps, TakeEffectStep, SucceedStep, FailSteps, PassSteps
       DEF RunStep, ServerStep, FaultStep

\* No step breaks what the invariant says of one run.
LEMMA RunsPreserved ==
    ASSUME TypeOK, \A r \in Runs : RunOK(r), [Next]_vars
    PROVE  \A r \in Runs : RunOK(r)'
<1>1. ASSUME NEW r \in Runs, RunStep(r) \/ ServerStep(r) \/ FaultStep(r)
      PROVE  RunOK(r)' /\ \A q \in Runs \ {r} : Untouched(q)
    BY <1>1, RunStepOK
<1>2. CASE \E r \in Runs : RunStep(r) \/ ServerStep(r) \/ FaultStep(r)
    BY <1>1, <1>2, UntouchedOK
<1>3. CASE OrphanTakesEffect
    <2>1. PICK o \in orphans : Apply(o[1], o[2]) /\ orphans' = orphans \ {o}
        BY <1>3 DEF OrphanTakesEffect
    <2>2. UNCHANGED <<config, stage, unchecked, pos, viewVars, session, result>>
        BY <1>3 DEF OrphanTakesEffect
    <2>3. o[1] \in Runs
        BY DEF TypeOK
    <2>4. RunOK(o[1])' /\ \A q \in Runs \ {o[1]} : Untouched(q)
        BY <2>1, <2>2, <2>3, OrphanStep
    <2> QED
        BY <2>3, <2>4, UntouchedOK
<1>4. CASE OrphanDies
    BY <1>4, OrphanDiesStep
<1>5. CASE UNCHANGED vars
    <2>1. \A r \in Runs : Untouched(r)
        BY <1>5 DEF vars, config, viewVars, target, Untouched
    <2> QED
        BY <2>1, UntouchedOK
<1> QED
    BY <1>2, <1>3, <1>4, <1>5 DEF Next

-------------------------------------------------------------------------------
(* Types. *)

\* The names of the relations of a catalogue are strings.
LEMMA RelationNamesTyped ==
    ASSUME NEW c \in Catalogues
    PROVE  ToSet(TargetRelationNames(c)) \subseteq STRING
<1>1. /\ c.tables \in Seq(AnyTable) /\ c.indexes \in Seq(AnyPart) /\ c.uniques \in Seq(AnyPart)
      /\ c.views \in Seq(AnyView)
    BY CatalogueFields
<1>2. /\ \A i \in DOMAIN c.tables : c.tables[i].name \in STRING /\ c.tables[i].primaryKey \in STRING
      /\ \A i \in DOMAIN c.uniques : c.uniques[i].name \in STRING
      /\ \A i \in DOMAIN c.indexes : c.indexes[i].name \in STRING
      /\ \A i \in DOMAIN c.views : c.views[i].name \in STRING
    <2>1. \A i \in DOMAIN c.tables : c.tables[i] \in AnyTable
        BY <1>1
    <2>2. /\ \A i \in DOMAIN c.uniques : c.uniques[i] \in AnyPart
          /\ \A i \in DOMAIN c.indexes : c.indexes[i] \in AnyPart
        BY <1>1
    <2>3. \A i \in DOMAIN c.views : c.views[i] \in AnyView
        BY <1>1
    <2>4. \A x \in AnyTable : x.name \in STRING /\ x.primaryKey \in STRING
        BY DEF AnyTable
    <2>5. (\A x \in AnyPart : x.name \in STRING) /\ (\A x \in AnyView : x.name \in STRING)
        BY DEF AnyPart, AnyView
    <2> QED
        BY <2>1, <2>2, <2>3, <2>4, <2>5
<1>3. ASSUME NEW relation \in TargetRelations(c) PROVE RelationName(c, relation) \in STRING
    <2>1. \/ relation[1] = "table" /\ relation[2] \in DOMAIN c.tables
          \/ relation[1] = "primaryKey" /\ relation[2] \in DOMAIN c.tables
          \/ relation[1] = "unique" /\ relation[2] \in DOMAIN c.uniques
          \/ relation[1] = "index" /\ relation[2] \in DOMAIN c.indexes
          \/ relation[1] = "view" /\ relation[2] \in DOMAIN c.views
        BY DEF TargetRelations
    <2> QED
        BY <1>2, <2>1 DEF RelationName
<1> QED
    BY <1>3 DEF TargetRelationNames, ToSet

\* A statement of a run that takes effect keeps the types of the target.
LEMMA ApplyTyped ==
    ASSUME TypeOK, NEW r \in Runs, NEW x \in AnyStatement, x \in AllStatements(r), Apply(r, x)
    PROVE  /\ applied' \in [Runs -> SUBSET AnyStatement]
           /\ \A q \in Runs : applied'[q] \subseteq AllStatements(q)
           /\ created' \in [Runs -> SUBSET STRING]
           /\ loads' \in [AllTables -> Nat]
<1>1. x.creates \subseteq STRING /\ x.implicit \subseteq STRING
    BY DEF AnyStatement
<1>2. applied' = [applied EXCEPT ![r] = @ \cup {x}]
    BY DEF Apply
<1>3. created' = [created EXCEPT ![r] = @ \cup x.creates \cup (x.implicit \ Relations)]
    BY DEF Apply
<1>4. loads' = loads \/ loads' = [loads EXCEPT ![x.name] = @ + 1]
    BY DEF Apply
<1>5. applied \in [Runs -> SUBSET AnyStatement] /\ \A q \in Runs : applied[q] \subseteq AllStatements(q)
    BY DEF TypeOK
<1>6. created \in [Runs -> SUBSET STRING] /\ loads \in [AllTables -> Nat]
    BY DEF TypeOK
<1>7. /\ applied' \in [Runs -> SUBSET AnyStatement]
      /\ \A q \in Runs : applied'[q] \subseteq AllStatements(q)
    BY <1>2, <1>5
<1>8. created' \in [Runs -> SUBSET STRING]
    BY <1>1, <1>3, <1>6
<1>9. loads' \in [AllTables -> Nat]
    BY <1>4, <1>6
<1> QED
    BY <1>7, <1>8, <1>9

\* What a run waits for is left behind as one of its statements.
LEMMA OrphansTyped ==
    ASSUME TypeOK, NEW r \in Runs, RunOK(r),
           orphans' = orphans \/ (session[r] = "sent" /\ orphans' = orphans \cup {<<r, NextStatement(r)>>})
    PROVE  orphans' \subseteq Runs \X AnyStatement /\ \A o \in orphans' : o[2] \in AllStatements(o[1])
<1>1. session[r] = "sent" => NextStatement(r) \in AnyStatement /\ NextStatement(r) \in AllStatements(r)
    BY NextFacts DEF RunOK, StagesOK
<1> QED
    BY <1>1 DEF TypeOK

\* The views a run has yet to create are views of its catalogue.
LEMMA ViewsTyped ==
    ASSUME TypeOK, NEW r \in Runs, RunOK(r), RunStep(r) \/ ServerStep(r) \/ FaultStep(r)
    PROVE  /\ pending' \in [Runs -> Seq(AnyView)] /\ retry' \in [Runs -> Seq(AnyView)]
           /\ \A q \in Runs : Len(retry'[q]) <= Len(pending'[q]) /\ ToSet(retry'[q]) \subseteq ToSet(pending'[q])
           /\ \A q \in Runs : ToSet(pending'[q]) \subseteq ToSet(Database(q).views)
<1>1. /\ pending \in [Runs -> Seq(AnyView)] /\ retry \in [Runs -> Seq(AnyView)]
      /\ \A q \in Runs : Len(retry[q]) <= Len(pending[q]) /\ ToSet(retry[q]) \subseteq ToSet(pending[q])
      /\ \A q \in Runs : ToSet(pending[q]) \subseteq ToSet(Database(q).views)
    BY DEF TypeOK
<1>2. <<>> \in Seq(AnyView) /\ ToSet(<<>>) = {} /\ Len(<<>>) = 0
    BY DEF ToSet
<1>3. CASE UNCHANGED <<pending, retry>>
    BY <1>1, <1>3
<1>4. CASE pending' = pending /\ HasNext(r) /\ stage[r] = "views"
           /\ retry' = [retry EXCEPT ![r] = Append(@, pending[r][pos[r]])]
    <2>1. pos[r] \in DOMAIN pending[r]
        BY <1>4, NextFacts
    <2>2. pending[r][pos[r]] \in AnyView /\ pending[r][pos[r]] \in ToSet(pending[r])
        BY <1>1, <2>1 DEF ToSet
    <2>3. Append(retry[r], pending[r][pos[r]]) \in Seq(AnyView)
        BY <1>1, <2>2
    <2>4. ToSet(Append(retry[r], pending[r][pos[r]])) \subseteq ToSet(pending[r])
        <3>1. \A i \in DOMAIN Append(retry[r], pending[r][pos[r]]) :
                  \/ Append(retry[r], pending[r][pos[r]])[i] = pending[r][pos[r]]
                  \/ i \in DOMAIN retry[r] /\ Append(retry[r], pending[r][pos[r]])[i] = retry[r][i]
            BY <1>1, <2>2
        <3>2. \A i \in DOMAIN retry[r] : retry[r][i] \in ToSet(pending[r])
            BY <1>1 DEF ToSet
        <3> QED
            BY <2>2, <3>1, <3>2 DEF ToSet
    <2>5. Len(Append(retry[r], pending[r][pos[r]])) <= Len(pending[r])
        <3>1. Len(retry[r]) < pos[r] /\ pos[r] <= Len(pending[r])
            BY <1>1, <1>4, <2>1 DEF RunOK, ViewsOK
        <3>2. Len(Append(retry[r], pending[r][pos[r]])) = Len(retry[r]) + 1
            BY <1>1, <2>2
        <3> QED
            BY <1>1, <3>1, <3>2 DEF TypeOK
    <2> QED
        BY <1>1, <1>4, <2>3, <2>4, <2>5
<1>5. CASE StartViews(r)
    <2>1. pending' = [pending EXCEPT ![r] = Database(r).views] /\ retry' = retry /\ stage[r] = "build"
        BY <1>5 DEF StartViews
    <2>2. retry[r] = <<>>
        BY <2>1 DEF RunOK, ViewsOK
    <2>3. Database(r).views \in Seq(AnyView)
        BY PlanOfRun, CatalogueFields
    <2> QED
        BY <1>1, <1>2, <2>1, <2>2, <2>3
<1>6. CASE EndPass(r)
    <2>1. pending' = [pending EXCEPT ![r] = retry[r]] /\ retry' = [retry EXCEPT ![r] = <<>>]
        BY <1>6 DEF EndPass
    <2> QED
        BY <1>1, <1>2, <2>1
<1>7. \/ UNCHANGED <<pending, retry>>
      \/ pending' = pending /\ HasNext(r) /\ stage[r] = "views"
         /\ retry' = [retry EXCEPT ![r] = Append(@, pending[r][pos[r]])]
      \/ StartViews(r) \/ EndPass(r)
    <2>1. ASSUME Failed(r), HasNext(r), pending' = pending
          PROVE  \/ UNCHANGED <<pending, retry>>
                 \/ pending' = pending /\ HasNext(r) /\ stage[r] = "views"
                    /\ retry' = [retry EXCEPT ![r] = Append(@, pending[r][pos[r]])]
        BY <2>1 DEF Failed, HasNext
    <2>2. CASE Fail(r) \/ GiveUp(r) \/ LoseConnection(r) \/ NotSent(r)
        <3>1. Failed(r) /\ HasNext(r) /\ pending' = pending
            BY <2>2 DEF Fail, GiveUp, LoseConnection, NotSent, Waiting, RunOK, StagesOK
        <3> QED
            BY <2>1, <3>1
    <2>3. \/ Fail(r) \/ GiveUp(r) \/ LoseConnection(r) \/ NotSent(r)
          \/ StartViews(r) \/ EndPass(r)
          \/ UNCHANGED <<pending, retry>>
        BY DEF RunStep, Accept, Reject, RelationAbsent, RelationExists, StartBuilding,
                   Send, Succeed, Fail, GiveUp, NotSent, StartViews, Finish, EndPass, GiveUpViews,
                   ServerStep, TakeEffect, Refuse, FaultStep, FailEarly, Break, LoseConnection,
                   Cancel, Crash, viewVars
    <2> QED
        BY <2>2, <2>3
<1> QED
    BY <1>3, <1>4, <1>5, <1>6, <1>7

\* A step of a run keeps the types.
LEMMA RunStepTyped ==
    ASSUME TypeOK, NEW r \in Runs, RunOK(r), RunStep(r) \/ ServerStep(r) \/ FaultStep(r),
           \A q \in Runs : RunOK(q)'
    PROVE  TypeOK'
<1>0. UNCHANGED config
    BY DEF RunStep, Accept, Reject, RelationAbsent, RelationExists, StartBuilding,
                   Send, Succeed, Fail, GiveUp, NotSent, StartViews, Finish, EndPass, GiveUpViews,
                   ServerStep, TakeEffect, Refuse, FaultStep, FailEarly, Break, LoseConnection,
                   Cancel, Crash
<1>1. /\ source' \in Sources /\ chosen' \in [Runs -> Selections] /\ schemaOnly' \subseteq Runs
      /\ existing' \in Existing
      /\ plan' = [q \in Runs |-> Plan(source', chosen'[q], (q \in schemaOnly'))]
      /\ \A q \in Runs : /\ RelationNames(q)' = RelationNames(q) /\ Database(q)' = Database(q)
                         /\ AllStatements(q)' = AllStatements(q) /\ Statements(q)' = Statements(q)
    BY <1>0 DEF config, TypeOK, RelationNames, Database, AllStatements, Statements
<1>2. /\ stage' \in [Runs -> {"validate", "check", "build", "views", "ended"}]
      /\ result' \in [Runs -> {"pending", "ok", "error", "crashed"}]
    BY DEF TypeOK, Ends, Failed, RunStep, Accept, Reject, RelationAbsent, RelationExists, StartBuilding,
                   Send, Succeed, Fail, GiveUp, NotSent, StartViews, Finish, EndPass, GiveUpViews,
                   ServerStep, TakeEffect, Refuse, FaultStep, FailEarly, Break, LoseConnection,
                   Cancel, Crash
<1>3. session' \in [Runs -> {"idle", "sent", "ok", "refused"}]
    BY DEF TypeOK, Abandon, RunStep, Accept, Reject, RelationAbsent, RelationExists, StartBuilding,
                   Send, Succeed, Fail, GiveUp, NotSent, StartViews, Finish, EndPass, GiveUpViews,
                   ServerStep, TakeEffect, Refuse, FaultStep, FailEarly, Break, LoseConnection,
                   Cancel, Crash
<1>4. pos' \in [Runs -> Nat \ {0}]
    BY DEF TypeOK, Failed, RunStep, Accept, Reject, RelationAbsent, RelationExists, StartBuilding,
                   Send, Succeed, Fail, GiveUp, NotSent, StartViews, Finish, EndPass, GiveUpViews,
                   ServerStep, TakeEffect, Refuse, FaultStep, FailEarly, Break, LoseConnection,
                   Cancel, Crash
<1>5. ctxDone' \subseteq Runs /\ fault' \in BOOLEAN
    BY DEF TypeOK, RunStep, Accept, Reject, RelationAbsent, RelationExists, StartBuilding,
                   Send, Succeed, Fail, GiveUp, NotSent, StartViews, Finish, EndPass, GiveUpViews,
                   ServerStep, TakeEffect, Refuse, FaultStep, FailEarly, Break, LoseConnection,
                   Cancel, Crash
<1>6. /\ unchecked' \in [Runs -> SUBSET STRING]
      /\ \A q \in Runs : unchecked'[q] \subseteq RelationNames(q)
    <2>1. RelationNames(r) \subseteq STRING
        BY PlanOfRun, RelationNamesTyped
    <2>2. /\ unchecked \in [Runs -> SUBSET STRING]
          /\ \A q \in Runs : unchecked[q] \subseteq RelationNames(q)
        BY DEF TypeOK
    <2>3. \/ unchecked' = unchecked
          \/ unchecked' = [unchecked EXCEPT ![r] = RelationNames(r)]
          \/ \E name : unchecked' = [unchecked EXCEPT ![r] = @ \ {name}]
        BY DEF RunStep, Accept, Reject, RelationAbsent, RelationExists, StartBuilding,
                   Send, Succeed, Fail, GiveUp, NotSent, StartViews, Finish, EndPass, GiveUpViews,
                   ServerStep, TakeEffect, Refuse, FaultStep, FailEarly, Break, LoseConnection,
                   Cancel, Crash
    <2> QED
        BY <2>1, <2>2, <2>3
<1>7. /\ pending' \in [Runs -> Seq(AnyView)] /\ retry' \in [Runs -> Seq(AnyView)]
      /\ \A q \in Runs : Len(retry'[q]) <= Len(pending'[q]) /\ ToSet(retry'[q]) \subseteq ToSet(pending'[q])
      /\ \A q \in Runs : ToSet(pending'[q]) \subseteq ToSet(Database(q).views)
    BY ViewsTyped
<1>8. orphans' \subseteq Runs \X AnyStatement /\ \A o \in orphans' : o[2] \in AllStatements(o[1])
    <2>1. \/ orphans' = orphans
          \/ session[r] = "sent" /\ orphans' = orphans \cup {<<r, NextStatement(r)>>}
        BY DEF Abandon, RunStep, Accept, Reject, RelationAbsent, RelationExists, StartBuilding,
                   Send, Succeed, Fail, GiveUp, NotSent, StartViews, Finish, EndPass, GiveUpViews,
                   ServerStep, TakeEffect, Refuse, FaultStep, FailEarly, Break, LoseConnection,
                   Cancel, Crash
    <2> QED
        BY <2>1, OrphansTyped
<1>9. /\ applied' \in [Runs -> SUBSET AnyStatement]
      /\ \A q \in Runs : applied'[q] \subseteq AllStatements(q)
      /\ created' \in [Runs -> SUBSET STRING] /\ loads' \in [AllTables -> Nat]
    <2>1. CASE UNCHANGED target
        BY <2>1 DEF target, TypeOK
    <2>2. CASE TakeEffect(r)
        <3>1. session[r] = "sent" /\ Apply(r, NextStatement(r))
            BY <2>2 DEF TakeEffect
        <3>2. HasNext(r)
            BY <3>1 DEF RunOK, StagesOK
        <3> QED
            BY <3>1, <3>2, NextFacts, ApplyTyped
    <2>3. UNCHANGED target \/ TakeEffect(r)
        BY DEF RunStep, Accept, Reject, RelationAbsent, RelationExists, StartBuilding,
                   Send, Succeed, Fail, GiveUp, NotSent, StartViews, Finish, EndPass, GiveUpViews,
                   ServerStep, TakeEffect, Refuse, FaultStep, FailEarly, Break, LoseConnection,
                   Cancel, Crash
    <2> QED
        BY <2>1, <2>2, <2>3
<1>10. \A o \in orphans' : o[1] \in Runs
    BY <1>8
<1>11. \A o \in orphans' : o[2] \in AllStatements(o[1])'
    BY <1>1, <1>8, <1>10
<1>12. (AllTables)' = AllTables
    BY DEF AllTables
<1>13. /\ \A q \in Runs : unchecked'[q] \subseteq RelationNames(q)'
       /\ \A q \in Runs : ToSet(pending'[q]) \subseteq ToSet(Database(q)'.views)
       /\ \A q \in Runs : applied'[q] \subseteq AllStatements(q)'
    BY <1>1, <1>6, <1>7, <1>9
<1>14. \A q \in Runs : stage'[q] = "views" => pos'[q] <= Len(pending'[q]) + 1
    BY DEF RunOK, ViewsOK
<1> QED
    BY <1>1, <1>2, <1>3, <1>4, <1>5, <1>6, <1>7, <1>8, <1>9, <1>11, <1>12, <1>13, <1>14 DEF TypeOK

\* What a step may do to the target: nothing, or carry out one statement of a run which, if
\* it is a copy, has not been carried out before.
LEMMA TargetSteps ==
    ASSUME TypeOK, \A r \in Runs : RunOK(r), [Next]_vars
    PROVE  \/ UNCHANGED target
           \/ \E r \in Runs : \E x \in AnyStatement :
                  /\ Apply(r, x)
                  /\ x \in AllStatements(r) /\ Admitted(r)
                  /\ x.op # "view" => x.needs \subseteq created[r]
                  /\ x.op = "rows" => x \notin applied[r]
<1>1. ASSUME NEW r \in Runs, TakeEffect(r)
      PROVE  \E x \in AnyStatement :
                  /\ Apply(r, x)
                  /\ x \in AllStatements(r) /\ Admitted(r)
                  /\ x.op # "view" => x.needs \subseteq created[r]
                  /\ x.op = "rows" => x \notin applied[r]
    <2>1. session[r] = "sent" /\ Apply(r, NextStatement(r)) /\ RunOK(r)
        BY <1>1 DEF TakeEffect
    <2>2. HasNext(r)
        BY <2>1 DEF RunOK, StagesOK
    <2> QED
        BY <2>1, <2>2, NextFacts, NeedsCreated, RowsNotYet
<1>2. CASE OrphanTakesEffect
    <2>1. PICK o \in orphans : Apply(o[1], o[2])
        BY <1>2 DEF OrphanTakesEffect
    <2>2. o[1] \in Runs /\ o[2] \in AnyStatement /\ o[2] \in AllStatements(o[1])
        BY DEF TypeOK
    <2>3. /\ Admitted(o[1])
          /\ o[2].op # "view" => o[2].needs \subseteq created[o[1]]
          /\ o[2].op = "rows" => o[2] \notin applied[o[1]]
        BY <2>2 DEF RunOK, StagesOK, OrphansOK
    <2> QED
        BY <2>1, <2>2, <2>3
<1>3. UNCHANGED target \/ (\E r \in Runs : TakeEffect(r)) \/ OrphanTakesEffect
    BY DEF Next, OrphanDies, vars, RunStep, Accept, Reject, RelationAbsent, RelationExists, StartBuilding,
                   Send, Succeed, Fail, GiveUp, NotSent, StartViews, Finish, EndPass, GiveUpViews,
                   ServerStep, TakeEffect, Refuse, FaultStep, FailEarly, Break, LoseConnection,
                   Cancel, Crash
<1> QED
    BY <1>1, <1>2, <1>3

\* No step breaks the types.
LEMMA TypePreserved ==
    ASSUME TypeOK, \A r \in Runs : RunOK(r), [Next]_vars, \A r \in Runs : RunOK(r)'
    PROVE  TypeOK'
<1>1. CASE \E r \in Runs : RunStep(r) \/ ServerStep(r) \/ FaultStep(r)
    BY <1>1, RunStepTyped
<1>2. CASE OrphanTakesEffect \/ OrphanDies
    <2>0. UNCHANGED <<config, stage, unchecked, pos, viewVars, session, ctxDone, result, fault>>
        BY <1>2 DEF OrphanTakesEffect, OrphanDies
    <2>1. /\ source' \in Sources /\ chosen' \in [Runs -> Selections] /\ schemaOnly' \subseteq Runs
          /\ existing' \in Existing
          /\ plan' = [q \in Runs |-> Plan(source', chosen'[q], (q \in schemaOnly'))]
          /\ \A q \in Runs : /\ RelationNames(q)' = RelationNames(q) /\ Database(q)' = Database(q)
                             /\ AllStatements(q)' = AllStatements(q)
          /\ (AllTables)' = AllTables
        BY <2>0 DEF config, TypeOK, RelationNames, Database, AllStatements, Statements, AllTables
    <2>2. /\ applied' \in [Runs -> SUBSET AnyStatement]
          /\ \A q \in Runs : applied'[q] \subseteq AllStatements(q)
          /\ created' \in [Runs -> SUBSET STRING] /\ loads' \in [AllTables -> Nat]
        <3>1. CASE UNCHANGED target
            BY <3>1 DEF target, TypeOK
        <3>2. ASSUME NEW r \in Runs, NEW x \in AnyStatement, x \in AllStatements(r), Apply(r, x)
              PROVE  /\ applied' \in [Runs -> SUBSET AnyStatement]
                     /\ \A q \in Runs : applied'[q] \subseteq AllStatements(q)
                     /\ created' \in [Runs -> SUBSET STRING] /\ loads' \in [AllTables -> Nat]
            BY <3>2, ApplyTyped
        <3> QED
            BY <3>1, <3>2, TargetSteps
    <2>3. orphans' \subseteq orphans
        BY <1>2 DEF OrphanTakesEffect, OrphanDies
    <2>4. orphans' \subseteq Runs \X AnyStatement /\ \A o \in orphans' : o[2] \in AllStatements(o[1])'
        BY <2>1, <2>3 DEF TypeOK
    <2> QED
        BY <2>0, <2>1, <2>2, <2>4 DEF TypeOK, viewVars
<1>3. CASE UNCHANGED vars
    BY <1>3 DEF vars, config, viewVars, target, TypeOK, RelationNames, Database, AllStatements, Statements,
                AllTables
<1> QED
    BY <1>1, <1>2, <1>3 DEF Next

-------------------------------------------------------------------------------
(* Several runs. *)

\* A run takes only names that nobody has taken.
LEMMA SeparatePreserved ==
    ASSUME TypeOK, \A r \in Runs : RunOK(r), Separate, [Next]_vars
    PROVE  Separate'
<1>1. CASE UNCHANGED target
    BY <1>1 DEF target, Separate
<1>2. ASSUME NEW r \in Runs, NEW x \in AnyStatement, Apply(r, x) PROVE Separate'
    <2>1. /\ \A q \in Runs \ {r} : created'[q] = created[q]
          /\ (created'[r] \ created[r]) \cap Relations = {}
        BY <1>2, ApplyFacts
    <2>2. \A q \in Runs : created[q] \subseteq Relations
        BY DEF Relations
    <2> QED
        BY <2>1, <2>2 DEF Separate
<1> QED
    BY <1>1, <1>2, TargetSteps

\* The copy of a table needs the table, and is the same for all tables of a name.
LEMMA RowsStatement ==
    ASSUME TypeOK, NEW r \in Runs, plan[r].valid, NEW x \in AllStatements(r), x.op = "rows"
    PROVE  /\ r \notin schemaOnly
           /\ x = Statement("rows", x.name, {x.name}, {}, {})
           /\ x.needs = {x.name}
           /\ \E t \in ToSet(Database(r).tables) : x = CopyTable(t) /\ x.name = t.name
<1>1. (r \in schemaOnly) \in BOOLEAN
    OBVIOUS
<1>2. x \in StatementsFor(Database(r), r \in schemaOnly)
    <2>1. \A v : CreateView(v).op = "view"
        BY DEF CreateView, Statement
    <2> QED
        BY <2>1, PlanOfRun DEF AllStatements
<1>3. r \notin schemaOnly /\ \E t \in ToSet(Database(r).tables) : x = CopyTable(t)
    BY <1>1, <1>2, StatementsOfKind
<1>4. PICK t \in ToSet(Database(r).tables) : x = CopyTable(t)
    BY <1>3
<1>5. x.name = t.name /\ x.needs = {t.name}
    BY <1>4 DEF CopyTable, Statement
<1>6. x = Statement("rows", x.name, {x.name}, {}, {})
    BY <1>4, <1>5 DEF CopyTable
<1> QED
    BY <1>3, <1>4, <1>5, <1>6

\* A table whose rows have been loaded belongs to the run that has loaded them.
LEMMA LoadedByOwner ==
    ASSUME TypeOK, \A r \in Runs : RunOK(r), Separate,
           NEW r \in Runs, NEW q \in Runs, NEW name \in created[r],
           NEW x \in applied[q], x.op = "rows", x.name = name
    PROVE  q = r /\ r \notin schemaOnly /\ x = Statement("rows", name, {name}, {}, {})
<1>1. plan[q].valid /\ x \in AllStatements(q)
    BY DEF RunOK, StagesOK, Admitted, TypeOK
<1>2. x.needs = {name} /\ q \notin schemaOnly /\ x = Statement("rows", name, {name}, {}, {})
    BY <1>1, RowsStatement
<1>3. name \in created[q]
    BY <1>2 DEF RunOK, CreatedOK
<1> QED
    BY <1>2, <1>3 DEF Separate

\* No table is loaded twice.
LEMMA LoadsPreserved ==
    ASSUME TypeOK, \A r \in Runs : RunOK(r), Separate, LoadsOK, [Next]_vars
    PROVE  LoadsOK'
<1>0. /\ loads \in [AllTables -> Nat] /\ (AllTables)' = AllTables
      /\ \A t \in AllTables : loads[t] \in Nat
    BY DEF TypeOK, AllTables
<1>1. CASE UNCHANGED target
    BY <1>0, <1>1 DEF target, LoadsOK
<1>2. ASSUME NEW r \in Runs, NEW x \in AnyStatement, Apply(r, x), x \in AllStatements(r), Admitted(r),
             x.op # "view" => x.needs \subseteq created[r], x.op = "rows" => x \notin applied[r]
      PROVE  LoadsOK'
    <2>1. /\ applied'[r] = applied[r] \cup {x}
          /\ \A q \in Runs \ {r} : applied'[q] = applied[q]
        BY <1>2, ApplyFacts
    <2>2. CASE x.op # "rows"
        <3>1. loads' = loads
            BY <1>2, <2>2 DEF Apply
        <3>2. \A t : (\E q \in Runs : \E y \in applied'[q] : y.op = "rows" /\ y.name = t)
                         <=> (\E q \in Runs : \E y \in applied[q] : y.op = "rows" /\ y.name = t)
            BY <2>1, <2>2
        <3> QED
            BY <1>0, <3>1, <3>2 DEF LoadsOK
    <2>3. CASE x.op = "rows"
        <3>1. loads' = [loads EXCEPT ![x.name] = @ + 1]
            BY <1>2, <2>3 DEF Apply
        <3>2. /\ x.needs = {x.name} /\ x.name \in created[r]
              /\ x = Statement("rows", x.name, {x.name}, {}, {})
            BY <1>2, <2>3, RowsStatement DEF Admitted
        <3>3. ~\E q \in Runs : \E y \in applied[q] : y.op = "rows" /\ y.name = x.name
            BY <1>2, <2>3, <3>2, LoadedByOwner
        <3>4. ASSUME NEW t \in AllTables, t = x.name
              PROVE  loads'[t] = 1 /\ \E q \in Runs : \E y \in applied'[q] : y.op = "rows" /\ y.name = t
            <4>1. loads[t] = 0
                BY <1>0, <3>3, <3>4 DEF LoadsOK
            <4> QED
                BY <1>0, <2>1, <2>3, <3>1, <3>4, <4>1
        <3>5. ASSUME NEW t \in AllTables, t # x.name
              PROVE  /\ loads'[t] = loads[t]
                     /\ (\E q \in Runs : \E y \in applied'[q] : y.op = "rows" /\ y.name = t)
                            <=> (\E q \in Runs : \E y \in applied[q] : y.op = "rows" /\ y.name = t)
            BY <1>0, <2>1, <3>1, <3>5
        <3> QED
            BY <1>0, <3>4, <3>5 DEF LoadsOK
    <2> QED
        BY <2>2, <2>3
<1> QED
    BY <1>1, <1>2, TargetSteps

-------------------------------------------------------------------------------
(* The invariant holds. *)

\* No run has started.
LEMMA InitIndInv ==
    ASSUME Init
    PROVE  IndInv
<1>1. TypeOK
    <2>1. 1 \in Nat \ {0} /\ 0 \in Nat /\ <<>> \in Seq(AnyView) /\ ToSet(<<>>) = {} /\ Len(<<>>) = 0
        BY DEF ToSet
    <2>2. /\ pending \in [Runs -> Seq(AnyView)] /\ retry \in [Runs -> Seq(AnyView)]
          /\ \A r \in Runs : ToSet(retry[r]) = {} /\ ToSet(pending[r]) = {} /\ Len(retry[r]) <= Len(pending[r])
        BY <2>1 DEF Init
    <2>3. /\ unchecked \in [Runs -> SUBSET STRING] /\ pos \in [Runs -> Nat \ {0}]
          /\ applied \in [Runs -> SUBSET AnyStatement] /\ created \in [Runs -> SUBSET STRING]
          /\ \A r \in Runs : unchecked[r] = {} /\ applied[r] = {}
          /\ loads \in [AllTables -> Nat]
        BY <2>1 DEF Init
    <2>4. /\ stage \in [Runs -> {"validate", "check", "build", "views", "ended"}]
          /\ \A r \in Runs : stage[r] # "views"
          /\ session \in [Runs -> {"idle", "sent", "ok", "refused"}]
          /\ result \in [Runs -> {"pending", "ok", "error", "crashed"}]
        BY DEF Init
    <2>5. /\ source \in Sources /\ chosen \in [Runs -> Selections] /\ schemaOnly \subseteq Runs
          /\ plan = [r \in Runs |-> Plan(source, chosen[r], r \in schemaOnly)]
          /\ existing \in Existing /\ ctxDone = {} /\ orphans = {} /\ fault = FALSE
        BY DEF Init
    <2> QED
        BY <2>2, <2>3, <2>4, <2>5 DEF TypeOK
<1>2. ASSUME NEW r \in Runs PROVE RunOK(r)
    <2>1. /\ stage[r] = "validate" /\ pos[r] = 1 /\ pending[r] = <<>> /\ retry[r] = <<>>
          /\ session[r] = "idle" /\ orphans = {} /\ result[r] = "pending"
          /\ applied[r] = {} /\ created[r] = {}
        BY DEF Init
    <2> QED
        BY <2>1 DEF RunOK, StagesOK, ProgressOK, CreatedOK, OrphansOK, ViewsOK
<1>3. Separate
    BY DEF Init, Separate
<1>4. LoadsOK
    BY DEF Init, LoadsOK
<1> QED
    BY <1>1, <1>2, <1>3, <1>4 DEF IndInv

\* IndInv holds in every state, however runs interleave, fail and leave statements behind.
THEOREM RunsInvariant == Spec => []IndInv
<1>1. IndInv /\ [Next]_vars => IndInv'
    BY TypePreserved, RunsPreserved, SeparatePreserved, LoadsPreserved DEF IndInv
<1> QED
    BY InitIndInv, <1>1, PTL DEF Spec

\* Every variable keeps its type; in particular what a run has applied is part of its plan.
THEOREM RunsTyped == Spec => []TypeOK
<1>1. IndInv => TypeOK
    BY DEF IndInv
<1> QED
    BY <1>1, RunsInvariant, PTL

\* A run never touches a table that was there before or that another run has created.
THEOREM TablesOwned == Spec => []OwnTablesOnly
<1>1. ASSUME IndInv PROVE OwnTablesOnly
    <2> SUFFICES ASSUME NEW r \in Runs, NEW x \in applied[r], x.op # "view", NEW name \in x.needs
                 PROVE  name \in created[r] \ Foreign(r)
        BY DEF OwnTablesOnly
    <2>1. name \in created[r] /\ created[r] \cap existing = {}
        BY <1>1 DEF IndInv, RunOK, CreatedOK
    <2>2. \A q \in Runs \ {r} : name \notin created[q]
        BY <1>1, <2>1 DEF IndInv, Separate
    <2> QED
        BY <2>1, <2>2 DEF Foreign
<1> QED
    BY <1>1, RunsInvariant, PTL

\* No table is ever filled twice, whichever runs and orphans take part.
THEOREM NeverLoadedTwice == Spec => []LoadedOnce
<1>1. IndInv => LoadedOnce
    BY DEF IndInv, LoadsOK, LoadedOnce
<1> QED
    BY <1>1, RunsInvariant, PTL

\* The statements of an admitted run: one for each object of its catalogue.
LEMMA StatementsOfRun ==
    ASSUME TypeOK, NEW r \in Runs, plan[r].valid
    PROVE  AllStatements(r) = StatementsFor(Database(r), r \in schemaOnly)
                              \cup {CreateView(v) : v \in ToSet(Database(r).views)}
    BY PlanOfRun DEF AllStatements

\* A target that holds a selected name is not changed.
THEOREM ExistingNeverTouched == Spec => []ExistingRefused
<1>1. ASSUME IndInv PROVE ExistingRefused
    <2> SUFFICES ASSUME NEW r \in Runs, applied[r] # {}, NEW name \in Declared(r), name \in existing
                 PROVE  FALSE
        BY DEF ExistingRefused
    <2>0. TypeOK /\ Admitted(r)
        BY <1>1 DEF IndInv, RunOK, StagesOK
    <2>1. PICK x \in AllStatements(r) : name \in x.creates
        BY DEF Declared
    <2>2. (r \in schemaOnly) \in BOOLEAN
        OBVIOUS
    <2>3. x \in StatementsFor(Database(r), r \in schemaOnly)
                \cup {CreateView(v) : v \in ToSet(Database(r).views)}
        BY <2>0, <2>1, StatementsOfRun DEF Admitted
    <2>4. name \in ToSet(TargetRelationNames(Database(r)))
        BY <2>1, <2>2, <2>3, CreatesAreDeclared
    <2>5. name \in RelationNames(r)
        BY <2>0, <2>4, PlanOfRun
    <2> QED
        BY <2>0, <2>5 DEF Admitted
<1> QED
    BY <1>1, RunsInvariant, PTL

\* The names of the elements of a sequence.
LEMMA NamesElements ==
    ASSUME NEW q
    PROVE  Names(q) = {x.name : x \in ToSet(q)}
    BY DEF Names, ToSet

\* By kind, the statements of a run have the names of the objects they are for.
LEMMA StatementNames ==
    ASSUME NEW c, NEW only \in BOOLEAN, NEW S,
           S = StatementsFor(c, only) \cup {CreateView(v) : v \in ToSet(c.views)}
    PROVE  /\ {x.name : x \in {t \in S : t.op = "table"}} = Names(c.tables)
           /\ {x.name : x \in {t \in S : t.op = "view"}} = Names(c.views)
           /\ {x.name : x \in {t \in S : t.op = "index"}} = Names(c.indexes)
           /\ {x.name : x \in {t \in S : t.op = "unique"}} = Names(c.uniques)
           /\ {x.name : x \in {t \in S : t.op = "check"}} = Names(c.checks)
           /\ {x.name : x \in {t \in S : t.op = "default"}} = Names(c.defaults)
           /\ {x.name : x \in {t \in S : t.op = "foreignKey"}} = Names(c.foreignKeys)
<1>1. \A y : /\ CreateTable(y).op = "table" /\ CreateTable(y).name = y.name
             /\ CreateView(y).op = "view" /\ CreateView(y).name = y.name
             /\ CreateIndex(y).op = "index" /\ CreateIndex(y).name = y.name
             /\ CreateUnique(y).op = "unique" /\ CreateUnique(y).name = y.name
             /\ CreateCheck(y).op = "check" /\ CreateCheck(y).name = y.name
             /\ CreateDefault(y).op = "default" /\ CreateDefault(y).name = y.name
             /\ CreateForeignKey(y).op = "foreignKey" /\ CreateForeignKey(y).name = y.name
    BY DEF CreateTable, CreateView, CreateIndex, CreateUnique, CreateCheck, CreateDefault,
           CreateForeignKey, Statement
<1>2. ASSUME NEW x \in S
      PROVE  /\ x.op = "table" => \E y \in ToSet(c.tables) : x = CreateTable(y)
             /\ x.op = "view" => \E y \in ToSet(c.views) : x = CreateView(y)
             /\ x.op = "index" => \E y \in ToSet(c.indexes) : x = CreateIndex(y)
             /\ x.op = "unique" => \E y \in ToSet(c.uniques) : x = CreateUnique(y)
             /\ x.op = "check" => \E y \in ToSet(c.checks) : x = CreateCheck(y)
             /\ x.op = "default" => \E y \in ToSet(c.defaults) : x = CreateDefault(y)
             /\ x.op = "foreignKey" => \E y \in ToSet(c.foreignKeys) : x = CreateForeignKey(y)
    <2>1. CASE x \in StatementsFor(c, only)
        BY <2>1, StatementsOfKind
    <2>2. CASE \E y \in ToSet(c.views) : x = CreateView(y)
        BY <1>1, <2>2
    <2> QED
        BY <2>1, <2>2
<1>3. /\ \A y \in ToSet(c.tables) : CreateTable(y) \in S
      /\ \A y \in ToSet(c.views) : CreateView(y) \in S
      /\ \A y \in ToSet(c.indexes) : CreateIndex(y) \in S
      /\ \A y \in ToSet(c.uniques) : CreateUnique(y) \in S
      /\ \A y \in ToSet(c.checks) : CreateCheck(y) \in S
      /\ \A y \in ToSet(c.defaults) : CreateDefault(y) \in S
      /\ \A y \in ToSet(c.foreignKeys) : CreateForeignKey(y) \in S
    BY DEF StatementsFor
<1>4. {x.name : x \in {t \in S : t.op = "table"}} = Names(c.tables)
    BY <1>1, <1>2, <1>3, NamesElements
<1>5. {x.name : x \in {t \in S : t.op = "view"}} = Names(c.views)
    BY <1>1, <1>2, <1>3, NamesElements
<1>6. {x.name : x \in {t \in S : t.op = "index"}} = Names(c.indexes)
    BY <1>1, <1>2, <1>3, NamesElements
<1>7. {x.name : x \in {t \in S : t.op = "unique"}} = Names(c.uniques)
    BY <1>1, <1>2, <1>3, NamesElements
<1>8. {x.name : x \in {t \in S : t.op = "check"}} = Names(c.checks)
    BY <1>1, <1>2, <1>3, NamesElements
<1>9. {x.name : x \in {t \in S : t.op = "default"}} = Names(c.defaults)
    BY <1>1, <1>2, <1>3, NamesElements
<1>10. {x.name : x \in {t \in S : t.op = "foreignKey"}} = Names(c.foreignKeys)
    BY <1>1, <1>2, <1>3, NamesElements
<1> QED
    BY <1>4, <1>5, <1>6, <1>7, <1>8, <1>9, <1>10

\* The foreign keys a selection keeps: those to selected tables.
LEMMA KeptForeignKeys ==
    ASSUME NEW s \in Catalogues, Consistent(s), NEW selection,
           NEW f \in ToSet(Introspect(s, selection).foreignKeys)
    PROVE  f.name \in Names(Selected(s, selection).foreignKeys) <=> f.referenced \in selection
<1>1. PICK c : c = Introspect(s, selection)
    OBVIOUS
<1>2. /\ c \in Catalogues
      /\ ToSet(c.tables) = {x \in ToSet(s.tables) : x.name \in selection}
      /\ ToSet(c.foreignKeys) = {x \in ToSet(s.foreignKeys) : x.table \in selection}
    BY <1>1, IntrospectElements
<1>3. PICK kept : kept = Selected(s, selection).foreignKeys
    OBVIOUS
<1>4. ToSet(kept) = {x \in ToSet(c.foreignKeys) : x.referenced \in Names(c.tables)}
    BY <1>1, <1>2, <1>3, FilterElements DEF Selected
<1>5. f \in ToSet(s.foreignKeys) /\ f \in ToSet(c.foreignKeys)
    BY <1>1, <1>2
<1>6. f.referenced \in Names(s.tables)
    BY <1>5 DEF Consistent
<1>7. f.referenced \in Names(c.tables) <=> f.referenced \in selection
    BY <1>2, <1>6, NamesElements
<1>8. f.name \in Names(kept) <=> \E g \in ToSet(kept) : g.name = f.name
    BY NamesElements
<1>9. \A g \in ToSet(kept) : g.name = f.name => g = f
    BY <1>2, <1>4, <1>5 DEF Consistent
<1> QED
    BY <1>3, <1>4, <1>5, <1>7, <1>8, <1>9

\* A run that has succeeded has carried out exactly its statements.
LEMMA SuccessApplied ==
    ASSUME IndInv, NEW r \in Runs, result[r] = "ok"
    PROVE  /\ Admitted(r) /\ applied[r] = AllStatements(r)
           /\ Declared(r) \subseteq created[r]
<1>1. TypeOK /\ Admitted(r) /\ ToSet(Statements(r)) \subseteq applied[r]
    BY DEF IndInv, RunOK, StagesOK, ProgressOK
<1>2. \A v \in ToSet(Database(r).views) : CreateView(v) \in applied[r]
    BY DEF IndInv, RunOK, ViewsOK
<1>3. AllStatements(r) \subseteq applied[r]
    BY <1>1, <1>2, PlanOfRun DEF AllStatements
<1>4. applied[r] \subseteq AllStatements(r)
    BY <1>1 DEF TypeOK
<1>5. \A x \in applied[r] : x.creates \subseteq created[r]
    BY DEF IndInv, RunOK, CreatedOK
<1> QED
    BY <1>1, <1>3, <1>4, <1>5 DEF Declared

\* The rows of a selected table were loaded once, unless the run was schema only.
LEMMA SuccessLoaded ==
    ASSUME IndInv, NEW r \in Runs, result[r] = "ok", NEW t \in ToSet(Database(r).tables),
           t.name \in AllTables
    PROVE  loads[t.name] = IF r \in schemaOnly THEN 0 ELSE 1
<1>1. /\ TypeOK /\ Admitted(r) /\ applied[r] = AllStatements(r)
      /\ AllStatements(r) = StatementsFor(Database(r), r \in schemaOnly)
                            \cup {CreateView(v) : v \in ToSet(Database(r).views)}
    BY SuccessApplied, StatementsOfRun DEF IndInv, Admitted
<1>2. loads[t.name] \in Nat
    BY <1>1 DEF TypeOK
<1>3. CASE r \notin schemaOnly
    <2>1. CopyTable(t) \in applied[r]
        BY <1>1, <1>3 DEF StatementsFor
    <2>2. CopyTable(t).op = "rows" /\ CopyTable(t).name = t.name
        BY DEF CopyTable, Statement
    <2> QED
        BY <1>2, <1>3, <2>1, <2>2 DEF IndInv, LoadsOK
<1>4. CASE r \in schemaOnly
    <2>1. t.name # NoName
        <3>1. NoName \notin Names(Database(r).tables)
            BY <1>1, PlanOfRun DEF Consistent
        <3> QED
            BY <3>1, NamesElements
    <2>2. CreateTable(t) \in applied[r]
        BY <1>1 DEF StatementsFor
    <2>3. t.name \in CreateTable(t).creates
        BY <2>1 DEF CreateTable, Statement
    <2>4. t.name \in created[r]
        BY <2>2, <2>3 DEF IndInv, RunOK, CreatedOK
    <2>5. ~\E q \in Runs : \E x \in applied[q] : x.op = "rows" /\ x.name = t.name
        BY <1>4, <2>4, LoadedByOwner DEF IndInv
    <2> QED
        BY <1>2, <1>4, <2>5 DEF IndInv, LoadsOK
<1> QED
    BY <1>3, <1>4

\* A run that reports success has done everything, and kept every foreign key it could.
THEOREM SuccessComplete == Spec => []SuccessIsComplete
<1>1. ASSUME IndInv, NEW r \in Runs, result[r] = "ok",
             NEW c, c = Introspect(source, chosen[r]),
             NEW Done, Done = [op \in Kinds |-> {s.name : s \in {t \in applied[r] : t.op = op}}]
      PROVE  /\ Declared(r) \subseteq created[r]
             /\ Names(c.tables) = Done["table"] /\ Names(c.views) = Done["view"]
             /\ Names(c.indexes) = Done["index"] /\ Names(c.uniques) = Done["unique"]
             /\ Names(c.checks) = Done["check"] /\ Names(c.defaults) = Done["default"]
             /\ \A f \in ToSet(c.foreignKeys) :
                    f.name \in Done["foreignKey"] <=> f.referenced \in chosen[r]
             /\ \A t \in ToSet(c.tables) :
                    /\ loads[t.name] = IF r \in schemaOnly THEN 0 ELSE 1
                    /\ t.sequence # NoName /\ r \notin schemaOnly => t.name \in Done["sequence"]
    <2>0. /\ TypeOK /\ Admitted(r) /\ Declared(r) \subseteq created[r]
          /\ applied[r] = StatementsFor(Database(r), r \in schemaOnly)
                          \cup {CreateView(v) : v \in ToSet(Database(r).views)}
        BY <1>1, SuccessApplied, StatementsOfRun DEF IndInv, Admitted
    <2>1. /\ source \in Sources /\ source \in Catalogues /\ Consistent(source)
          /\ Database(r) = Selected(source, chosen[r])
        BY <2>0, SourcesAssumption, PlanOfRun DEF TypeOK
    <2>2. /\ c \in Catalogues /\ ToSet(c.tables) = {x \in ToSet(source.tables) : x.name \in chosen[r]}
          /\ Database(r) = FilterForeignKeys(c)
        BY <1>1, <2>1, IntrospectElements DEF Selected
    <2>3. /\ Database(r).tables = c.tables /\ Database(r).views = c.views
          /\ Database(r).indexes = c.indexes /\ Database(r).uniques = c.uniques
          /\ Database(r).checks = c.checks /\ Database(r).defaults = c.defaults
        BY <2>2, FilterElements
    <2>4. /\ "table" \in Kinds /\ "view" \in Kinds /\ "index" \in Kinds /\ "unique" \in Kinds
          /\ "check" \in Kinds /\ "default" \in Kinds /\ "foreignKey" \in Kinds /\ "sequence" \in Kinds
        BY DEF Kinds
    <2>5. \A op \in Kinds : Done[op] = {s.name : s \in {t \in applied[r] : t.op = op}}
        BY <1>1
    <2>6. (r \in schemaOnly) \in BOOLEAN
        OBVIOUS
    <2>7. /\ Done["table"] = Names(c.tables) /\ Done["view"] = Names(c.views)
          /\ Done["index"] = Names(c.indexes) /\ Done["unique"] = Names(c.uniques)
          /\ Done["check"] = Names(c.checks) /\ Done["default"] = Names(c.defaults)
          /\ Done["foreignKey"] = Names(Database(r).foreignKeys)
        <3>1. PICK d, S : d = Database(r) /\ S = applied[r]
            OBVIOUS
        <3>2. /\ {x.name : x \in {t \in S : t.op = "table"}} = Names(d.tables)
              /\ {x.name : x \in {t \in S : t.op = "view"}} = Names(d.views)
              /\ {x.name : x \in {t \in S : t.op = "index"}} = Names(d.indexes)
              /\ {x.name : x \in {t \in S : t.op = "unique"}} = Names(d.uniques)
              /\ {x.name : x \in {t \in S : t.op = "check"}} = Names(d.checks)
              /\ {x.name : x \in {t \in S : t.op = "default"}} = Names(d.defaults)
              /\ {x.name : x \in {t \in S : t.op = "foreignKey"}} = Names(d.foreignKeys)
            <4>1. S = StatementsFor(d, r \in schemaOnly) \cup {CreateView(v) : v \in ToSet(d.views)}
                BY <2>0, <3>1
            <4> QED
                BY <2>6, <4>1, StatementNames
        <3>3. \A op \in Kinds : Done[op] = {x.name : x \in {t \in S : t.op = op}}
            BY <2>5, <3>1
        <3> QED
            BY <2>3, <2>4, <3>1, <3>2, <3>3
    <2>8. \A f \in ToSet(c.foreignKeys) :
              f.name \in Done["foreignKey"] <=> f.referenced \in chosen[r]
        BY <1>1, <2>1, <2>7, KeptForeignKeys
    <2>9. ASSUME NEW t \in ToSet(c.tables)
          PROVE  loads[t.name] = IF r \in schemaOnly THEN 0 ELSE 1
        <3>1. t.name \in AllTables
            BY <2>1, <2>2, NamesElements DEF AllTables
        <3> QED
            BY <1>1, <2>3, <3>1, SuccessLoaded
    <2>10. ASSUME NEW t \in ToSet(c.tables), t.sequence # NoName, r \notin schemaOnly
           PROVE  t.name \in Done["sequence"]
        <3>1. ResetSequence(t) \in applied[r]
            BY <2>0, <2>3, <2>10 DEF StatementsFor
        <3>2. ResetSequence(t).op = "sequence" /\ ResetSequence(t).name = t.name
            BY DEF ResetSequence, Statement
        <3> QED
            BY <2>4, <2>5, <3>1, <3>2
    <2> QED
        BY <2>0, <2>7, <2>8, <2>9, <2>10
<1>2. ASSUME IndInv PROVE SuccessIsComplete
    <2> SUFFICES ASSUME NEW r \in Runs, result[r] = "ok"
                 PROVE  LET c == Introspect(source, chosen[r])
                            Done(op) == {s.name : s \in {t \in applied[r] : t.op = op}}
                        IN /\ Declared(r) \subseteq created[r]
                           /\ Names(c.tables) = Done("table") /\ Names(c.views) = Done("view")
                           /\ Names(c.indexes) = Done("index") /\ Names(c.uniques) = Done("unique")
                           /\ Names(c.checks) = Done("check") /\ Names(c.defaults) = Done("default")
                           /\ \A f \in ToSet(c.foreignKeys) :
                                  f.name \in Done("foreignKey") <=> f.referenced \in chosen[r]
                           /\ \A t \in ToSet(c.tables) :
                                  /\ loads[t.name] = IF r \in schemaOnly THEN 0 ELSE 1
                                  /\ t.sequence # NoName /\ r \notin schemaOnly => t.name \in Done("sequence")
        BY DEF SuccessIsComplete
    <2>1. PICK c : c = Introspect(source, chosen[r])
        OBVIOUS
    <2>2. PICK Done : Done = [op \in Kinds |-> {s.name : s \in {t \in applied[r] : t.op = op}}]
        OBVIOUS
    <2>3. /\ "table" \in Kinds /\ "view" \in Kinds /\ "index" \in Kinds /\ "unique" \in Kinds
          /\ "check" \in Kinds /\ "default" \in Kinds /\ "foreignKey" \in Kinds /\ "sequence" \in Kinds
        BY DEF Kinds
    <2>4. \A op \in Kinds : Done[op] = {s.name : s \in {t \in applied[r] : t.op = op}}
        BY <2>2
    <2> QED
        BY <1>1, <1>2, <2>1, <2>2, <2>3, <2>4
<1> QED
    BY <1>2, RunsInvariant, PTL

-------------------------------------------------------------------------------
(* A run that has the target to itself.  What is known of it on top of the  *)
(* invariant above.                                                         *)

\* Nothing went wrong and no other run has changed the target.
Alone(r) == ~fault /\ \A q \in Runs \ {r} : applied[q] = {}

\* No name PostgreSQL gives a sequence is the name of another relation of the catalogue.
UsualNames ==
    \A c \in Sources : \A t \in ToSet(c.tables) :
        t.sequence # NoName => t.sequence \notin ToSet(TargetRelationNames(c))

\* Without a fault nothing is cancelled and nothing is left behind.
QuietOK == ~fault => ctxDone = {} /\ orphans = {}

\* What a run has taken, it has taken by its statements.
TakenOK(r) == created[r] \subseteq UNION {s.creates \cup s.implicit : s \in applied[r]}

\* A pass tries different views and puts aside some of those it has tried.
PassOK(r) ==
    stage[r] = "views" =>
        /\ \A i, j \in DOMAIN pending[r] : i # j => pending[r][i].name # pending[r][j].name
        /\ \A i, j \in DOMAIN retry[r] : i # j => retry[r][i].name # retry[r][j].name
        /\ \A v \in ToSet(retry[r]) : \E k \in DOMAIN pending[r] : k < pos[r] /\ pending[r][k] = v

\* A view cannot be created that selects from something that is not there.
Impossible(v) == ~(v.uses \subseteq Relations)

\* No statement has been refused.
NoneRefused(r) == stage[r] = "build" => session[r] # "refused"

\* The views yet to be tried, and those put aside, have not been created.
NotYetCreated(r) ==
    stage[r] = "views" =>
        /\ \A k \in DOMAIN pending[r] :
               k > pos[r] \/ (k = pos[r] /\ session[r] # "ok") => CreateView(pending[r][k]) \notin applied[r]
        /\ \A v \in ToSet(retry[r]) : CreateView(v) \notin applied[r]

\* A view is refused for what it selects from, and no view that failed in a pass without
\* progress has become possible since.
RefusedViews(r) ==
    stage[r] = "views" =>
        /\ session[r] = "refused" => Impossible(pending[r][pos[r]])
        /\ session[r] # "ok" /\ Len(retry[r]) + 1 = pos[r] =>
               \A k \in DOMAIN pending[r] : k < pos[r] => Impossible(pending[r][k])

\* A run that fails after it has changed the target has carried out all its statements, and
\* created every view that is possible.
FailedViews(r) ==
    result[r] = "error" /\ applied[r] # {} =>
        /\ ToSet(Statements(r)) \subseteq applied[r]
        /\ \E v \in ToSet(Database(r).views) : Impossible(v)
        /\ \A v \in ToSet(Database(r).views) : CreateView(v) \in applied[r] \/ Impossible(v)

AloneOK(r) == NoneRefused(r) /\ NotYetCreated(r) /\ RefusedViews(r) /\ FailedViews(r)

AloneInv ==
    /\ QuietOK
    /\ \A r \in Runs : TakenOK(r) /\ PassOK(r)
    /\ UsualNames => \A r \in Runs : Alone(r) => AloneOK(r)

-------------------------------------------------------------------------------
(* Statements do not take the names of one another. *)

\* What the statements of a catalogue create, by kind.
LEMMA CreatesByKind ==
    ASSUME NEW c, NEW only \in BOOLEAN, NEW x \in StatementsFor(c, only), NEW name \in x.creates
    PROVE  \/ x.op = "table" /\ \E t \in ToSet(c.tables) : name = t.name /\ name # NoName
           \/ x.op = "table" /\ \E t \in ToSet(c.tables) : name = t.primaryKey /\ name # NoName
           \/ x.op = "index" /\ \E y \in ToSet(c.indexes) : name = y.name
           \/ x.op = "unique" /\ \E y \in ToSet(c.uniques) : name = y.name
<1>1. CASE x.op = "table"
    <2>1. PICK t \in ToSet(c.tables) : x = CreateTable(t)
        BY <1>1, StatementsOfKind
    <2>2. x.creates = {t.name, t.primaryKey} \ {NoName}
        BY <2>1 DEF CreateTable, Statement
    <2> QED
        BY <1>1, <2>2
<1>2. CASE x.op = "index"
    <2>1. PICK y \in ToSet(c.indexes) : x = CreateIndex(y)
        BY <1>2, StatementsOfKind
    <2>2. x.creates \subseteq {y.name}
        BY <2>1 DEF CreateIndex, Statement
    <2> QED
        BY <1>2, <2>2
<1>3. CASE x.op = "unique"
    <2>1. PICK y \in ToSet(c.uniques) : x = CreateUnique(y)
        BY <1>3, StatementsOfKind
    <2>2. x.creates \subseteq {y.name}
        BY <2>1 DEF CreateUnique, Statement
    <2> QED
        BY <1>3, <2>2
<1>4. CASE x.op \notin {"table", "index", "unique"}
    <2>1. \/ \E y \in ToSet(c.schemas) : x = CreateSchema(y)
          \/ \E y \in ToSet(c.defaults) : x = CreateDefault(y)
          \/ \E y \in ToSet(c.tables) : x = CopyTable(y)
          \/ \E y \in ToSet(c.tables) : x = ResetSequence(y)
          \/ \E y \in ToSet(c.checks) : x = CreateCheck(y)
          \/ \E y \in ToSet(c.foreignKeys) : x = CreateForeignKey(y)
        BY <1>4, StatementsOfKind
    <2>2. x.creates = {}
        BY <2>1 DEF CreateSchema, CreateDefault, CopyTable, ResetSequence, CreateCheck, CreateForeignKey, Statement
    <2> QED
        BY <2>2
<1> QED
    BY <1>1, <1>2, <1>3, <1>4

\* Relations of different kinds have different names.
LEMMA KindsDiffer ==
    ASSUME NEW c, Sound(c)
    PROVE  /\ \A t \in ToSet(c.tables) :
                  /\ \A x \in ToSet(c.indexes) : x.name \notin {t.name, t.primaryKey}
                  /\ \A u \in ToSet(c.uniques) : u.name \notin {t.name, t.primaryKey}
                  /\ \A v \in ToSet(c.views) : v.name \notin {t.name, t.primaryKey}
           /\ \A x \in ToSet(c.indexes), u \in ToSet(c.uniques) : x.name # u.name
           /\ \A x \in ToSet(c.indexes), v \in ToSet(c.views) : x.name # v.name
           /\ \A u \in ToSet(c.uniques), v \in ToSet(c.views) : u.name # v.name
    BY ObjectNamesDiffer DEF ToSet

\* No two statements of a run create the same relation.
LEMMA CreatesDiffer ==
    ASSUME NEW c, Sound(c), NEW only \in BOOLEAN,
           NEW i \in DOMAIN Program(c, only), NEW j \in DOMAIN Program(c, only), i # j
    PROVE  Program(c, only)[i].creates \cap Program(c, only)[j].creates = {}
<1>1. PICK p : p = Program(c, only)
    OBVIOUS
<1>2. Tidy(p, 0, 8) /\ ToSet(p) = StatementsFor(c, only)
    BY <1>1, ProgramInOrder
<1>3. i \in Nat /\ j \in Nat /\ i \in DOMAIN p /\ j \in DOMAIN p
    BY <1>1, <1>2 DEF Tidy
<1>4. p[i] \in StatementsFor(c, only) /\ p[j] \in StatementsFor(c, only)
    BY <1>2, <1>3 DEF ToSet
<1>5. CASE p[i].op = p[j].op
    <2>1. Place(p[i].op) = Place(p[j].op) /\ Place(p[i].op) \in Int
        BY <1>2, <1>3, <1>5 DEF Tidy
    <2>2. i < j => Apart(p[i], p[j])
        BY <1>2, <1>3, <2>1 DEF Tidy
    <2>3. j < i => Apart(p[j], p[i])
        BY <1>2, <1>3, <2>1 DEF Tidy
    <2>4. i < j \/ j < i
        BY <1>3
    <2> QED
        BY <1>1, <2>2, <2>3, <2>4 DEF Apart
<1>6. CASE p[i].op # p[j].op
    <2>1. ASSUME NEW name, name \in p[i].creates, name \in p[j].creates PROVE FALSE
        <3>1. \/ p[i].op = "table" /\ \E t \in ToSet(c.tables) : name \in {t.name, t.primaryKey}
              \/ p[i].op = "index" /\ \E y \in ToSet(c.indexes) : name = y.name
              \/ p[i].op = "unique" /\ \E y \in ToSet(c.uniques) : name = y.name
            BY <1>4, <2>1, CreatesByKind
        <3>2. \/ p[j].op = "table" /\ \E t \in ToSet(c.tables) : name \in {t.name, t.primaryKey}
              \/ p[j].op = "index" /\ \E y \in ToSet(c.indexes) : name = y.name
              \/ p[j].op = "unique" /\ \E y \in ToSet(c.uniques) : name = y.name
            BY <1>4, <2>1, CreatesByKind
        <3> QED
            BY <1>6, <3>1, <3>2, KindsDiffer
    <2> QED
        BY <1>1, <2>1
<1> QED
    BY <1>5, <1>6

\* No statement creates a relation with the name of a view.
LEMMA ViewNamesFree ==
    ASSUME NEW c, Sound(c), NEW only \in BOOLEAN, NEW x \in StatementsFor(c, only), NEW v \in ToSet(c.views)
    PROVE  v.name \notin x.creates
    BY CreatesByKind, KindsDiffer

\* What PostgreSQL takes with the statements are names of sequences.
LEMMA ImplicitNames ==
    ASSUME NEW c, NEW only \in BOOLEAN,
           NEW x \in StatementsFor(c, only) \cup {CreateView(v) : v \in ToSet(c.views)}, NEW name \in x.implicit
    PROVE  \E t \in ToSet(c.tables) : name = t.sequence /\ t.sequence # NoName
<1>1. CASE x \in StatementsFor(c, only) /\ x.op = "table"
    <2>1. PICK t \in ToSet(c.tables) : x = CreateTable(t)
        BY <1>1, StatementsOfKind
    <2>2. x.implicit = {t.sequence} \ {NoName}
        BY <2>1 DEF CreateTable, Statement
    <2> QED
        BY <2>2
<1>2. CASE ~(x \in StatementsFor(c, only) /\ x.op = "table")
    <2>1. \/ \E y \in ToSet(c.schemas) : x = CreateSchema(y)
          \/ \E y \in ToSet(c.defaults) : x = CreateDefault(y)
          \/ \E y \in ToSet(c.tables) : x = CopyTable(y)
          \/ \E y \in ToSet(c.tables) : x = ResetSequence(y)
          \/ \E y \in ToSet(c.indexes) : x = CreateIndex(y)
          \/ \E y \in ToSet(c.uniques) : x = CreateUnique(y)
          \/ \E y \in ToSet(c.checks) : x = CreateCheck(y)
          \/ \E y \in ToSet(c.foreignKeys) : x = CreateForeignKey(y)
          \/ \E y \in ToSet(c.views) : x = CreateView(y)
        BY <1>2, StatementsOfKind
    <2>2. x.implicit = {}
        BY <2>1 DEF CreateSchema, CreateDefault, CopyTable, ResetSequence, CreateIndex, CreateUnique,
                    CreateCheck, CreateForeignKey, CreateView, Statement
    <2> QED
        BY <2>2
<1> QED
    BY <1>1, <1>2

\* Every name a catalogue declares is that of one of its objects.
LEMMA DeclaredBy ==
    ASSUME NEW c, NEW name \in ToSet(TargetRelationNames(c))
    PROVE  \/ \E t \in ToSet(c.tables) : name = t.name
           \/ \E t \in ToSet(c.tables) : name = t.primaryKey /\ t.primaryKey # NoName
           \/ \E x \in ToSet(c.indexes) : name = x.name
           \/ \E u \in ToSet(c.uniques) : name = u.name
           \/ \E v \in ToSet(c.views) : name = v.name
<1>1. PICK a \in TargetRelations(c) : name = RelationName(c, a)
    BY DEF TargetRelationNames, ToSet
<1>2. \/ a[1] = "table" /\ a[2] \in DOMAIN c.tables
      \/ a[1] = "primaryKey" /\ a[2] \in DOMAIN c.tables /\ c.tables[a[2]].primaryKey # NoName
      \/ a[1] = "unique" /\ a[2] \in DOMAIN c.uniques
      \/ a[1] = "index" /\ a[2] \in DOMAIN c.indexes
      \/ a[1] = "view" /\ a[2] \in DOMAIN c.views
    BY DEF TargetRelations
<1> QED
    BY <1>1, <1>2 DEF RelationName, ToSet

\* The catalogue of a run is a part of the source catalogue.
LEMMA PartOfSource ==
    ASSUME TypeOK, NEW r \in Runs
    PROVE  /\ source \in Sources /\ source \in Catalogues /\ Consistent(source)
           /\ Database(r).unsupported = source.unsupported
           /\ ToSet(Database(r).tables) = {t \in ToSet(source.tables) : t.name \in chosen[r]}
           /\ ToSet(Database(r).views) = {v \in ToSet(source.views) : v.name \in chosen[r]}
           /\ ToSet(Database(r).indexes) \subseteq ToSet(source.indexes)
           /\ ToSet(Database(r).uniques) \subseteq ToSet(source.uniques)
           /\ ToSet(Database(r).foreignKeys) \subseteq ToSet(source.foreignKeys)
<1>1. source \in Sources /\ source \in Catalogues /\ Consistent(source)
    BY SourcesAssumption DEF TypeOK
<1>2. PICK c : c = Introspect(source, chosen[r])
    OBVIOUS
<1>3. /\ c \in Catalogues /\ c.unsupported = source.unsupported
      /\ ToSet(c.tables) = {t \in ToSet(source.tables) : t.name \in chosen[r]}
      /\ ToSet(c.views) = {v \in ToSet(source.views) : v.name \in chosen[r]}
      /\ ToSet(c.indexes) \subseteq ToSet(source.indexes)
      /\ ToSet(c.uniques) \subseteq ToSet(source.uniques)
      /\ ToSet(c.foreignKeys) \subseteq ToSet(source.foreignKeys)
    <2>1. /\ c \in Catalogues /\ c.unsupported = source.unsupported
          /\ ToSet(c.tables) = {t \in ToSet(source.tables) : t.name \in chosen[r]}
          /\ ToSet(c.views) = {v \in ToSet(source.views) : v.name \in chosen[r]}
          /\ ToSet(c.indexes) = {x \in ToSet(source.indexes) : x.table \in chosen[r]}
          /\ ToSet(c.uniques) = {x \in ToSet(source.uniques) : x.table \in chosen[r]}
          /\ ToSet(c.foreignKeys) = {x \in ToSet(source.foreignKeys) : x.table \in chosen[r]}
        BY <1>1, <1>2, IntrospectElements
    <2> QED
        BY <2>1
<1>4. Database(r) = FilterForeignKeys(c)
    BY <1>2, PlanOfRun DEF Selected
<1>5. /\ Database(r).unsupported = c.unsupported /\ Database(r).tables = c.tables
      /\ Database(r).views = c.views /\ Database(r).indexes = c.indexes
      /\ Database(r).uniques = c.uniques
      /\ ToSet(Database(r).foreignKeys) \subseteq ToSet(c.foreignKeys)
    BY <1>3, <1>4, FilterElements
<1> QED
    BY <1>1, <1>3, <1>5

\* When sequences have usual names, no statement takes one as the name of a relation.
LEMMA SequencesApart ==
    ASSUME TypeOK, UsualNames, NEW r \in Runs, plan[r].valid,
           NEW x \in AllStatements(r), NEW y \in AllStatements(r)
    PROVE  x.creates \cap y.implicit = {}
<1> SUFFICES ASSUME NEW name \in x.creates, name \in y.implicit PROVE FALSE
    OBVIOUS
<1>0. (r \in schemaOnly) \in BOOLEAN
    OBVIOUS
<1>1. PICK d : d = Database(r)
    OBVIOUS
<1>2. /\ x \in StatementsFor(d, r \in schemaOnly) \cup {CreateView(v) : v \in ToSet(d.views)}
      /\ y \in StatementsFor(d, r \in schemaOnly) \cup {CreateView(v) : v \in ToSet(d.views)}
    BY <1>1, StatementsOfRun
<1>3. name \in ToSet(TargetRelationNames(d))
    BY <1>0, <1>2, CreatesAreDeclared
<1>4. PICK t \in ToSet(d.tables) : name = t.sequence /\ t.sequence # NoName
    <2>1. PICK only \in BOOLEAN : y \in StatementsFor(d, only) \cup {CreateView(v) : v \in ToSet(d.views)}
        BY <1>0, <1>2
    <2>2. name \in y.implicit
        OBVIOUS
    <2> QED
        BY <2>1, <2>2, ImplicitNames
<1>5. name \in ToSet(TargetRelationNames(source))
    <2>1. /\ ToSet(d.tables) \subseteq ToSet(source.tables) /\ ToSet(d.views) \subseteq ToSet(source.views)
          /\ ToSet(d.indexes) \subseteq ToSet(source.indexes)
          /\ ToSet(d.uniques) \subseteq ToSet(source.uniques)
        BY <1>1, PartOfSource
    <2>2. \/ \E u \in ToSet(d.tables) : name = u.name
          \/ \E u \in ToSet(d.tables) : name = u.primaryKey /\ u.primaryKey # NoName
          \/ \E u \in ToSet(d.indexes) : name = u.name
          \/ \E u \in ToSet(d.uniques) : name = u.name
          \/ \E u \in ToSet(d.views) : name = u.name
        BY <1>3, DeclaredBy
    <2> QED
        BY <2>1, <2>2, DeclaredNames
<1>6. t \in ToSet(source.tables) /\ source \in Sources
    BY <1>1, <1>4, PartOfSource
<1> QED
    BY <1>4, <1>5, <1>6 DEF UsualNames

\* Whatever a statement of a valid catalogue is for can be translated.
LEMMA StatementTranslated ==
    ASSUME NEW c, Sound(c), Consistent(c), NEW only \in BOOLEAN,
           NEW x \in StatementsFor(c, only) \cup {CreateView(v) : v \in ToSet(c.views)}
    PROVE  x.name \notin c.unsupported
<1>0. c.unsupported \cap Translated(c) = {} /\ c.unsupported \cap Names(c.schemas) = {}
    BY DEF Sound, Valid, Consistent
<1>1. \/ \E y \in ToSet(c.schemas) : x = CreateSchema(y)
      \/ \E y \in ToSet(c.tables) : x = CreateTable(y) \/ x = CopyTable(y) \/ x = ResetSequence(y)
      \/ \E y \in ToSet(c.defaults) : x = CreateDefault(y)
      \/ \E y \in ToSet(c.indexes) : x = CreateIndex(y)
      \/ \E y \in ToSet(c.uniques) : x = CreateUnique(y)
      \/ \E y \in ToSet(c.checks) : x = CreateCheck(y)
      \/ \E y \in ToSet(c.foreignKeys) : x = CreateForeignKey(y)
      \/ \E y \in ToSet(c.views) : x = CreateView(y)
    BY StatementsOfKind
<1>2. \/ \E y \in ToSet(c.schemas) : x.name = y.name
      \/ \E y \in ToSet(c.tables) : x.name = y.name
      \/ \E y \in ToSet(c.defaults) : x.name = y.name
      \/ \E y \in ToSet(c.indexes) : x.name = y.name
      \/ \E y \in ToSet(c.uniques) : x.name = y.name
      \/ \E y \in ToSet(c.checks) : x.name = y.name
      \/ \E y \in ToSet(c.foreignKeys) : x.name = y.name
      \/ \E y \in ToSet(c.views) : x.name = y.name
    BY <1>1 DEF CreateSchema, CreateTable, CopyTable, ResetSequence, CreateDefault, CreateIndex,
                CreateUnique, CreateCheck, CreateForeignKey, CreateView, Statement
<1>3. x.name \in Names(c.schemas) \cup Translated(c)
    BY <1>2, NamesElements DEF Translated
<1> QED
    BY <1>0, <1>3

-------------------------------------------------------------------------------
(* What a run that is left alone may be refused. *)

\* Only the relations it has created itself have come to the target.
LEMMA AloneRelations ==
    ASSUME \A q \in Runs : TakenOK(q), NEW r \in Runs, Alone(r)
    PROVE  Relations = existing \cup created[r]
<1>1. \A q \in Runs \ {r} : created[q] = {}
    BY DEF TakenOK, Alone
<1> QED
    BY <1>1 DEF Relations

\* A statement to come takes no name that the run has taken already.
LEMMA NamesFree ==
    ASSUME TypeOK, UsualNames, NEW r \in Runs, plan[r].valid, TakenOK(r), NEW x \in AllStatements(r),
           \A y \in applied[r] : x.creates \cap y.creates = {}
    PROVE  x.creates \cap created[r] = {}
<1>1. applied[r] \subseteq AllStatements(r)
    BY DEF TypeOK
<1>2. \A y \in applied[r] : x.creates \cap y.implicit = {}
    BY <1>1, SequencesApart
<1> QED
    BY <1>2 DEF TakenOK

\* A statement the target refuses, though nothing it creates has been taken: it needs what
\* is not there.
LEMMA WhyRefused ==
    ASSUME TypeOK, UsualNames, NEW r \in Runs, RunOK(r), \A q \in Runs : TakenOK(q), Alone(r),
           Admitted(r), NEW x \in AllStatements(r),
           \A y \in applied[r] : x.creates \cap y.creates = {},
           ~Dangling(x), Refused(x)
    PROVE  ~(x.needs \subseteq Relations)
<1>0. (r \in schemaOnly) \in BOOLEAN
    OBVIOUS
<1>1. PICK d : d = Database(r)
    OBVIOUS
<1>2. x \in StatementsFor(d, r \in schemaOnly) \cup {CreateView(v) : v \in ToSet(d.views)}
    BY <1>1, StatementsOfRun DEF Admitted
<1>3. Sound(d) /\ Consistent(d) /\ d.unsupported = source.unsupported
    BY <1>1, PlanOfRun, PartOfSource DEF Admitted
<1>4. x.name \notin source.unsupported
    BY <1>0, <1>2, <1>3, StatementTranslated
<1>5. x.creates \cap created[r] = {}
    BY NamesFree DEF Admitted
<1>6. x.creates \cap x.implicit = {}
    BY SequencesApart DEF Admitted
<1>7. x.creates \cap existing = {}
    <2>1. x.creates \subseteq ToSet(TargetRelationNames(d))
        BY <1>0, <1>2, CreatesAreDeclared
    <2>2. x.creates \subseteq RelationNames(r)
        BY <1>1, <2>1, PlanOfRun
    <2> QED
        BY <2>2 DEF Admitted
<1> QED
    BY <1>4, <1>5, <1>6, <1>7, AloneRelations DEF Refused, Claims

\* The statements of a run are in order, and no two of them create the same relation.
LEMMA StatementsTidy ==
    ASSUME TypeOK, NEW r \in Runs, plan[r].valid
    PROVE  /\ Tidy(Statements(r), 0, 8)
           /\ \A i, j \in DOMAIN Statements(r) :
                  i # j => Statements(r)[i].creates \cap Statements(r)[j].creates = {}
<1>1. plan[r] = Plan(source, chosen[r], r \in schemaOnly)
    BY DEF TypeOK
<1>2. (r \in schemaOnly) \in BOOLEAN
    OBVIOUS
<1>3. PICK d : d = Selected(source, chosen[r])
    OBVIOUS
<1>4. Statements(r) = Program(d, r \in schemaOnly)
    BY <1>1, <1>3, PlanFields DEF Statements
<1>5. Sound(d)
    BY <1>3, PlanOfRun
<1>6. Tidy(Program(d, r \in schemaOnly), 0, 8)
    BY <1>2, <1>5, ProgramInOrder
<1>7. \A i, j \in DOMAIN Program(d, r \in schemaOnly) : i # j =>
          Program(d, r \in schemaOnly)[i].creates \cap Program(d, r \in schemaOnly)[j].creates = {}
    BY <1>2, <1>5, CreatesDiffer
<1> QED
    BY <1>4, <1>6, <1>7

\* A run copies the rows of all tables before it creates the first foreign key, so that no
\* statement meets rows that refer to a table not loaded yet.
LEMMA NoDangling ==
    ASSUME IndInv, NEW r \in Runs, Alone(r), stage[r] = "build", session[r] = "sent"
    PROVE  ~Dangling(NextStatement(r))
<1>0. TypeOK /\ RunOK(r)
    BY DEF IndInv
<1>1. HasNext(r)
    BY <1>0 DEF RunOK, StagesOK
<1>2. PICK x : x = NextStatement(r)
    OBVIOUS
<1>3. PICK p : p = Statements(r)
    OBVIOUS
<1>4. /\ plan[r].valid /\ pos[r] \in DOMAIN p /\ x = p[pos[r]]
    BY <1>0, <1>1, <1>2, <1>3, NextFacts DEF Admitted
<1>5. Tidy(p, 0, 8) /\ pos[r] \in Nat
    BY <1>0, <1>3, <1>4, StatementsTidy DEF TypeOK
<1>6. \A j \in DOMAIN p : j < pos[r] => p[j] \in applied[r]
    BY <1>0, <1>3 DEF RunOK, ProgressOK
<1>7. \A y \in applied[r] : \E j \in DOMAIN p : p[j] = y /\ j < pos[r]
    BY <1>0, <1>3 DEF RunOK, ProgressOK
<1>8. PICK d : d = Database(r)
    OBVIOUS
<1>9. /\ ToSet(p) = StatementsFor(d, r \in schemaOnly) /\ Consistent(d)
      /\ source \in Sources /\ Consistent(source)
      /\ ToSet(d.foreignKeys) \subseteq ToSet(source.foreignKeys)
    BY <1>0, <1>3, <1>4, <1>8, PlanOfRun, PartOfSource
<1>a. (r \in schemaOnly) \in BOOLEAN
    OBVIOUS
<1> SUFFICES ASSUME NEW f \in ToSet(source.foreignKeys), ~Loaded(f.referenced),
                    \/ x.op = "foreignKey" /\ x.name = f.name /\ Loaded(f.table)
                    \/ x.op = "rows" /\ x.name = f.table /\ f.name \in ForeignKeys
             PROVE  FALSE
    BY <1>2 DEF Dangling
<1>b. \A i, j \in DOMAIN p : Place(p[j].op) < Place(p[i].op) => j < i
    BY <1>5, EarlierKindFirst
<1>c. CASE x.op = "foreignKey" /\ x.name = f.name /\ Loaded(f.table)
    <2>1. x \in StatementsFor(d, r \in schemaOnly)
        BY <1>4, <1>9 DEF ToSet
    <2>2. PICK g \in ToSet(d.foreignKeys) : x = CreateForeignKey(g)
        BY <1>a, <1>c, <2>1, StatementsOfKind
    <2>3. g.name = f.name
        BY <1>c, <2>2 DEF CreateForeignKey, Statement
    <2>4. f \in ToSet(d.foreignKeys)
        BY <1>9, <2>3 DEF Consistent
    <2>5. f.referenced \in Names(d.tables) /\ f.referenced \in AllTables
        <3>1. f.referenced \in Names(source.tables)
            BY <1>9 DEF Consistent
        <3> QED
            BY <1>9, <2>4, <3>1 DEF Consistent, AllTables
    <2>6. r \notin schemaOnly
        <3>1. \E q \in Runs : \E y \in applied[q] : y.op = "rows" /\ y.name = f.table
            BY <1>c DEF Loaded, IndInv, LoadsOK
        <3>2. PICK y \in applied[r] : y.op = "rows"
            BY <3>1 DEF Alone
        <3>3. y \in AllStatements(r)
            BY <1>0 DEF TypeOK
        <3> QED
            BY <1>0, <1>4, <3>2, <3>3, RowsStatement
    <2>7. PICK t \in ToSet(d.tables) : t.name = f.referenced
        BY <2>5, NamesElements
    <2>8. CopyTable(t) \in ToSet(p)
        BY <1>9, <2>6, <2>7 DEF StatementsFor
    <2>9. PICK j \in DOMAIN p : p[j] = CopyTable(t)
        BY <2>8 DEF ToSet
    <2>10. CopyTable(t).op = "rows" /\ CopyTable(t).name = f.referenced
        BY <2>7 DEF CopyTable, Statement
    <2>11. Place(p[j].op) < Place(p[pos[r]].op)
        <3>1. p[j].op = "rows" /\ p[pos[r]].op = "foreignKey"
            BY <1>4, <1>c, <2>9, <2>10
        <3> QED
            BY <3>1, Places
    <2>12. p[j] \in applied[r]
        BY <1>4, <1>6, <1>b, <2>11
    <2>13. loads[f.referenced] > 0
        BY <2>5, <2>9, <2>10, <2>12 DEF IndInv, LoadsOK
    <2> QED
        BY <2>5, <2>13 DEF Loaded
<1>d. CASE x.op = "rows" /\ f.name \in ForeignKeys
    <2>1. PICK y : y.op = "foreignKey" /\ \E q \in Runs : y \in applied[q]
        BY <1>d DEF ForeignKeys
    <2>2. y \in applied[r]
        BY <2>1 DEF Alone
    <2>3. PICK j \in DOMAIN p : p[j] = y /\ j < pos[r]
        BY <1>7, <2>2
    <2>4. Place(p[pos[r]].op) < Place(p[j].op)
        <3>1. p[j].op = "foreignKey" /\ p[pos[r]].op = "rows"
            BY <1>4, <1>d, <2>1, <2>3
        <3> QED
            BY <3>1, Places
    <2>5. pos[r] < j
        BY <1>4, <1>b, <2>4
    <2>6. j \in Nat
        BY <1>5 DEF Tidy
    <2> QED
        BY <1>5, <2>3, <2>5, <2>6
<1> QED
    BY <1>c, <1>d

\* While it builds, a run that is left alone is refused nothing.
LEMMA BuildAccepted ==
    ASSUME IndInv, UsualNames, \A q \in Runs : TakenOK(q),
           NEW r \in Runs, Alone(r), stage[r] = "build", session[r] = "sent"
    PROVE  ~Refused(NextStatement(r))
<1>0. TypeOK /\ RunOK(r)
    BY DEF IndInv
<1>1. HasNext(r)
    BY <1>0 DEF RunOK, StagesOK
<1>2. PICK x : x = NextStatement(r)
    OBVIOUS
<1>3. Admitted(r) /\ pos[r] \in DOMAIN Statements(r) /\ x = Statements(r)[pos[r]] /\ x \in AllStatements(r)
    BY <1>0, <1>1, <1>2, NextFacts
<1>4. ASSUME NEW y \in applied[r] PROVE x.creates \cap y.creates = {}
    <2>1. PICK j \in DOMAIN Statements(r) : Statements(r)[j] = y /\ j < pos[r]
        BY <1>0 DEF RunOK, ProgressOK
    <2>2. j # pos[r]
        BY <1>0, <2>1 DEF TypeOK
    <2> QED
        BY <1>0, <1>3, <2>1, <2>2, StatementsTidy DEF Admitted
<1>5. ~Dangling(x)
    BY <1>2, NoDangling
<1>6. x.needs \subseteq Relations
    <2>1. x.needs \subseteq created[r]
        BY <1>0, <1>1, <1>2, NeedsCreated
    <2> QED
        BY <2>1 DEF Relations
<1> QED
    BY <1>0, <1>2, <1>3, <1>4, <1>5, <1>6, WhyRefused

\* A view of a catalogue is known by its name.
LEMMA ViewsByName ==
    ASSUME NEW c, Sound(c), NEW v \in ToSet(c.views), NEW w \in ToSet(c.views), v.name = w.name
    PROVE  v = w
    BY ObjectNamesDiffer DEF ToSet

\* A run that is left alone is refused a view only for what it selects from.
LEMMA ViewRefused ==
    ASSUME IndInv, UsualNames, \A q \in Runs : TakenOK(q),
           NEW r \in Runs, Alone(r), NotYetCreated(r), stage[r] = "views", session[r] = "sent",
           Refused(NextStatement(r))
    PROVE  Impossible(pending[r][pos[r]])
<1>0. TypeOK /\ RunOK(r)
    BY DEF IndInv
<1>1. HasNext(r)
    BY <1>0 DEF RunOK, StagesOK
<1>2. PICK v : v = pending[r][pos[r]]
    OBVIOUS
<1>3. /\ Admitted(r) /\ pos[r] \in DOMAIN pending[r] /\ v \in ToSet(Database(r).views)
      /\ NextStatement(r) = CreateView(v) /\ CreateView(v) \in AllStatements(r)
    BY <1>0, <1>1, <1>2, NextFacts
<1>4. /\ CreateView(v).op = "view" /\ CreateView(v).needs = v.uses
      /\ CreateView(v).creates \subseteq {v.name}
    BY DEF CreateView, Statement
<1>5. ~Dangling(CreateView(v))
    BY <1>4 DEF Dangling
<1>6. CreateView(v) \notin applied[r]
    BY <1>2, <1>3 DEF NotYetCreated
<1>7. ASSUME NEW y \in applied[r] PROVE CreateView(v).creates \cap y.creates = {}
    <2>0. Sound(Database(r))
        BY <1>0, <1>3, PlanOfRun DEF Admitted
    <2>1. y \in StatementsFor(Database(r), r \in schemaOnly)
                \cup {CreateView(w) : w \in ToSet(Database(r).views)}
        BY <1>0, <1>3, StatementsOfRun DEF Admitted, TypeOK
    <2>2. CASE y \in StatementsFor(Database(r), r \in schemaOnly)
        <3>1. (r \in schemaOnly) \in BOOLEAN
            OBVIOUS
        <3>2. v.name \notin y.creates
            BY <1>3, <2>0, <2>2, <3>1, ViewNamesFree
        <3> QED
            BY <1>4, <3>2
    <2>3. CASE \E w \in ToSet(Database(r).views) : y = CreateView(w)
        <3>1. PICK w \in ToSet(Database(r).views) : y = CreateView(w)
            BY <2>3
        <3>2. w.name # v.name
            BY <1>3, <1>6, <1>7, <2>0, <3>1, ViewsByName
        <3>3. y.creates \subseteq {w.name}
            BY <3>1 DEF CreateView, Statement
        <3> QED
            BY <1>4, <3>2, <3>3
    <2> QED
        BY <2>1, <2>2, <2>3
<1>8. ~(CreateView(v).needs \subseteq Relations)
    BY <1>0, <1>3, <1>5, <1>7, WhyRefused
<1> QED
    BY <1>2, <1>4, <1>8 DEF Impossible

-------------------------------------------------------------------------------
(* Steps without a fault. *)

\* The steps that need neither a fault nor what a fault leaves behind.
QuietStep(q) ==
    \/ Accept(q) \/ Reject(q) \/ RelationAbsent(q) \/ RelationExists(q) \/ StartBuilding(q)
    \/ Send(q) \/ TakeEffect(q) \/ Refuse(q) \/ Succeed(q) \/ Fail(q)
    \/ StartViews(q) \/ Finish(q) \/ EndPass(q) \/ GiveUpViews(q)

\* Before the first fault there are no other steps.
LEMMA QuietSteps ==
    ASSUME QuietOK, [Next]_vars, ~fault'
    PROVE  ~fault /\ ((\E q \in Runs : QuietStep(q)) \/ UNCHANGED vars)
<1>1. CASE UNCHANGED vars
    BY <1>1 DEF vars
<1>2. CASE Next
    <2>1. ~fault
        BY <1>2 DEF Next, OrphanTakesEffect, OrphanDies, RunStep, Accept, Reject, RelationAbsent, RelationExists, StartBuilding,
           Send, Succeed, Fail, GiveUp, NotSent, StartViews, Finish, EndPass, GiveUpViews,
           ServerStep, TakeEffect, Refuse, FaultStep, FailEarly, Break, LoseConnection,
           Cancel, Crash
    <2>2. ctxDone = {} /\ orphans = {}
        BY <2>1 DEF QuietOK
    <2>3. PICK q \in Runs : RunStep(q) \/ ServerStep(q) \/ FaultStep(q)
        BY <1>2, <2>2 DEF Next, OrphanTakesEffect, OrphanDies
    <2>4. ~FaultStep(q)
        BY DEF FaultStep, FailEarly, Break, LoseConnection, Cancel, Crash
    <2>5. ~GiveUp(q) /\ ~NotSent(q)
        BY <2>2 DEF GiveUp, NotSent
    <2> QED
        BY <2>1, <2>3, <2>4, <2>5 DEF RunStep, ServerStep, QuietStep
<1> QED
    BY <1>1, <1>2

\* Only a fault cancels a run or leaves a statement behind.
LEMMA QuietPreserved ==
    ASSUME QuietOK, [Next]_vars
    PROVE  QuietOK'
<1> SUFFICES ASSUME ~fault' PROVE ctxDone' = {} /\ orphans' = {}
    BY DEF QuietOK
<1>1. ctxDone = {} /\ orphans = {}
    BY QuietSteps DEF QuietOK
<1>2. ctxDone' = ctxDone /\ orphans' = orphans
    <2>1. CASE UNCHANGED vars
        BY <2>1 DEF vars
    <2>2. ASSUME NEW q \in Runs, QuietStep(q) PROVE ctxDone' = ctxDone /\ orphans' = orphans
        BY <2>2 DEF QuietStep, Accept, Reject, RelationAbsent, RelationExists, StartBuilding, Send,
                    TakeEffect, Refuse, Succeed, Fail, StartViews, Finish, EndPass, GiveUpViews
    <2> QED
        BY <2>1, <2>2, QuietSteps
<1> QED
    BY <1>1, <1>2

\* What a statement takes is accounted for when it takes effect.
LEMMA TakenPreserved ==
    ASSUME IndInv, \A q \in Runs : TakenOK(q), [Next]_vars, NEW r \in Runs
    PROVE  TakenOK(r)'
<1>1. CASE UNCHANGED target
    BY <1>1 DEF target, TakenOK
<1>2. ASSUME NEW q \in Runs, NEW x \in AnyStatement, Apply(q, x) PROVE TakenOK(r)'
    <2>1. /\ applied'[q] = applied[q] \cup {x}
          /\ created'[q] = created[q] \cup x.creates \cup (x.implicit \ Relations)
          /\ \A p \in Runs \ {q} : applied'[p] = applied[p] /\ created'[p] = created[p]
        BY <1>2, ApplyFacts DEF IndInv
    <2> QED
        BY <2>1 DEF TakenOK
<1> QED
    BY <1>1, <1>2, TargetSteps DEF IndInv

\* Who is left alone has been left alone before.
LEMMA StillAlone ==
    ASSUME IndInv, QuietOK, [Next]_vars, NEW r \in Runs, Alone(r)'
    PROVE  Alone(r)
<1>1. ~fault
    BY QuietSteps DEF Alone
<1>2. ASSUME NEW q \in Runs PROVE applied[q] \subseteq applied'[q]
    <2>1. CASE UNCHANGED target
        BY <2>1 DEF target
    <2>2. ASSUME NEW p \in Runs, NEW x \in AnyStatement, Apply(p, x) PROVE applied[q] \subseteq applied'[q]
        BY <2>2, ApplyFacts DEF IndInv
    <2> QED
        BY <2>1, <2>2, TargetSteps DEF IndInv
<1> QED
    BY <1>1, <1>2 DEF Alone

\* Only a statement that takes effect changes what is in the target.
LEMMA SameRelations ==
    ASSUME UNCHANGED <<existing, created>>
    PROVE  Relations' = Relations /\ \A v : Impossible(v)' <=> Impossible(v)
    BY DEF Relations, Impossible

\* How a step changes the pass a run is in.
LEMMA PassMoves ==
    ASSUME TypeOK, \A q \in Runs : RunOK(q), [Next]_vars, NEW r \in Runs, stage'[r] = "views"
    PROVE  \/ /\ stage[r] = "views" /\ pending'[r] = pending[r] /\ retry'[r] = retry[r]
              /\ pos'[r] \in {pos[r], pos[r] + 1}
           \/ /\ stage[r] = "views" /\ HasNext(r) /\ pending'[r] = pending[r]
              /\ retry'[r] = Append(retry[r], pending[r][pos[r]]) /\ pos'[r] = pos[r] + 1
           \/ StartViews(r) \/ EndPass(r)
<1>1. CASE UNCHANGED vars \/ OrphanTakesEffect \/ OrphanDies
    BY <1>1 DEF vars, viewVars, OrphanTakesEffect, OrphanDies
<1>2. ASSUME NEW q \in Runs, RunStep(q) \/ ServerStep(q) \/ FaultStep(q), q # r
      PROVE  /\ stage[r] = "views" /\ pending'[r] = pending[r] /\ retry'[r] = retry[r]
             /\ pos'[r] = pos[r]
    <2>1. Untouched(r)
        BY <1>2, RunStepOK
    <2> QED
        BY <2>1 DEF Untouched
<1>3. CASE \/ Accept(r) \/ Reject(r) \/ RelationAbsent(r) \/ RelationExists(r) \/ StartBuilding(r)
           \/ FailEarly(r) \/ Finish(r) \/ GiveUpViews(r) \/ Crash(r)
    BY <1>3, Domains DEF Accept, Reject, RelationAbsent, RelationExists, StartBuilding, FailEarly,
                         Finish, GiveUpViews, Crash, Ends
<1>4. CASE Send(r) \/ TakeEffect(r) \/ Refuse(r) \/ Break(r) \/ Cancel(r) \/ Succeed(r)
    BY <1>4, Domains DEF Send, TakeEffect, Refuse, Break, Cancel, Succeed, viewVars
<1>5. CASE Fail(r) \/ GiveUp(r) \/ LoseConnection(r) \/ NotSent(r)
    <2>1. HasNext(r)
        BY <1>5 DEF Fail, GiveUp, LoseConnection, NotSent, Waiting, RunOK, StagesOK
    <2>2. Failed(r) /\ pending' = pending
        BY <1>5 DEF Fail, GiveUp, LoseConnection, NotSent
    <2>3. stage[r] # "build"
        BY <2>2, Domains DEF Failed, Ends
    <2> QED
        BY <2>1, <2>2, <2>3, Domains DEF HasNext, Failed
<1>6. UNCHANGED vars \/ OrphanTakesEffect \/ OrphanDies
      \/ \E q \in Runs : RunStep(q) \/ ServerStep(q) \/ FaultStep(q)
    BY DEF Next
<1> QED
    BY <1>1, <1>2, <1>3, <1>4, <1>5, <1>6 DEF RunStep, ServerStep, FaultStep

\* Whatever happens, a pass tries different views, and puts aside views it has tried.
LEMMA PassPreserved ==
    ASSUME TypeOK, \A q \in Runs : RunOK(q), [Next]_vars, NEW r \in Runs, PassOK(r)
    PROVE  PassOK(r)'
<1> SUFFICES ASSUME stage'[r] = "views"
             PROVE  /\ \A i, j \in DOMAIN pending'[r] : i # j => pending'[r][i].name # pending'[r][j].name
                    /\ \A i, j \in DOMAIN retry'[r] : i # j => retry'[r][i].name # retry'[r][j].name
                    /\ \A v \in ToSet(retry'[r]) :
                           \E k \in DOMAIN pending'[r] : k < pos'[r] /\ pending'[r][k] = v
    BY DEF PassOK
<1>0. /\ pending[r] \in Seq(AnyView) /\ retry[r] \in Seq(AnyView) /\ pos[r] \in Nat \ {0}
      /\ RunOK(r)
    BY DEF TypeOK
<1>1. CASE /\ stage[r] = "views" /\ pending'[r] = pending[r] /\ retry'[r] = retry[r]
           /\ pos'[r] \in {pos[r], pos[r] + 1}
    <2>1. \A k \in DOMAIN pending[r] : k \in Nat
        BY <1>0
    <2>2. \A k \in Nat : k < pos[r] => k < pos'[r]
        BY <1>0, <1>1
    <2> QED
        BY <1>1, <2>1, <2>2 DEF PassOK
<1>2. CASE /\ stage[r] = "views" /\ HasNext(r) /\ pending'[r] = pending[r]
           /\ retry'[r] = Append(retry[r], pending[r][pos[r]]) /\ pos'[r] = pos[r] + 1
    <2>1. pos[r] \in DOMAIN pending[r] /\ pending[r][pos[r]] \in AnyView
        BY <1>0, <1>2 DEF HasNext
    <2>2. \A v \in ToSet(retry[r]) : \E k \in DOMAIN pending[r] : k < pos[r] /\ pending[r][k] = v
        BY <1>2 DEF PassOK
    <2>3. PICK n \in Nat : n = Len(retry[r])
        BY <1>0
    <2>4. /\ DOMAIN retry'[r] = 1..(n + 1) /\ DOMAIN retry[r] = 1..n
          /\ \A i \in 1..n : retry'[r][i] = retry[r][i]
          /\ retry'[r][n + 1] = pending[r][pos[r]]
        BY <1>0, <1>2, <2>1, <2>3
    <2>5. \A k \in DOMAIN pending[r] : k \in Nat
        BY <1>0
    <2>6. ASSUME NEW v \in ToSet(retry'[r])
          PROVE  \E k \in DOMAIN pending[r] : k < pos[r] + 1 /\ pending[r][k] = v
        <3>1. PICK i \in 1..(n + 1) : v = retry'[r][i]
            BY <2>4 DEF ToSet
        <3>2. CASE i \in 1..n
            <4>1. v \in ToSet(retry[r])
                BY <2>4, <3>1, <3>2 DEF ToSet
            <4> QED
                BY <1>0, <2>2, <2>5, <4>1
        <3>3. CASE i = n + 1
            BY <1>0, <2>1, <2>4, <3>1, <3>3
        <3> QED
            BY <2>3, <3>2, <3>3
    <2>7. ASSUME NEW i \in 1..n PROVE retry'[r][i].name # retry'[r][n + 1].name
        <3>1. retry[r][i] \in ToSet(retry[r])
            BY <2>4 DEF ToSet
        <3>2. PICK k \in DOMAIN pending[r] : k < pos[r] /\ pending[r][k] = retry[r][i]
            BY <2>2, <3>1
        <3>3. k # pos[r]
            BY <1>0, <2>5, <3>2
        <3>4. pending[r][k].name # pending[r][pos[r]].name
            BY <1>2, <2>1, <3>2, <3>3 DEF PassOK
        <3> QED
            BY <2>4, <3>2, <3>4
    <2>8. \A i, j \in 1..n : i # j => retry'[r][i].name # retry'[r][j].name
        BY <1>2, <2>4 DEF PassOK
    <2>9. \A i \in 1..(n + 1) : i \in 1..n \/ i = n + 1
        BY <2>3
    <2>10. \A i, j \in DOMAIN retry'[r] : i # j => retry'[r][i].name # retry'[r][j].name
        BY <2>4, <2>7, <2>8, <2>9
    <2> QED
        BY <1>2, <2>6, <2>10 DEF PassOK
<1>3. CASE StartViews(r)
    <2>1. stage[r] = "build" /\ pending'[r] = Database(r).views /\ retry' = retry
        BY <1>3, Domains DEF StartViews
    <2>2. retry[r] = <<>> /\ Admitted(r)
        BY <1>0, <2>1 DEF RunOK, ViewsOK, StagesOK
    <2>3. Sound(Database(r))
        BY <2>2, PlanOfRun DEF Admitted
    <2>4. \A i, j \in DOMAIN Database(r).views : i # j => Database(r).views[i].name # Database(r).views[j].name
        BY <2>3, ObjectNamesDiffer
    <2>5. DOMAIN retry'[r] = {} /\ ToSet(retry'[r]) = {}
        BY <2>1, <2>2 DEF ToSet
    <2> QED
        BY <2>1, <2>4, <2>5
<1>4. CASE EndPass(r)
    <2>1. stage[r] = "views" /\ pending'[r] = retry[r] /\ retry'[r] = <<>>
        BY <1>4, Domains DEF EndPass, PassOver
    <2>2. DOMAIN retry'[r] = {} /\ ToSet(retry'[r]) = {}
        BY <2>1 DEF ToSet
    <2> QED
        BY <2>1, <2>2 DEF PassOK
<1> QED
    BY <1>1, <1>2, <1>3, <1>4, PassMoves

-------------------------------------------------------------------------------
(* The steps of a run that is left alone, and of the others meanwhile. *)

\* What does not concern the run leaves it as it was.
LEMMA AloneFrame ==
    ASSUME NEW r \in Runs, AloneOK(r), Untouched(r), UNCHANGED created
    PROVE  AloneOK(r)'
<1>1. \A v : Impossible(v)' <=> Impossible(v)
    BY SameRelations DEF Untouched, config
<1>2. NoneRefused(r)' /\ NotYetCreated(r)'
    BY DEF AloneOK, NoneRefused, NotYetCreated, Untouched
<1>3. RefusedViews(r)'
    BY <1>1 DEF AloneOK, RefusedViews, Untouched
<1>4. FailedViews(r)'
    BY <1>1 DEF AloneOK, FailedViews, Untouched, Statements, Database, config
<1> QED
    BY <1>2, <1>3, <1>4 DEF AloneOK

\* The other runs change nothing as long as the run is alone.
LEMMA OthersQuiet ==
    ASSUME IndInv, NEW r \in Runs, Alone(r)', NEW q \in Runs \ {r}, QuietStep(q)
    PROVE  Untouched(r) /\ UNCHANGED created
<1>1. Untouched(r)
    BY RunStepOK DEF IndInv, QuietStep, RunStep, ServerStep
<1>2. ~TakeEffect(q)
    <2> SUFFICES ASSUME TakeEffect(q) PROVE FALSE
        OBVIOUS
    <2>1. HasNext(q) /\ TypeOK /\ RunOK(q)
        BY DEF TakeEffect, IndInv, RunOK, StagesOK
    <2>2. applied'[q] = applied[q] \cup {NextStatement(q)}
        BY <2>1, NextFacts, ApplyFacts DEF TakeEffect
    <2> QED
        BY <2>2 DEF Alone
<1> QED
    BY <1>1, <1>2 DEF QuietStep, Accept, Reject, RelationAbsent, RelationExists, StartBuilding, Send,
                      Refuse, Succeed, Fail, StartViews, Finish, EndPass, GiveUpViews, target

\* Before its first statement a run has nothing to answer for.
LEMMA AloneEarly ==
    ASSUME IndInv, NEW r \in Runs,
           Accept(r) \/ Reject(r) \/ RelationAbsent(r) \/ RelationExists(r) \/ StartBuilding(r)
    PROVE  AloneOK(r)'
<1>1. /\ stage[r] \in {"validate", "check"} /\ applied'[r] = applied[r] /\ session'[r] = session[r]
      /\ stage'[r] # "views"
    BY Domains DEF IndInv, Accept, Reject, RelationAbsent, RelationExists, StartBuilding, Ends, target
<1>2. applied[r] = {} /\ session[r] = "idle"
    BY <1>1 DEF IndInv, RunOK, StagesOK, HasNext
<1> QED
    BY <1>1, <1>2 DEF AloneOK, NoneRefused, NotYetCreated, RefusedViews, FailedViews

\* Who has a statement to send has not returned anything yet.
LEMMA StillRunning ==
    ASSUME NEW r \in Runs, RunOK(r), HasNext(r), result' = result
    PROVE  FailedViews(r)'
    BY DEF RunOK, StagesOK, HasNext, FailedViews

\* A statement is sent, refused, or answered.
LEMMA AloneSession ==
    ASSUME IndInv, AloneInv, UsualNames, NEW r \in Runs, Alone(r), Send(r) \/ Refuse(r) \/ Succeed(r)
    PROVE  AloneOK(r)'
<1>0. /\ TypeOK /\ RunOK(r) /\ AloneOK(r) /\ HasNext(r)
      /\ pos[r] \in Nat \ {0} /\ pending[r] \in Seq(AnyView) /\ retry[r] \in Seq(AnyView)
    BY DEF IndInv, AloneInv, Send, Refuse, Succeed, RunOK, StagesOK, TypeOK
<1>1. /\ stage' = stage /\ pending' = pending /\ retry' = retry /\ result' = result
      /\ applied' = applied /\ \A v : Impossible(v)' <=> Impossible(v)
    <2>1. UNCHANGED <<stage, viewVars, result, target, config>>
        BY DEF Send, Refuse, Succeed
    <2> QED
        BY <2>1, SameRelations DEF viewVars, target, config
<1>2. FailedViews(r)'
    BY <1>0, <1>1, StillRunning
<1>3. CASE Send(r)
    <2>1. session[r] = "idle" /\ session'[r] = "sent" /\ pos' = pos
        BY <1>0, <1>3, Domains DEF Send
    <2>2. NoneRefused(r)' /\ NotYetCreated(r)'
        BY <1>0, <1>1, <2>1 DEF AloneOK, NoneRefused, NotYetCreated
    <2>3. RefusedViews(r)'
        BY <1>0, <1>1, <2>1 DEF AloneOK, RefusedViews
    <2> QED
        BY <1>2, <2>2, <2>3 DEF AloneOK
<1>4. CASE Refuse(r)
    <2>1. session[r] = "sent" /\ session'[r] = "refused" /\ pos' = pos /\ Refused(NextStatement(r))
        BY <1>0, <1>4, Domains DEF Refuse
    <2>2. stage[r] # "build"
        BY <2>1, BuildAccepted DEF AloneInv
    <2>3. stage[r] = "views" => Impossible(pending[r][pos[r]])
        BY <1>0, <2>1, ViewRefused DEF AloneInv, AloneOK
    <2>4. NoneRefused(r)' /\ NotYetCreated(r)'
        BY <1>0, <1>1, <2>1, <2>2 DEF AloneOK, NoneRefused, NotYetCreated
    <2>5. RefusedViews(r)'
        BY <1>0, <1>1, <2>1, <2>3 DEF AloneOK, RefusedViews
    <2> QED
        BY <1>2, <2>4, <2>5 DEF AloneOK
<1>5. CASE Succeed(r)
    <2>1. session[r] = "ok" /\ session'[r] = "idle" /\ pos'[r] = pos[r] + 1
        BY <1>0, <1>5, Domains DEF Succeed
    <2>2. \A k \in DOMAIN pending[r] : k > pos[r] + 1 \/ k = pos[r] + 1 => k > pos[r]
        BY <1>0
    <2>3. NoneRefused(r)' /\ NotYetCreated(r)'
        BY <1>0, <1>1, <2>1, <2>2 DEF AloneOK, NoneRefused, NotYetCreated
    <2>4. stage[r] = "views" => Len(retry[r]) + 1 # pos[r] + 1
        BY <1>0 DEF RunOK, ViewsOK
    <2>5. RefusedViews(r)'
        BY <1>1, <2>1, <2>4 DEF RefusedViews
    <2> QED
        BY <1>2, <2>3, <2>5 DEF AloneOK
<1> QED
    BY <1>3, <1>4, <1>5

\* A view that is created is none of those yet to be tried or put aside.
LEMMA AloneTakeEffect ==
    ASSUME IndInv, AloneInv, UsualNames, NEW r \in Runs, Alone(r), TakeEffect(r)
    PROVE  AloneOK(r)'
<1>0. /\ TypeOK /\ RunOK(r) /\ AloneOK(r) /\ PassOK(r) /\ HasNext(r)
      /\ pos[r] \in Nat \ {0} /\ pending[r] \in Seq(AnyView)
    BY DEF IndInv, AloneInv, TakeEffect, RunOK, StagesOK, TypeOK
<1>1. /\ stage' = stage /\ pending' = pending /\ retry' = retry /\ pos' = pos /\ result' = result
      /\ session'[r] = "ok" /\ session[r] = "sent"
    BY <1>0, Domains DEF TakeEffect, viewVars
<1>2. applied'[r] = applied[r] \cup {NextStatement(r)}
    BY <1>0, NextFacts, ApplyFacts DEF TakeEffect
<1>3. FailedViews(r)'
    BY <1>0, <1>1, StillRunning
<1>4. NoneRefused(r)' /\ RefusedViews(r)'
    BY <1>1 DEF NoneRefused, RefusedViews
<1>5. NotYetCreated(r)'
    <2> SUFFICES ASSUME stage[r] = "views" PROVE NotYetCreated(r)'
        BY <1>1 DEF NotYetCreated
    <2>1. pos[r] \in DOMAIN pending[r] /\ NextStatement(r) = CreateView(pending[r][pos[r]])
        BY <1>0, NextFacts
    <2>2. \A k \in DOMAIN pending[r] : k \in Nat
        BY <1>0
    <2>3. ASSUME NEW k \in DOMAIN pending[r], k # pos[r]
          PROVE  CreateView(pending[r][k]) # NextStatement(r)
        BY <1>0, <2>1, <2>3 DEF PassOK, CreateView, Statement
    <2>4. ASSUME NEW k \in DOMAIN pending[r], k > pos[r]
          PROVE  CreateView(pending[r][k]) \notin applied'[r]
        <3>1. k # pos[r]
            BY <1>0, <2>2, <2>4
        <3> QED
            BY <1>0, <1>2, <2>3, <2>4, <3>1 DEF AloneOK, NotYetCreated
    <2>5. ASSUME NEW v \in ToSet(retry[r]) PROVE CreateView(v) \notin applied'[r]
        <3>1. PICK k \in DOMAIN pending[r] : k < pos[r] /\ pending[r][k] = v
            BY <1>0 DEF PassOK
        <3>2. k # pos[r]
            BY <1>0, <2>2, <3>1
        <3> QED
            BY <1>0, <1>2, <2>3, <3>1, <3>2 DEF AloneOK, NotYetCreated
    <2> QED
        BY <1>1, <2>4, <2>5 DEF NotYetCreated
<1> QED
    BY <1>3, <1>4, <1>5 DEF AloneOK

\* What Append adds.
LEMMA AppendElements ==
    ASSUME NEW T, NEW s \in Seq(T), NEW x \in T
    PROVE  /\ Len(Append(s, x)) = Len(s) + 1 /\ Len(s) \in Nat
           /\ ToSet(Append(s, x)) = ToSet(s) \cup {x}
<1>1. PICK n \in Nat : n = Len(s)
    OBVIOUS
<1>2. PICK a : a = Append(s, x)
    OBVIOUS
<1>3. /\ DOMAIN a = 1..(n + 1) /\ DOMAIN s = 1..n /\ Len(a) = n + 1
      /\ \A i \in 1..n : a[i] = s[i]
      /\ a[n + 1] = x
    BY <1>1, <1>2
<1>4. \A i \in 1..(n + 1) : i \in 1..n \/ i = n + 1
    BY <1>1
<1>5. 1..n \subseteq 1..(n + 1) /\ n + 1 \in 1..(n + 1)
    BY <1>1
<1>6. {a[i] : i \in 1..(n + 1)} = {s[i] : i \in 1..n} \cup {x}
    BY <1>3, <1>4, <1>5
<1> QED
    BY <1>1, <1>2, <1>3, <1>6 DEF ToSet

\* A view that failed is put aside; as long as all views of the pass have failed, none of
\* them is possible.
LEMMA AloneFail ==
    ASSUME IndInv, AloneInv, UsualNames, NEW r \in Runs, Alone(r), Fail(r)
    PROVE  AloneOK(r)'
<1>0. /\ TypeOK /\ RunOK(r) /\ AloneOK(r) /\ HasNext(r) /\ session[r] = "refused"
      /\ pos[r] \in Nat \ {0} /\ pending[r] \in Seq(AnyView) /\ retry[r] \in Seq(AnyView)
    BY DEF IndInv, AloneInv, Fail, RunOK, StagesOK, TypeOK
<1>1. stage[r] = "views" /\ pos[r] \in DOMAIN pending[r]
    BY <1>0, NextFacts DEF AloneOK, NoneRefused
<1>2. /\ stage' = stage /\ pending' = pending /\ result' = result /\ applied' = applied
      /\ retry'[r] = Append(retry[r], pending[r][pos[r]]) /\ pos'[r] = pos[r] + 1
      /\ session'[r] = "idle"
    BY <1>0, <1>1, Domains DEF Fail, Failed, target
<1>3. \A v : Impossible(v)' <=> Impossible(v)
    BY SameRelations DEF Fail, target, config
<1>4. FailedViews(r)'
    BY <1>0, <1>2, StillRunning
<1>5. NoneRefused(r)'
    BY <1>2 DEF NoneRefused
<1>6. \A k \in DOMAIN pending[r] : k \in Nat
    BY <1>0
<1>7. pending[r][pos[r]] \in AnyView
    BY <1>0, <1>1
<1>8. /\ Len(retry'[r]) = Len(retry[r]) + 1 /\ Len(retry[r]) \in Nat
      /\ ToSet(retry'[r]) = ToSet(retry[r]) \cup {pending[r][pos[r]]}
    BY <1>0, <1>2, <1>7, AppendElements
<1>9. NotYetCreated(r)'
    <2>1. \A k \in DOMAIN pending[r] : k > pos[r] + 1 \/ k = pos[r] + 1 => k > pos[r]
        BY <1>0, <1>6
    <2>2. CreateView(pending[r][pos[r]]) \notin applied[r]
        BY <1>0, <1>1 DEF AloneOK, NotYetCreated
    <2> QED
        BY <1>0, <1>1, <1>2, <1>8, <2>1, <2>2 DEF AloneOK, NotYetCreated
<1>10. RefusedViews(r)'
    <2>1. ASSUME Len(retry[r]) + 1 = pos[r], NEW k \in DOMAIN pending[r], k < pos[r] + 1
          PROVE  Impossible(pending[r][k])
        <3>1. k < pos[r] \/ k = pos[r]
            BY <1>0, <1>6, <2>1
        <3> QED
            BY <1>0, <1>1, <2>1, <3>1 DEF AloneOK, RefusedViews
    <2>2. Len(retry'[r]) + 1 = pos'[r] => Len(retry[r]) + 1 = pos[r]
        BY <1>0, <1>2, <1>8
    <2> QED
        BY <1>2, <1>3, <2>1, <2>2 DEF RefusedViews
<1> QED
    BY <1>4, <1>5, <1>9, <1>10 DEF AloneOK

\* The first pass begins before any view is created, and another one with the views that
\* could not be created in the last.
LEMMA AlonePass ==
    ASSUME IndInv, AloneInv, UsualNames, NEW r \in Runs, Alone(r),
           StartViews(r) \/ Finish(r) \/ EndPass(r)
    PROVE  AloneOK(r)'
<1>0. /\ TypeOK /\ RunOK(r) /\ AloneOK(r)
      /\ pos[r] \in Nat \ {0} /\ pending[r] \in Seq(AnyView) /\ retry[r] \in Seq(AnyView)
    BY DEF IndInv, AloneInv, TypeOK
<1>1. CASE StartViews(r)
    <2>1. /\ stage[r] = "build" /\ stage'[r] = "views" /\ pos'[r] = 1 /\ retry' = retry
          /\ pending'[r] = Database(r).views /\ result' = result /\ applied' = applied
          /\ session' = session
        BY <1>0, <1>1, Domains DEF StartViews, target
    <2>2. session[r] # "refused" /\ result[r] # "error"
        BY <1>0, <2>1 DEF AloneOK, NoneRefused, RunOK, StagesOK
    <2>3. /\ ToSet(retry[r]) = {} /\ Admitted(r)
          /\ \A x \in applied[r] : \E j \in DOMAIN Statements(r) : Statements(r)[j] = x
        BY <1>0, <2>1 DEF RunOK, StagesOK, ViewsOK, ProgressOK, ToSet
    <2>4. \A x \in applied[r] : x.op # "view"
        BY <1>0, <2>3, PlanOfRun DEF Admitted, Orderly
    <2>5. \A v : CreateView(v).op = "view"
        BY DEF CreateView, Statement
    <2>6. \A v : CreateView(v) \notin applied[r]
        BY <2>4, <2>5
    <2>7. Database(r).views \in Seq(AnyView)
        BY <1>0, PlanOfRun, CatalogueFields
    <2>8. \A k \in DOMAIN pending'[r] : ~(k < 1)
        BY <2>1, <2>7
    <2> QED
        BY <2>1, <2>2, <2>3, <2>6, <2>8
           DEF AloneOK, NoneRefused, NotYetCreated, RefusedViews, FailedViews
<1>2. CASE Finish(r)
    <2>1. stage'[r] = "ended" /\ result'[r] = "ok"
        BY <1>0, <1>2, Domains DEF Finish, Ends
    <2> QED
        BY <2>1 DEF AloneOK, NoneRefused, NotYetCreated, RefusedViews, FailedViews
<1>3. CASE EndPass(r)
    <2>1. /\ stage[r] = "views" /\ stage' = stage /\ pos'[r] = 1 /\ retry'[r] = <<>>
          /\ pos[r] > Len(pending[r])
          /\ pending'[r] = retry[r] /\ result' = result /\ applied' = applied
          /\ session' = session
        BY <1>0, <1>3, Domains DEF EndPass, PassOver, target
    <2>2. result[r] # "error" /\ ToSet(retry'[r]) = {}
        BY <1>0, <2>1 DEF RunOK, StagesOK, ToSet
    <2>3. session[r] = "idle"
        BY <1>0, <2>1 DEF RunOK, StagesOK, HasNext
    <2>4. \A k \in DOMAIN retry[r] : ~(k < 1) /\ retry[r][k] \in ToSet(retry[r])
        BY <1>0 DEF ToSet
    <2> QED
        BY <1>0, <2>1, <2>2, <2>3, <2>4
           DEF AloneOK, NoneRefused, NotYetCreated, RefusedViews, FailedViews
<1> QED
    BY <1>1, <1>2, <1>3

\* The run gives up: every view that is left has failed in the last pass, in which nothing
\* was created.
LEMMA AloneGiveUp ==
    ASSUME IndInv, AloneInv, UsualNames, NEW r \in Runs, Alone(r), GiveUpViews(r)
    PROVE  AloneOK(r)'
<1>0. /\ TypeOK /\ RunOK(r) /\ AloneOK(r)
      /\ pos[r] \in Nat \ {0} /\ pending[r] \in Seq(AnyView) /\ retry[r] \in Seq(AnyView)
    BY DEF IndInv, AloneInv, TypeOK
<1>1. /\ stage[r] = "views" /\ stage'[r] = "ended" /\ pending[r] # <<>>
      /\ pos[r] > Len(pending[r]) /\ Len(retry[r]) = Len(pending[r])
      /\ applied' = applied /\ plan' = plan
      /\ \A v : Impossible(v)' <=> Impossible(v)
    <2>1. UNCHANGED <<target, config>>
        BY DEF GiveUpViews
    <2> QED
        BY <1>0, <2>1, SameRelations, Domains DEF GiveUpViews, PassOver, Stuck, Ends, target, config
<1>2. session[r] = "idle"
    BY <1>0, <1>1 DEF RunOK, StagesOK, HasNext
<1>3. Len(retry[r]) + 1 = pos[r]
    BY <1>0, <1>1 DEF RunOK, ViewsOK
<1>4. \A k \in DOMAIN pending[r] : k < pos[r]
    BY <1>0, <1>1
<1>5. \A k \in DOMAIN pending[r] : Impossible(pending[r][k])
    BY <1>0, <1>1, <1>2, <1>3, <1>4 DEF AloneOK, RefusedViews
<1>6. \A v \in ToSet(pending[r]) : Impossible(v) /\ v \in ToSet(Database(r).views)
    BY <1>0, <1>5 DEF ToSet, TypeOK
<1>7. \E v \in ToSet(Database(r).views) : Impossible(v)
    <2>1. pending[r][1] \in ToSet(pending[r])
        BY <1>0, <1>1 DEF ToSet
    <2> QED
        BY <1>6, <2>1
<1>8. ASSUME NEW v \in ToSet(Database(r).views) PROVE CreateView(v) \in applied[r] \/ Impossible(v)
    <2>1. CASE v \in ToSet(retry[r])
        BY <1>0, <1>6, <2>1 DEF TypeOK
    <2>2. CASE \E k \in DOMAIN pending[r] : pos[r] <= k /\ pending[r][k] = v
        BY <1>5, <2>2
    <2> QED
        BY <1>0, <1>1, <2>1, <2>2 DEF RunOK, ViewsOK
<1>9. ToSet(Statements(r)) \subseteq applied[r]
    BY <1>0, <1>1 DEF RunOK, ProgressOK
<1>10. FailedViews(r)'
    <2>1. Database(r)' = Database(r) /\ Statements(r)' = Statements(r)
        BY <1>1 DEF Database, Statements
    <2> QED
        BY <1>1, <1>7, <1>8, <1>9, <2>1 DEF FailedViews
<1> QED
    BY <1>1, <1>10 DEF AloneOK, NoneRefused, NotYetCreated, RefusedViews

\* No step breaks what holds of a run that is left alone.
LEMMA AlonePreserved ==
    ASSUME IndInv, AloneInv, UsualNames, [Next]_vars, NEW r \in Runs, Alone(r)'
    PROVE  AloneOK(r)'
<1>1. Alone(r) /\ AloneOK(r) /\ ~fault'
    BY StillAlone DEF AloneInv, Alone
<1>2. CASE UNCHANGED vars
    <2>1. Untouched(r) /\ UNCHANGED created
        BY <1>2 DEF vars, Untouched, viewVars, target
    <2> QED
        BY <1>1, <2>1, AloneFrame
<1>3. ASSUME NEW q \in Runs \ {r}, QuietStep(q) PROVE AloneOK(r)'
    BY <1>1, <1>3, OthersQuiet, AloneFrame
<1>4. CASE QuietStep(r)
    BY <1>1, <1>4, AloneEarly, AloneSession, AloneTakeEffect, AloneFail, AlonePass, AloneGiveUp
       DEF QuietStep
<1> QED
    BY <1>1, <1>2, <1>3, <1>4, QuietSteps DEF AloneInv

\* Nothing has happened at the start.
LEMMA InitAloneInv ==
    ASSUME Init
    PROVE  AloneInv
<1>1. /\ ctxDone = {} /\ orphans = {}
      /\ \A r \in Runs : /\ stage[r] = "validate" /\ applied[r] = {} /\ created[r] = {}
                         /\ session[r] = "idle"
    BY DEF Init
<1>2. QuietOK
    BY <1>1 DEF QuietOK
<1>3. \A r \in Runs : TakenOK(r) /\ PassOK(r)
    BY <1>1 DEF TakenOK, PassOK
<1>4. \A r \in Runs : AloneOK(r)
    BY <1>1 DEF AloneOK, NoneRefused, NotYetCreated, RefusedViews, FailedViews
<1> QED
    BY <1>2, <1>3, <1>4 DEF AloneInv

\* The two invariants hold together: what the runs have done and hold, and how a run fares
\* that nothing disturbs.
THEOREM AloneInvariant == Spec => [](IndInv /\ AloneInv)
<1>1. Init => IndInv /\ AloneInv
    BY InitIndInv, InitAloneInv
<1>2. AloneInv /\ IndInv /\ [Next]_vars => AloneInv'
    <2> SUFFICES ASSUME AloneInv, IndInv, [Next]_vars PROVE AloneInv'
        OBVIOUS
    <2>1. QuietOK'
        BY QuietPreserved DEF AloneInv
    <2>2. \A r \in Runs : TakenOK(r)' /\ PassOK(r)'
        BY TakenPreserved, PassPreserved DEF AloneInv, IndInv
    <2>3. UsualNames => \A r \in Runs : Alone(r)' => AloneOK(r)'
        BY AlonePreserved
    <2> QED
        BY <2>1, <2>2, <2>3 DEF AloneInv, UsualNames
<1> QED
    BY <1>1, <1>2, RunsInvariant, PTL DEF Spec

-------------------------------------------------------------------------------
(* Consequences. *)

\* A run that nothing disturbs has created, when it fails, every view that selects only
\* from what is there, in whatever order CreateViews was given them.
THEOREM ViewsCreated == ASSUME UsualNames PROVE Spec => []ViewsMaximal
<1>1. IndInv /\ AloneInv => ViewsMaximal
    <2> SUFFICES ASSUME IndInv, AloneInv, NEW r \in Runs, result[r] = "error", Changed(r), ~fault,
                        \A q \in Runs \ {r} : ~Changed(q),
                        NEW v \in ToSet(Database(r).views), v.name \notin created[r]
                 PROVE  ~(v.uses \subseteq Relations)
        BY DEF ViewsMaximal
    <2>1. Alone(r)
        BY DEF Alone, Changed
    <2>2. CreateView(v) \in applied[r] \/ Impossible(v)
        BY <2>1 DEF AloneInv, AloneOK, FailedViews, Changed
    <2>3. CreateView(v) \notin applied[r]
        <3> SUFFICES ASSUME CreateView(v) \in applied[r] PROVE FALSE
            OBVIOUS
        <3>1. CreateView(v).creates \subseteq created[r] /\ TypeOK /\ RunOK(r)
            BY DEF IndInv, RunOK, CreatedOK
        <3>2. v.name # NoName
            BY <3>1, PlanOfRun, NamesElements DEF Consistent
        <3> QED
            BY <3>1, <3>2 DEF CreateView, Statement
    <2> QED
        BY <2>2, <2>3 DEF Impossible
<1> QED
    BY <1>1, AloneInvariant, PTL

\* A run that has begun to change the target fails only because something broke, it was
\* cancelled, another run got in between, or a view selects from a relation the filters
\* left out: all other statements are carried out, and of the views that are left one could
\* have been created, that which depends on none of the others.
THEOREM FailureExplained == ASSUME UsualNames PROVE Spec => []FailureHasCause
<1>1. IndInv /\ AloneInv => FailureHasCause
    <2> SUFFICES ASSUME IndInv, AloneInv, NEW r \in Runs, result[r] = "error", Changed(r), ~fault,
                        \A q \in Runs \ {r} : ~Changed(q), ViewsCovered(r)
                 PROVE  FALSE
        BY DEF FailureHasCause
    <2>0. TypeOK /\ RunOK(r) /\ Admitted(r)
        BY DEF IndInv, RunOK, StagesOK, Changed
    <2>1. Alone(r)
        BY DEF Alone, Changed
    <2>2. PICK d : d = Database(r)
        OBVIOUS
    <2>3. /\ ToSet(Statements(r)) \subseteq applied[r]
          /\ \E v \in ToSet(d.views) : Impossible(v)
          /\ \A v \in ToSet(d.views) : CreateView(v) \in applied[r] \/ Impossible(v)
        BY <2>1, <2>2 DEF AloneInv, AloneOK, FailedViews, Changed
    <2>4. /\ source \in Sources
          /\ ToSet(d.tables) = {t \in ToSet(source.tables) : t.name \in chosen[r]}
          /\ ToSet(d.views) = {v \in ToSet(source.views) : v.name \in chosen[r]}
          /\ Consistent(d)
        BY <2>0, <2>2, PartOfSource, PlanOfRun
    <2>5. PICK rank \in [Names(source.views) -> 0..Len(source.views)] :
              \A v \in ToSet(source.views) : \A u \in v.uses \cap Names(source.views) : rank[u] < rank[v.name]
        BY <2>4, ViewsAssumption DEF Layered
    <2>6. \A v \in ToSet(d.views) : v.name \in Names(source.views) /\ rank[v.name] \in Nat
        <3>1. \A v \in ToSet(d.views) : v.name \in Names(source.views)
            BY <2>4, NamesElements
        <3> QED
            BY <2>5, <3>1
    <2>7. PICK v \in ToSet(d.views) :
              /\ Impossible(v)
              /\ \A w \in ToSet(d.views) : Impossible(w) => rank[v.name] <= rank[w.name]
        <3> DEFINE T == {rank[v.name] : v \in {w \in ToSet(d.views) : Impossible(w)}}
        <3>1. T \subseteq Nat /\ T # {}
            BY <2>3, <2>6
        <3>2. PICK n \in T : \A m \in T : n <= m
            BY <3>1, LeastElement
        <3> QED
            BY <3>2
    <2>8. PICK u \in v.uses : u \notin Relations
        BY <2>7 DEF Impossible
    <2>9. \A x \in applied[r] : x.creates \subseteq Relations
        BY <2>0 DEF RunOK, CreatedOK, Relations
    <2>10. u \in chosen[r]
        BY <2>2, <2>8 DEF ViewsCovered, Relations
    <2>11. v \in ToSet(source.views) /\ u \in Names(source.tables) \cup Names(source.views)
        BY <2>4, <2>8, ViewsAssumption DEF Layered
    <2>12. CASE u \in Names(source.tables)
        <3>1. PICK t \in ToSet(d.tables) : t.name = u
            BY <2>4, <2>10, <2>12, NamesElements
        <3>2. CreateTable(t) \in applied[r]
            <4>1. CreateTable(t) \in StatementsFor(d, r \in schemaOnly)
                BY <3>1 DEF StatementsFor
            <4> QED
                BY <2>0, <2>2, <2>3, <4>1, PlanOfRun DEF Admitted
        <3>3. u # NoName
            BY <2>4, <3>1, NamesElements DEF Consistent
        <3>4. u \in CreateTable(t).creates
            BY <3>1, <3>3 DEF CreateTable, Statement
        <3> QED
            BY <2>8, <2>9, <3>2, <3>4
    <2>13. CASE u \in Names(source.views)
        <3>1. PICK w \in ToSet(d.views) : w.name = u
            BY <2>4, <2>10, <2>13, NamesElements
        <3>2. rank[u] < rank[v.name] /\ rank[u] \in Nat /\ rank[v.name] \in Nat
            BY <2>5, <2>6, <2>8, <2>11, <2>13, <3>1
        <3>3. ~Impossible(w)
            BY <2>7, <3>1, <3>2
        <3>4. CreateView(w) \in applied[r]
            BY <2>3, <3>3
        <3>5. u # NoName
            BY <2>4, <3>1, NamesElements DEF Consistent
        <3>6. u \in CreateView(w).creates
            BY <3>1, <3>5 DEF CreateView, Statement
        <3> QED
            BY <2>8, <2>9, <3>4, <3>6
    <2> QED
        BY <2>11, <2>12, <2>13
<1> QED
    BY <1>1, AloneInvariant, PTL

-------------------------------------------------------------------------------
(* How runs share the target. *)

\* A relation takes its name in the target for as long as anybody can see.
LEMMA CreatedIsTaken ==
    ASSUME NEW r \in Runs
    PROVE  created[r] \subseteq Relations
    BY DEF Relations

\* A run that has reported success has nothing left that the target could still carry out: what
\* it has left behind are views, and they exist by then.
LEMMA NothingAfterSuccess ==
    ASSUME IndInv, NEW o \in orphans, o[1] \in Runs, o[2] \in AnyStatement, Apply(o[1], o[2])
    PROVE  result[o[1]] # "ok"
<1> SUFFICES ASSUME result[o[1]] = "ok" PROVE FALSE
    OBVIOUS
<1> PICK r \in Runs, x \in AnyStatement : r = o[1] /\ x = o[2]
    OBVIOUS
<1>1. TypeOK /\ RunOK(r) /\ Admitted(r) /\ applied[r] = AllStatements(r)
    BY SuccessApplied DEF IndInv
<1>2. x \in AllStatements(r)
    BY <1>1 DEF TypeOK
<1>3. x.op = "view"
    BY <1>1 DEF RunOK, OrphansOK
<1>4. Orderly(Statements(r)) /\ plan[r].views = {CreateView(v) : v \in ToSet(Database(r).views)}
    BY <1>1, PlanOfRun DEF Admitted
<1>5. x \notin ToSet(Statements(r))
    BY <1>3, <1>4 DEF Orderly, ToSet
<1>6. PICK v \in ToSet(Database(r).views) : x = CreateView(v)
    BY <1>2, <1>4, <1>5 DEF AllStatements
<1>7. v.name \in x.creates
    <2>1. v.name # NoName
        <3>1. NoName \notin Names(Database(r).views)
            BY <1>1, PlanOfRun DEF Consistent
        <3> QED
            BY <3>1, NamesElements
    <2> QED
        BY <1>6, <2>1 DEF CreateView, Statement
<1>8. v.name \in created[r]
    BY <1>1, <1>2, <1>7 DEF RunOK, CreatedOK
<1>9. x.creates \cap Relations = {}
    BY <1>1, ApplyFacts
<1> QED
    BY <1>7, <1>8, <1>9, CreatedIsTaken

\* Who changes the target: a run that has not succeeded, with one of its statements.
LEMMA WhoApplies ==
    ASSUME IndInv, [Next]_vars
    PROVE  \/ UNCHANGED target
           \/ /\ UNCHANGED <<config, result>>
              /\ \E r \in Runs : \E x \in AnyStatement :
                  /\ Apply(r, x) /\ result[r] # "ok"
                  /\ x \in AllStatements(r) /\ Admitted(r)
                  /\ x.op # "view" => x.needs \subseteq created[r]
                  /\ x.op = "rows" => x \notin applied[r]
<1>0. TypeOK /\ \A r \in Runs : RunOK(r)
    BY DEF IndInv
<1>1. ASSUME NEW r \in Runs, TakeEffect(r)
      PROVE  /\ UNCHANGED <<config, result>>
             /\ \E x \in AnyStatement :
                  /\ Apply(r, x) /\ result[r] # "ok"
                  /\ x \in AllStatements(r) /\ Admitted(r)
                  /\ x.op # "view" => x.needs \subseteq created[r]
                  /\ x.op = "rows" => x \notin applied[r]
    <2>1. session[r] = "sent" /\ Apply(r, NextStatement(r)) /\ UNCHANGED <<config, result>>
        BY <1>1 DEF TakeEffect
    <2>2. HasNext(r) /\ result[r] # "ok"
        BY <1>0, <2>1 DEF RunOK, StagesOK, HasNext
    <2> QED
        BY <1>0, <2>1, <2>2, NextFacts, NeedsCreated, RowsNotYet
<1>2. ASSUME NEW o \in orphans, Apply(o[1], o[2])
      PROVE  /\ o[1] \in Runs /\ o[2] \in AnyStatement
             /\ result[o[1]] # "ok"
             /\ o[2] \in AllStatements(o[1]) /\ Admitted(o[1])
             /\ o[2].op # "view" => o[2].needs \subseteq created[o[1]]
             /\ o[2].op = "rows" => o[2] \notin applied[o[1]]
    <2>1. o[1] \in Runs /\ o[2] \in AnyStatement /\ o[2] \in AllStatements(o[1])
        BY <1>0 DEF TypeOK
    <2>2. /\ Admitted(o[1])
          /\ o[2].op # "view" => o[2].needs \subseteq created[o[1]]
          /\ o[2].op = "rows" => o[2] \notin applied[o[1]]
        BY <1>0, <2>1 DEF RunOK, StagesOK, OrphansOK
    <2>3. result[o[1]] # "ok"
        BY <1>2, <2>1, NothingAfterSuccess
    <2> QED
        BY <2>1, <2>2, <2>3
<1>3. ASSUME OrphanTakesEffect PROVE UNCHANGED <<config, result>> /\ \E o \in orphans : Apply(o[1], o[2])
    BY <1>3 DEF OrphanTakesEffect
<1>4. UNCHANGED target \/ (\E r \in Runs : TakeEffect(r)) \/ OrphanTakesEffect
    BY DEF Next, OrphanDies, vars, RunStep, Accept, Reject, RelationAbsent, RelationExists, StartBuilding,
                   Send, Succeed, Fail, GiveUp, NotSent, StartViews, Finish, EndPass, GiveUpViews,
                   ServerStep, TakeEffect, Refuse, FaultStep, FailEarly, Break, LoseConnection,
                   Cancel, Crash
<1> QED
    BY <1>1, <1>2, <1>3, <1>4

\* The statement of a run takes names that are free, or fills a table of its own.
LEMMA ApplyShares ==
    ASSUME IndInv, UNCHANGED <<config, result>>,
           NEW r \in Runs, NEW x \in AnyStatement, Apply(r, x), result[r] # "ok",
           x \in AllStatements(r), Admitted(r),
           x.op # "view" => x.needs \subseteq created[r], x.op = "rows" => x \notin applied[r]
    PROVE  Shared!Take(r) \/ Shared!Load(r)
<1>0. TypeOK /\ (\A q \in Runs : RunOK(q)) /\ Separate /\ LoadsOK
    BY DEF IndInv
<1>1. existing' = existing /\ result' = result
    BY DEF config
<1>2. /\ created' = [created EXCEPT ![r] = created'[r]]
      /\ created[r] \subseteq created'[r] /\ (created'[r] \ created[r]) \cap Relations = {}
    <2>1. created' = [created EXCEPT ![r] = @ \cup x.creates \cup (x.implicit \ Relations)]
        BY DEF Apply
    <2> QED
        BY <1>0, <2>1, ApplyFacts, Domains
<1>3. CASE x.op # "rows"
    <2>1. loads' = loads
        BY <1>3 DEF Apply
    <2> QED
        BY <1>1, <1>2, <2>1 DEF Shared!Take, Shared!Taken, Relations
<1>4. CASE x.op = "rows"
    <2>1. loads' = [loads EXCEPT ![x.name] = @ + 1]
        BY <1>4 DEF Apply
    <2>2. /\ x.needs = {x.name} /\ x.name \in created[r]
          /\ x = Statement("rows", x.name, {x.name}, {}, {})
          /\ \E t \in ToSet(Database(r).tables) : x.name = t.name
        BY <1>0, <1>4, RowsStatement DEF Admitted
    <2>3. x.creates = {} /\ x.implicit = {}
        BY <2>2 DEF Statement
    <2>4. created' = created
        <3>1. created'[r] = created[r]
            BY <1>0, <2>3, ApplyFacts
        <3> QED
            BY <1>0, <1>2, <3>1, Domains DEF TypeOK
    <2>5. x.name \in AllTables
        <3>1. PICK t \in ToSet(Database(r).tables) : x.name = t.name
            BY <2>2
        <3>2. source \in Sources /\ t \in ToSet(source.tables)
            BY <1>0, PartOfSource
        <3> QED
            BY <3>1, <3>2, NamesElements DEF AllTables
    <2>6. ~\E q \in Runs : \E y \in applied[q] : y.op = "rows" /\ y.name = x.name
        BY <1>0, <1>4, <2>2, LoadedByOwner
    <2>7. loads[x.name] = 0
        <3>1. loads[x.name] \in Nat
            BY <1>0, <2>5 DEF TypeOK
        <3>2. ~(loads[x.name] > 0)
            BY <1>0, <2>5, <2>6 DEF LoadsOK
        <3> QED
            BY <3>1, <3>2
    <2>8. loads' = [loads EXCEPT ![x.name] = 1]
        BY <2>1, <2>7
    <2> QED
        BY <1>1, <2>2, <2>4, <2>5, <2>7, <2>8 DEF Shared!Load
<1> QED
    BY <1>3, <1>4

\* A run returns once.
LEMMA ReturnsOnce ==
    ASSUME IndInv, [Next]_vars, UNCHANGED target
    PROVE  (\E r \in Runs : Shared!Return(r)) \/ UNCHANGED Shared!shared
<1>0. TypeOK /\ \A r \in Runs : StagesOK(r)
    BY DEF IndInv, RunOK
<1>1. existing' = existing /\ created' = created /\ loads' = loads
    BY DEF target, vars, config, Next, OrphanTakesEffect, OrphanDies, RunStep, Accept, Reject, RelationAbsent,
           RelationExists, StartBuilding, Send, Succeed, Fail, GiveUp, NotSent, StartViews, Finish, EndPass,
           GiveUpViews, ServerStep, TakeEffect, Refuse, FaultStep, FailEarly, Break, LoseConnection, Cancel,
           Crash
<1>2. \/ result' = result
      \/ \E r \in Runs : stage[r] # "ended" /\ \E outcome \in {"ok", "error", "crashed"} : Ends(r, outcome)
    <2>1. CASE \E r \in Runs : \/ Accept(r) \/ RelationAbsent(r) \/ StartBuilding(r) \/ Send(r) \/ Succeed(r)
                               \/ StartViews(r) \/ EndPass(r) \/ TakeEffect(r) \/ Refuse(r) \/ Break(r)
                               \/ Cancel(r)
        BY <2>1 DEF Accept, RelationAbsent, StartBuilding, Send, Succeed, StartViews, EndPass, TakeEffect,
                    Refuse, Break, Cancel
    <2>2. CASE OrphanTakesEffect \/ OrphanDies \/ UNCHANGED vars
        BY <2>2 DEF OrphanTakesEffect, OrphanDies, vars
    <2>3. ASSUME NEW r \in Runs, \/ Reject(r) \/ RelationExists(r) \/ Finish(r) \/ GiveUpViews(r)
                                 \/ FailEarly(r) \/ Crash(r)
          PROVE  stage[r] # "ended" /\ \E outcome \in {"ok", "error", "crashed"} : Ends(r, outcome)
        BY <2>3 DEF Reject, RelationExists, Finish, GiveUpViews, PassOver, FailEarly, Crash
    <2>4. ASSUME NEW r \in Runs, Fail(r) \/ GiveUp(r) \/ LoseConnection(r) \/ NotSent(r)
          PROVE  stage[r] # "ended" /\ (Ends(r, "error") \/ result' = result)
        <3>1. HasNext(r)
            BY <1>0, <2>4 DEF Fail, GiveUp, LoseConnection, Waiting, NotSent, StagesOK
        <3>2. Failed(r)
            BY <2>4 DEF Fail, GiveUp, LoseConnection, NotSent
        <3> QED
            BY <3>1, <3>2 DEF Failed, HasNext
    <2> QED
        BY <2>1, <2>2, <2>3, <2>4 DEF Next, RunStep, ServerStep, FaultStep
<1>3. ASSUME NEW r \in Runs, stage[r] # "ended", NEW outcome \in {"ok", "error", "crashed"}, Ends(r, outcome)
      PROVE  Shared!Return(r)
    <2>1. result[r] = "pending"
        BY <1>0, <1>3 DEF StagesOK
    <2> QED
        BY <1>1, <1>3, <2>1 DEF Ends, Shared!Return
<1> QED
    BY <1>1, <1>2, <1>3 DEF Shared!shared

\* Runs, whatever becomes of them and of the statements they leave behind, share the target as
\* SharedTarget says: every step takes free names, fills a table of the run once, ends the run, or
\* changes none of this, and nothing of a run that has reported success changes the target.
THEOREM TargetShared == Spec => SharesTarget
<1>1. Init => Shared!Init
    BY DEF Init, Shared!Init
<1>2. ASSUME IndInv, [Next]_vars PROVE [Shared!Next]_(Shared!shared)
    <2>1. CASE UNCHANGED target
        BY <1>2, <2>1, ReturnsOnce DEF Shared!Next
    <2>2. ASSUME NEW r \in Runs, Shared!Take(r) \/ Shared!Load(r) PROVE Shared!Next
        BY <2>2 DEF Shared!Next
    <2> QED
        BY <1>2, <2>1, <2>2, WhoApplies, ApplyShares
<1> QED
    BY <1>1, <1>2, RunsInvariant, PTL DEF Spec, SharesTarget, Shared!Spec
================================================================================
