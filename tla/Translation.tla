------------------------------ MODULE Translation ------------------------------
(***************************************************************************)
(* How a view, check or default definition of SQL Server becomes PostgreSQL *)
(* text and is accepted or rejected by Validate: a chain of passes, each of *)
(* which protects the text, works on what is left of it and restores it.    *)
(*                                                                          *)
(*   view:     normalizeViewDefinition, normalizeSQLExpression              *)
(*   default:  mapDefault, normalizeSQLExpression, the value of its column  *)
(*   check:    normalizeSQLExpression, normalizeBooleanComparisons          *)
(*   all:      the validation of the functions it calls                     *)
(*                                                                          *)
(* Definitions are given as terms, so that what they mean is known: Source  *)
(* writes a term as T-SQL, Target writes what it means in PostgreSQL.       *)
(***************************************************************************)
EXTENDS Protect

CONSTANTS
    Definitions,        (* [term, kind], see below *)
    Rules,              (* the cases of translateCall: [name, arity, first, template] *)
    Types,              (* mssqlTypeToPG: the PostgreSQL text of a type *)
    Portable,           (* portableSQLFunctions, for checks and defaults *)
    Unsupported,        (* functions a translated view must not call *)
    Flag,               (* the name of a bit column, as PostgreSQL quotes it *)
    NoText              (* no translation yet *)

VARIABLES
    term,               (* the definition *)
    kind,               (* what it is the definition of *)
    pass,               (* the pass that is protecting its text *)
    translated,         (* what PostgreSQL will be sent *)
    verdict             (* of Validate *)

vars == <<scanner, term, kind, pass, translated, verdict>>

Blank == {"sp", "nl"}

-------------------------------------------------------------------------------
(* Texts. *)

From(s, i) == SubSeq(s, i, Len(s))

\* strings.TrimSpace
Trim(s) ==
    LET kept == {i \in DOMAIN s : s[i] \notin Blank}
    IN IF kept = {} THEN <<>> ELSE SubSeq(s, Min(kept), Max(kept))

\* The length of the run of identifier characters a text begins with.
WordLength(s) ==
    LET ends == {i \in DOMAIN s : s[i] \notin Identifier}
    IN IF ends = {} THEN Len(s) ELSE Min(ends) - 1

\* The first position from i on that is not blank.
RECURSIVE SkipBlank(_, _)
SkipBlank(s, i) == IF i <= Len(s) /\ s[i] \in Blank THEN SkipBlank(s, i + 1) ELSE i

Opens(s, i, j) == Cardinality({k \in i..j : s[k] = "("})
Closes(s, i, j) == Cardinality({k \in i..j : s[k] = ")"})

\* The parenthesis that closes the one at open; 0 if there is none.
CloseOf(s, open) ==
    LET balanced == {i \in open..Len(s) : Opens(s, open, i) = Closes(s, open, i)}
    IN IF balanced = {} THEN 0 ELSE Min(balanced)

\* Mutant: commas split whatever they are nested in.
ArgumentsAtAnyDepth(body) ==
    LET commas == {i \in DOMAIN body : body[i] = ","}
        cuts == <<0>> \o SetToSortSeq(commas, <) \o <<Len(body) + 1>>
    IN IF body = <<>> THEN <<>>
       ELSE [k \in 1..(Len(cuts) - 1) |-> Trim(SubSeq(body, cuts[k] + 1, cuts[k + 1] - 1))]

\* callArguments: the arguments between the parentheses of a call.
Arguments(body) ==
    LET commas == {i \in DOMAIN body : body[i] = "," /\ Opens(body, 1, i) = Closes(body, 1, i)}
        cuts == <<0>> \o SetToSortSeq(commas, <) \o <<Len(body) + 1>>
    IN IF body = <<>> THEN <<>>
       ELSE [k \in 1..(Len(cuts) - 1) |-> Trim(SubSeq(body, cuts[k] + 1, cuts[k + 1] - 1))]

-------------------------------------------------------------------------------
(* Rewriting. *)

\* isNullPattern, getDatePattern: replaced wherever they match, whatever is in between.
RECURSIVE RenameFunctions(_)
RenameFunctions(s) ==
    IF s = <<>> THEN <<>>
    ELSE LET open == SkipBlank(s, 2)
             close == SkipBlank(s, open + 1)
         IN IF s[1] = "ISNULL" /\ open <= Len(s) /\ s[open] = "("
            THEN <<"COALESCE", "(">> \o RenameFunctions(From(s, open + 1))
            ELSE IF s[1] = "GETDATE" /\ close <= Len(s) /\ s[open] = "(" /\ s[close] = ")"
            THEN <<"CURRENT_TIMESTAMP">> \o RenameFunctions(From(s, close + 1))
            ELSE <<s[1]>> \o RenameFunctions(Tail(s))

Parameters == <<"$1", "$2", "$3">>

\* A template with the arguments in the place of the parameters, each as often as it
\* is mentioned.
Fill(template, args) ==
    FlattenSeq([i \in DOMAIN template |->
        IF \E k \in DOMAIN args : Parameters[k] = template[i]
        THEN args[CHOOSE k \in DOMAIN args : Parameters[k] = template[i]]
        ELSE <<template[i]>>])

\* A case of translateCall applies to a call; first is the unit or type it expects.
Applies(rule, name, args) ==
    /\ name = <<rule.name>> /\ Len(args) = rule.arity
    /\ rule.first # <<>> => Head(args) = rule.first

\* The AS of a CAST: the first one outside parentheses with a type behind it; 0 if
\* there is none.
CastAs(s) ==
    LET IsCastAs(i) ==
            /\ s[i] = "AS" /\ i > 1 /\ i < Len(s) /\ s[i - 1] \in Blank /\ s[i + 1] \in Blank
            /\ Opens(s, 1, i) = Closes(s, 1, i)
            /\ Trim(From(s, i + 1)) \in DOMAIN Types
        found == {i \in DOMAIN s : IsCastAs(i)}
    IN IF found = {} THEN 0 ELSE Min(found)

TranslateCast(s) ==
    IF CastAs(s) = 0 THEN <<>>
    ELSE <<"CAST", "(">> \o Trim(SubSeq(s, 1, CastAs(s) - 1)) \o <<"sp", "AS", "sp">>
         \o Types[Trim(From(s, CastAs(s) + 1))] \o <<")">>

\* translateCall; <<>> if no case applies.
TranslateCall(name, args) ==
    IF name = <<"CAST">> /\ Len(args) = 1 THEN TranslateCast(Head(args))
    ELSE IF \E rule \in Rules : Applies(rule, name, args)
    THEN Fill((CHOOSE rule \in Rules : Applies(rule, name, args)).template, args)
    ELSE <<>>

\* Inside out: the arguments are rewritten first, then split again.
RECURSIVE RewriteCalls(_)
RewriteCalls(s) ==
    IF s = <<>> THEN <<>>
    ELSE IF s[1] \notin Identifier THEN <<s[1]>> \o RewriteCalls(Tail(s))
    ELSE LET length == WordLength(s)
             name == SubSeq(s, 1, length)
             open == SkipBlank(s, length + 1)
         IN IF open > Len(s) \/ s[open] # "("
            THEN name \o RewriteCalls(From(s, length + 1))
            ELSE LET close == CloseOf(s, open)
                     body == RewriteCalls(SubSeq(s, open + 1, close - 1))
                     call == TranslateCall(name, Arguments(body))
                 IN IF close = 0 THEN s
                    ELSE (IF call # <<>> THEN call ELSE SubSeq(s, 1, open) \o body \o <<")">>)
                         \o RewriteCalls(From(s, close + 1))

\* Lines that are left out of a view.
BatchDirectives == {<<>>, <<"GO">>, <<"SET">>}

\* normalizeViewDefinition: blank lines and batch directives are left out.  The CREATE
\* VIEW header in front of the text is not modelled.
KeptLines(s) ==
    LET breaks == <<0>> \o SetToSortSeq({i \in DOMAIN s : s[i] = "nl"}, <) \o <<Len(s) + 1>>
        lines == [k \in 1..(Len(breaks) - 1) |-> SubSeq(s, breaks[k] + 1, breaks[k + 1] - 1)]
        Kept(line) == Trim(line) \notin BatchDirectives
        kept == SelectSeq(lines, Kept)
    IN Trim(FlattenSeq([k \in DOMAIN kept |-> kept[k] \o <<"nl">>]))

\* Parentheses around the whole text.
RECURSIVE UnwrapOuterParens(_)
UnwrapOuterParens(s) ==
    IF Len(s) >= 2 /\ Head(s) = "(" /\ CloseOf(s, 1) = Len(s)
    THEN UnwrapOuterParens(Trim(SubSeq(s, 2, Len(s) - 1)))
    ELSE s

RECURSIVE TrimExpressionParens(_)
TrimExpressionParens(s) ==
    IF Len(s) >= 2 /\ Head(s) = "(" /\ Last(s) = ")"
    THEN TrimExpressionParens(Trim(SubSeq(s, 2, Len(s) - 1)))
    ELSE Trim(s)

BooleanLiteral(value) == IF value = "1" THEN "TRUE" ELSE "FALSE"

\* normalizeDefaultDefinition: the value of a bit column.
DefaultValue(s) ==
    LET value == TrimExpressionParens(s)
    IN IF kind = "bitDefault" /\ value \in {<<"0">>, <<"1">>}
       THEN <<BooleanLiteral(Head(value))>>
       ELSE s

\* A value compared with at the beginning of a text, in parentheses or not: its length
\* and the value; the length is 0 if there is none.
ComparedValue(s) ==
    LET value == SkipBlank(s, 2)
        close == SkipBlank(s, value + 1)
    IN IF s # <<>> /\ Head(s) \in {"0", "1"} THEN [length |-> 1, value |-> Head(s)]
       ELSE IF close <= Len(s) /\ Head(s) = "(" /\ s[value] \in {"0", "1"} /\ s[close] = ")"
       THEN [length |-> close, value |-> s[value]]
       ELSE [length |-> 0, value |-> ""]

\* normalizeBooleanComparisons: the value a bit column is compared with, on its right
\* and on its left.
RECURSIVE RightValues(_)
RightValues(s) ==
    IF s = <<>> THEN <<>>
    ELSE LET operator == SkipBlank(s, Len(Flag) + 1)
             right == SkipBlank(s, operator + 1)
             compared == ComparedValue(From(s, right))
         IN IF /\ IsPrefix(Flag, s) /\ operator <= Len(s) /\ s[operator] = "="
               /\ compared.length > 0
            THEN SubSeq(s, 1, right - 1) \o <<BooleanLiteral(compared.value)>>
                 \o RightValues(From(s, right + compared.length))
            ELSE <<s[1]>> \o RightValues(Tail(s))

RECURSIVE LeftValues(_)
LeftValues(s) ==
    IF s = <<>> THEN <<>>
    ELSE LET compared == ComparedValue(s)
             operator == SkipBlank(s, compared.length + 1)
             name == SkipBlank(s, operator + 1)
         IN IF /\ compared.length > 0 /\ operator <= Len(s) /\ s[operator] = "="
               /\ IsPrefix(Flag, From(s, name))
            THEN <<BooleanLiteral(compared.value)>>
                 \o SubSeq(s, compared.length + 1, name + Len(Flag) - 1)
                 \o LeftValues(From(s, name + Len(Flag)))
            ELSE <<s[1]>> \o LeftValues(Tail(s))

\* The words in front of a parenthesis.
CalledWords(s) ==
    LET Word(i) == SubSeq(s, i, i + WordLength(From(s, i)) - 1)
        Begins(i) == s[i] \in Identifier /\ (i > 1 => s[i - 1] \notin Identifier)
        Called(i) == LET open == SkipBlank(s, i + Len(Word(i))) IN open <= Len(s) /\ s[open] = "("
    IN {Word(i) : i \in {j \in DOMAIN s : Begins(j) /\ Called(j)}}

Listed(list) == {<<f>> : f \in list}

\* hasOnlyPortableFunctions for checks and defaults, validateViewDefinition for views.
IsPortable(s) ==
    IF kind = "view" THEN CalledWords(s) \cap Listed(Unsupported) = {}
    ELSE CalledWords(s) \subseteq Listed(Portable)

-------------------------------------------------------------------------------
(* Terms: [op, text, args].                                                  *)
(*   leaf    text                      a column, a value, a comment before it *)
(*   call    text ( args )             text is the name                       *)
(*   paren   ( arg )                                                          *)
(*   infix   arg text arg              text is the operator between its blanks *)
(*   equals  arg = arg                                                        *)
(*   cast    CAST ( arg AS text )      text is the type                       *)

Leaf(text) == [op |-> "leaf", text |-> text, args |-> <<>>]
Call(name, args) == [op |-> "call", text |-> name, args |-> args]
Paren(t) == [op |-> "paren", text |-> <<>>, args |-> <<t>>]
Infix(left, operator, right) == [op |-> "infix", text |-> operator, args |-> <<left, right>>]
Equals(left, right) == [op |-> "equals", text |-> <<"=">>, args |-> <<left, right>>]

Cast(t, type) == [op |-> "cast", text |-> type, args |-> <<t>>]

CastText(text, type) == <<"CAST", "(">> \o text \o <<"sp", "AS", "sp">> \o type \o <<")">>

Comma(i) == IF i = 1 THEN <<>> ELSE <<",">>

\* A term in T-SQL.
RECURSIVE Source(_)
Source(t) ==
    CASE t.op = "leaf" -> t.text
      [] t.op = "paren" -> <<"(">> \o Source(t.args[1]) \o <<")">>
      [] t.op = "cast" -> CastText(Source(t.args[1]), t.text)
      [] t.op = "call" ->
             t.text \o <<"(">> \o FlattenSeq([i \in DOMAIN t.args |-> Comma(i) \o Source(t.args[i])])
             \o <<")">>
      [] OTHER -> Source(t.args[1]) \o t.text \o Source(t.args[2])

-------------------------------------------------------------------------------
(* The passes.  mapDefault's own replacements are left out.  They rename the functions for *)
(* the time and for identifiers, which normalizeSQLExpression, the next pass, would rename  *)
(* too, and also their names without parentheses; T-SQL has only one such expression,       *)
(* CURRENT_TIMESTAMP, which stays what it is.                                               *)

Init ==
    /\ \E d \in Definitions : term = d.term /\ kind = d.kind
    /\ pass = CASE kind = "view" -> "viewText"
                [] kind = "check" -> "normalize"
                [] OTHER -> "mapDefault"
    /\ Begin(Source(term), IF kind = "view" THEN LiteralsOption ELSE ExpressionOption)
    /\ translated = NoText
    /\ verdict = "pending"

Protecting ==
    /\ Scan
    /\ UNCHANGED <<term, kind, pass, translated, verdict>>

NormalizeViewDefinition ==
    /\ pass = "viewText" /\ Scanned
    /\ BeginNext(Restore(KeptLines(output), fragments), ExpressionOption)
    /\ pass' = "normalize"
    /\ UNCHANGED <<term, kind, translated, verdict>>

\* Mutant: the fragments of the default are not put back.
MapDefaultProtected ==
    /\ pass = "mapDefault" /\ Scanned
    /\ BeginNext(UnwrapOuterParens(Trim(output)), ExpressionOption)
    /\ pass' = "normalize"
    /\ UNCHANGED <<term, kind, translated, verdict>>

MapDefault ==
    /\ pass = "mapDefault" /\ Scanned
    /\ BeginNext(Restore(UnwrapOuterParens(Trim(output)), fragments), ExpressionOption)
    /\ pass' = "normalize"
    /\ UNCHANGED <<term, kind, translated, verdict>>

NormalizeSQLExpression ==
    /\ pass = "normalize" /\ Scanned
    /\ LET normalized == Restore(RewriteCalls(RenameFunctions(output)), fragments)
       IN IF kind = "check"
          THEN /\ BeginNext(normalized, LiteralsOption)
               /\ pass' = "booleans"
               /\ UNCHANGED translated
          ELSE /\ translated' = DefaultValue(normalized)
               /\ BeginNext(translated', IdentifiersOption)
               /\ pass' = "validate"
    /\ UNCHANGED <<term, kind, verdict>>

NormalizeBooleanComparisons ==
    /\ pass = "booleans" /\ Scanned
    /\ translated' = Restore(LeftValues(RightValues(output)), fragments)
    /\ BeginNext(translated', IdentifiersOption)
    /\ pass' = "validate"
    /\ UNCHANGED <<term, kind, verdict>>

Validate ==
    /\ pass = "validate" /\ Scanned
    /\ verdict' = IF IsPortable(Masked(output)) THEN "accepted" ELSE "rejected"
    /\ pass' = "done"
    /\ UNCHANGED <<scanner, term, kind, translated>>

Next ==
    \/ Protecting
    \/ NormalizeViewDefinition \/ MapDefault
    \/ NormalizeSQLExpression \/ NormalizeBooleanComparisons \/ Validate

Spec == Init /\ [][Next]_vars

-------------------------------------------------------------------------------
(* What the text of a definition means: its tokens.  Both servers read the   *)
(* texts that occur here alike, brackets and quotes delimit the same names.  *)

Count(s, i, j, symbol) == Cardinality({k \in i..j : s[k] = symbol})

\* What begins at i with a delimiter ends where the closing symbols so far are odd in
\* number and no other one follows.
QuotedLength(s, i) ==
    LET closing == IF s[i] = "[" THEN "]" ELSE s[i]
        ends == {n \in (i + 1)..Len(s) :
                     /\ s[n] = closing /\ Count(s, i + 1, n, closing) % 2 = 1
                     /\ n = Len(s) \/ s[n + 1] # closing}
    IN IF ends = {} THEN Len(s) ELSE Min(ends)

\* Every second closing symbol between the delimiters.
Content(s, closing) ==
    LET Kept(n) == s[n] # closing \/ Count(s, 1, n, closing) % 2 = 1
        kept == SetToSortSeq({n \in DOMAIN s : Kept(n)}, <)
    IN [k \in DOMAIN kept |-> s[kept[k]]]

Starts(s, first, second) == Len(s) >= 2 /\ s[1] = first /\ s[2] = second

RECURSIVE BlockLength(_, _, _)
BlockLength(s, i, open) ==
    IF i > Len(s) \/ open = 0 THEN Min({i - 1, Len(s)})
    ELSE IF Starts(From(s, i), "/", "*") THEN BlockLength(s, i + 2, open + 1)
    ELSE IF Starts(From(s, i), "*", "/") THEN BlockLength(s, i + 2, open - 1)
    ELSE BlockLength(s, i + 1, open)

\* The first token of a text: [kind, length].
FirstToken(s) ==
    CASE s[1] \in {"\"", "["} -> [kind |-> "name", length |-> QuotedLength(s, 1)]
      [] s[1] = "'" -> [kind |-> "literal", length |-> QuotedLength(s, 1)]
      [] Starts(s, "N", "'") -> [kind |-> "national", length |-> QuotedLength(s, 2)]
      [] Starts(s, "-", "-") ->
             [kind |-> "comment",
              length |-> Max({n \in DOMAIN s : \A i \in 1..n : s[i] # "nl"})]
      [] Starts(s, "/", "*") -> [kind |-> "comment", length |-> BlockLength(s, 3, 1)]
      [] s[1] \in Blank -> [kind |-> "blank", length |-> 1]
      [] s[1] \in Identifier -> [kind |-> "word", length |-> WordLength(s)]
      [] OTHER -> [kind |-> "symbol", length |-> 1]

\* Every token with its text.
RECURSIVE Lexemes(_)
Lexemes(s) ==
    IF s = <<>> THEN <<>>
    ELSE LET first == FirstToken(s)
         IN <<[kind |-> first.kind, text |-> SubSeq(s, 1, first.length)]>>
            \o Lexemes(From(s, first.length + 1))

\* What a token means: names and literals without their delimiters.
Meaning(lexeme) ==
    LET text == lexeme.text
        Inner(from) == SubSeq(text, from, Len(text) - 1)
    IN CASE lexeme.kind = "name" ->
                [kind |-> "name", text |-> Content(Inner(2), IF text[1] = "[" THEN "]" ELSE "\"")]
         [] lexeme.kind = "literal" -> [kind |-> "literal", text |-> Content(Inner(2), "'")]
         [] lexeme.kind = "national" -> [kind |-> "literal", text |-> Content(Inner(3), "'")]
         [] OTHER -> lexeme

Tokens(s) ==
    LET Spoken(lexeme) == lexeme.kind \notin {"blank", "comment"}
        spoken == SelectSeq(Lexemes(s), Spoken)
    IN [i \in DOMAIN spoken |-> Meaning(spoken[i])]

\* What a term means in PostgreSQL, in T-SQL texts of the same meaning.
RECURSIVE Target(_)
Target(t) ==
    LET args == [i \in DOMAIN t.args |-> Target(t.args[i])]
        IsBit(i) == kind = "check" /\ t.args[i].op = "leaf" /\ Tokens(t.args[i].text) = Tokens(Flag)
        Side(i) == LET value == UnwrapOuterParens(args[i])
                   IN IF IsBit(3 - i) /\ value \in {<<"0">>, <<"1">>}
                      THEN <<BooleanLiteral(Head(value))>>
                      ELSE args[i]
    IN CASE t.op = "leaf" -> t.text
         [] t.op = "paren" -> <<"(">> \o args[1] \o <<")">>
         [] t.op = "cast" ->
                CastText(args[1], IF t.text \in DOMAIN Types THEN Types[t.text] ELSE t.text)
         [] t.op = "infix" -> args[1] \o t.text \o args[2]
         [] t.op = "equals" -> Side(1) \o t.text \o Side(2)
         [] t.text = <<"GETDATE">> /\ t.args = <<>> -> <<"CURRENT_TIMESTAMP">>
         [] OTHER ->
             LET call == TranslateCall(t.text, args)
                 name == IF t.text = <<"ISNULL">> THEN <<"COALESCE">> ELSE t.text
             IN IF call # <<>> THEN call
                ELSE name \o <<"(">> \o FlattenSeq([i \in DOMAIN args |-> Comma(i) \o args[i]])
                     \o <<")">>

RECURSIVE Unparen(_)
Unparen(t) == IF t.op = "paren" THEN Unparen(t.args[1]) ELSE t

\* A default loses the parentheses around it, and a bit default becomes a truth value.
TargetDefinition ==
    LET value == Target(Unparen(term))
    IN CASE kind \in {"view", "check"} -> Target(term)
         [] kind = "bitDefault" /\ value \in {<<"0">>, <<"1">>} -> <<BooleanLiteral(Head(value))>>
         [] OTHER -> value

-------------------------------------------------------------------------------
(* Properties. *)

TypeOK ==
    /\ ScannerTypeOK
    /\ pass \in {"viewText", "mapDefault", "normalize", "booleans", "validate", "done"}
    /\ translated = NoText <=> pass \notin {"validate", "done"}
    /\ verdict \in {"pending", "accepted", "rejected"}

\* What the rewriting gets to see is exactly the code of the text: no symbol of a
\* literal, comment or delimited name, and no symbol outside them is missing,
\* whatever the text puts side by side.
OnlyCodeIsExposed ==
    LET Exposed(lexeme) ==
            CASE lexeme.kind \in {"literal", "comment"} -> <<>>
              [] lexeme.kind = "name" -> IF options.protectNames THEN <<>> ELSE lexeme.text
              [] lexeme.kind = "national" -> IF options.national THEN <<>> ELSE <<"N">>
              [] OTHER -> lexeme.text
        lexemes == Lexemes(input)
    IN Scanned =>
           RemovePlaceholders(output) = FlattenSeq([i \in DOMAIN lexemes |-> Exposed(lexemes[i])])

\* No two names and no two literals touch: restored, they would become one.
Separated(text) ==
    LET lexemes == Lexemes(text)
        Literal(lexeme) == lexeme.kind \in {"literal", "national"}
    IN \A i \in 1..(Len(lexemes) - 1) :
           /\ ~(lexemes[i].kind = "name" /\ lexemes[i + 1].kind = "name")
           /\ ~(Literal(lexemes[i]) /\ Literal(lexemes[i + 1]))

\* Restoring an unchanged text gives a text with the same meaning: names in brackets
\* become quoted names with the same characters, literals keep theirs.  Names, or
\* literals, without a blank between them are excepted, see MeaningPreserved.
RestoreUndoesProtect ==
    Scanned /\ Separated(input) => Tokens(Restore(output, fragments)) = Tokens(input)

MeansTheSame == Tokens(translated) = Tokens(TargetDefinition)

\* README: "Supported function calls can be nested", "Rewrites avoid string literals and
\* SQL comments".  After all passes the definition means what its term means: every
\* call is translated with its own arguments, at any depth, and nothing else changes.
MeaningPreserved == pass = "done" => MeansTheSame

\* The same for definitions in which no two names and no two literals touch.
SeparatedMeaningPreserved == pass = "done" /\ Separated(Source(term)) => MeansTheSame

\* The calls in a term, with those in their arguments.
RECURSIVE CallsIn(_)
CallsIn(t) ==
    (IF t.op = "call" THEN {t} ELSE {}) \cup UNION {CallsIn(t.args[i]) : i \in DOMAIN t.args}

\* Calls that are renamed or translated, and calls of functions the target has.  A view
\* may call any function that is not known to be one of T-SQL.
Supported(call) ==
    LET args == [i \in DOMAIN call.args |-> Source(call.args[i])]
    IN \/ call.text = <<"ISNULL">>
       \/ call.text = <<"GETDATE">> /\ args = <<>>
       \/ \E rule \in Rules : Applies(rule, call.text, args)
       \/ IF kind = "view" THEN call.text \notin Listed(Unsupported) ELSE call.text \in Listed(Portable)

\* README: the tool "fails clearly when a definition cannot be translated safely", and
\* lists what it translates.  A definition is accepted exactly when every call in its
\* term is supported: no comment, literal or delimiter hides a call or is taken for one,
\* and nothing a supported call is rewritten to is rejected.
VerdictIsRight ==
    pass = "done" => (verdict = "accepted" <=> \A call \in CallsIn(term) : Supported(call))
================================================================================
