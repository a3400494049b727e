-------------------------------- MODULE Protect --------------------------------
(***************************************************************************)
(* protect: literals, comments and delimited identifiers of a SQL text are  *)
(* cut out before the text is rewritten, and put back afterwards.           *)
(*                                                                          *)
(* A text is a sequence of symbols.  A symbol is one of the characters the  *)
(* scanner looks at, a blank ("sp", "nl"), or a whole run of identifier     *)
(* characters, which the scanner copies one by one without looking at them  *)
(* ("N" is a run of its own, it may prefix a literal).  Placeholders are    *)
(* symbols that occur in no text: the code makes their prefix longer until  *)
(* the input does not contain it.                                           *)
(***************************************************************************)
EXTENDS Naturals, Sequences, SequencesExt, FiniteSets

CONSTANTS
    Identifier,         (* symbols made of identifier characters *)
    Placeholders        (* the symbols put in the place of the fragments, in order *)

Symbol == STRING

\* Symbols a delimited name begins with, a literal too, a comment too.
Delimiters == {"\"", "["}

Quoting == Delimiters \cup {"'"}

Openers == Quoting \cup {"-", "/"}

\* The scanner never takes a placeholder for one of its characters, nor for another one.
ASSUME PlaceholdersAssumption ==
    /\ Placeholders \in Seq(Symbol)
    /\ \A i, j \in DOMAIN Placeholders : i # j => Placeholders[i] # Placeholders[j]
    /\ \A i \in DOMAIN Placeholders : Placeholders[i] \notin Openers \cup {"*"}

VARIABLES
    input,              (* the text *)
    options,            (* what protect is asked for, see below *)
    index,              (* position of the scanner, from 1 *)
    start,              (* where the fragment being scanned begins *)
    inside,             (* what the scanner is in the middle of *)
    depth,              (* open block comments *)
    output,             (* protected.SQL so far *)
    fragments           (* what the placeholders in output stand for *)

scanner == <<input, options, index, start, inside, depth, output, fragments>>

Option(national, protectNames, normalizeNames) ==
    [national |-> national, protectNames |-> protectNames, normalizeNames |-> normalizeNames]

\* Protect without its option, ProtectIdentifiers and ProtectExpression.
LiteralsOption == Option(FALSE, FALSE, FALSE)
IdentifiersOption == Option(FALSE, TRUE, FALSE)
ExpressionOption == Option(TRUE, TRUE, TRUE)

Options == {LiteralsOption, IdentifiersOption, ExpressionOption}

ScannerTypeOK ==
    /\ options \in Options
    /\ index \in 1..(Len(input) + 1) /\ start \in 1..(Len(input) + 1)
    /\ inside \in {"code", "name", "literal", "line", "block"}
    /\ depth \in 0..Len(input)
    /\ Len(fragments) <= Len(input)

Begin(text, opt) ==
    /\ input = text /\ options = opt
    /\ index = 1 /\ start = 1 /\ inside = "code" /\ depth = 0
    /\ output = <<>> /\ fragments = <<>>

\* Another text is protected.
BeginNext(text, opt) ==
    /\ input' = text /\ options' = opt
    /\ index' = 1 /\ start' = 1 /\ inside' = "code" /\ depth' = 0
    /\ output' = <<>> /\ fragments' = <<>>

-------------------------------------------------------------------------------
\* The symbol at a position; "" beyond the end.
At(i) == IF i \in DOMAIN input THEN input[i] ELSE ""

AtPair(i, first, second) == At(i) = first /\ At(i + 1) = second

\* The symbol that ends what a delimiter opens.
Closing == IF At(start) = "[" THEN "]" ELSE At(start)

\* An N that belongs to the literal behind it, not to a name.
National(i) ==
    /\ options.national /\ AtPair(i, "N", "'")
    /\ At(i - 1) \notin Identifier

\* strings.ReplaceAll(name, "]]", "]").
Halved(name) ==
    LET Step(acc, c) ==
            IF c = "]" THEN [text |-> IF acc.half THEN acc.text ELSE Append(acc.text, c),
                             half |-> ~acc.half]
            ELSE [text |-> Append(acc.text, c), half |-> FALSE]
    IN FoldLeft(Step, [text |-> <<>>, half |-> FALSE], name).text

\* strings.ReplaceAll(name, `"`, `""`).
Doubled(name) ==
    FlattenSeq([i \in DOMAIN name |-> IF name[i] = "\"" THEN <<"\"", "\"">> ELSE <<name[i]>>])

\* Mutant: the brackets are replaced, the name between them is taken as it is.
ReplaceBrackets(fragment) == <<"\"">> \o SubSeq(fragment, 2, Len(fragment) - 1) \o <<"\"">>

\* [a name] becomes "a name".
Requoted(fragment) ==
    <<"\"">> \o Doubled(Halved(SubSeq(fragment, 2, Len(fragment) - 1))) \o <<"\"">>

\* protected.add
Add(fragment) ==
    /\ output' = Append(output, Placeholders[Len(fragments) + 1])
    /\ fragments' = Append(fragments, fragment)

-------------------------------------------------------------------------------
(* One action for each way the scanner moves on. *)

Enter(kind, first, length) ==
    /\ inside' = kind
    /\ start' = first
    /\ index' = first + length
    /\ UNCHANGED <<input, options, output, fragments>>

Move(length) ==
    /\ index' = index + length
    /\ UNCHANGED <<input, options, start, inside, output, fragments>>

EnterName ==
    /\ inside = "code" /\ At(index) \in Delimiters
    /\ Enter("name", index, 1)
    /\ UNCHANGED depth

\* The fragment of a literal starts at its quote, with or without a prefix.
EnterLiteral ==
    /\ inside = "code" /\ (At(index) = "'" \/ National(index))
    /\ Enter("literal", IF At(index) = "'" THEN index ELSE index + 1, 1)
    /\ UNCHANGED depth

MoveInQuoted ==
    /\ inside \in {"name", "literal"} /\ index \in DOMAIN input
    /\ \/ At(index) # Closing /\ Move(1)
       \/ AtPair(index, Closing, Closing) /\ Move(2)
    /\ UNCHANGED depth

\* Behind its closing symbol, or at the end of a text that never closes it.
AtEndOfQuoted ==
    \/ index \notin DOMAIN input
    \/ At(index) = Closing /\ At(index + 1) # Closing

Closed == index \in DOMAIN input

QuotedFragment == SubSeq(input, start, IF Closed THEN index ELSE Len(input))

\* Mutant: the closing symbol is skipped where there is none.
LeaveBehind ==
    /\ index' = index + 1
    /\ inside' = "code"
    /\ UNCHANGED <<input, options, start, depth>>

Leave ==
    /\ index' = IF Closed THEN index + 1 ELSE index
    /\ inside' = "code"
    /\ UNCHANGED <<input, options, start, depth>>

\* Mutant: names are protected only where they are normalised.
LeaveUnnormalizedName ==
    /\ inside = "name" /\ AtEndOfQuoted
    /\ IF ~options.normalizeNames
       THEN output' = output \o QuotedFragment /\ UNCHANGED fragments
       ELSE IF At(start) = "[" /\ Closed THEN Add(Requoted(QuotedFragment))
            ELSE Add(QuotedFragment)
    /\ Leave

\* A name is written out as it is when only literals and comments are protected; a
\* bracketed one is turned into a quoted one for the rewriting of expressions.
LeaveName ==
    /\ inside = "name" /\ AtEndOfQuoted
    /\ IF ~options.protectNames
       THEN output' = output \o QuotedFragment /\ UNCHANGED fragments
       ELSE IF options.normalizeNames /\ At(start) = "[" /\ Closed THEN Add(Requoted(QuotedFragment))
            ELSE Add(QuotedFragment)
    /\ Leave

LeaveLiteral ==
    /\ inside = "literal" /\ AtEndOfQuoted
    /\ Add(QuotedFragment)
    /\ Leave

EnterLineComment ==
    /\ inside = "code" /\ AtPair(index, "-", "-")
    /\ Enter("line", index, 2)
    /\ UNCHANGED depth

MoveInLineComment ==
    /\ inside = "line" /\ index \in DOMAIN input /\ At(index) # "nl"
    /\ Move(1)
    /\ UNCHANGED depth

EnterBlockComment ==
    /\ inside = "code" /\ AtPair(index, "/", "*")
    /\ Enter("block", index, 2)
    /\ depth' = 1

\* Mutant: block comments do not nest.
DepthIsFlat == depth' = IF AtPair(index, "*", "/") THEN 0 ELSE depth

\* Block comments nest.
DepthFollows ==
    depth' = IF AtPair(index, "/", "*") THEN depth + 1
             ELSE IF AtPair(index, "*", "/") THEN depth - 1
             ELSE depth

MoveInBlockComment ==
    /\ inside = "block" /\ index \in DOMAIN input /\ depth > 0
    /\ DepthFollows
    /\ Move(IF AtPair(index, "/", "*") \/ AtPair(index, "*", "/") THEN 2 ELSE 1)

\* Mutant: the line end behind a comment is skipped, but is not part of the fragment.
LeaveWithLineEnd ==
    /\ \/ inside = "line" /\ (At(index) = "nl" \/ index \notin DOMAIN input)
       \/ inside = "block" /\ (depth = 0 \/ index \notin DOMAIN input)
    /\ Add(SubSeq(input, start, index - 1))
    /\ inside' = "code"
    /\ index' = IF At(index) = "nl" THEN index + 1 ELSE index
    /\ UNCHANGED <<input, options, start, depth>>

LeaveComment ==
    /\ \/ inside = "line" /\ (At(index) = "nl" \/ index \notin DOMAIN input)
       \/ inside = "block" /\ (depth = 0 \/ index \notin DOMAIN input)
    /\ Add(SubSeq(input, start, index - 1))
    /\ inside' = "code"
    /\ UNCHANGED <<input, options, index, start, depth>>

CopySymbol ==
    /\ inside = "code" /\ index \in DOMAIN input
    /\ At(index) \notin Quoting /\ ~National(index)
    /\ ~AtPair(index, "-", "-") /\ ~AtPair(index, "/", "*")
    /\ output' = Append(output, At(index))
    /\ index' = index + 1
    /\ UNCHANGED <<input, options, start, inside, depth, fragments>>

Scan ==
    \/ EnterName \/ EnterLiteral \/ MoveInQuoted \/ LeaveName \/ LeaveLiteral
    \/ EnterLineComment \/ MoveInLineComment
    \/ EnterBlockComment \/ MoveInBlockComment \/ LeaveComment
    \/ CopySymbol

Scanned == inside = "code" /\ index > Len(input)

-------------------------------------------------------------------------------
(* What is done with a protected text; cut are the fragments of its placeholders. *)

IsPlaceholder(symbol) == symbol \in ToSet(Placeholders)

FragmentOf(symbol, cut) == cut[CHOOSE i \in DOMAIN Placeholders : Placeholders[i] = symbol]

Restore(text, cut) ==
    FlattenSeq([i \in DOMAIN text |->
                    IF IsPlaceholder(text[i]) THEN FragmentOf(text[i], cut) ELSE <<text[i]>>])

\* Mutant: fragments leave nothing behind, and what they separated becomes one word.
RemovePlaceholders(text) == LET Code(symbol) == ~IsPlaceholder(symbol) IN SelectSeq(text, Code)

\* A fragment leaves a blank behind.
Masked(text) == [i \in DOMAIN text |-> IF IsPlaceholder(text[i]) THEN "sp" ELSE text[i]]

-------------------------------------------------------------------------------
(* What protect promises for every text, whatever is done with it afterwards. *)

OpenersIn(text, length) == {i \in 1..length : text[i] \in Openers}

\* Texts protect is called with: no placeholder occurs in them, and there is one for every
\* fragment.  The code numbers its placeholders without end.
Readable ==
    /\ input \in Seq(Symbol)
    /\ \A i \in DOMAIN input : ~IsPlaceholder(input[i])
    /\ Cardinality(OpenersIn(input, Len(input))) <= Len(Placeholders)

ProtectInit == Readable /\ \E opt \in Options : Begin(input, opt)

\* Another text, which may have been made from this one.
ProtectNext == Readable' /\ \E opt \in Options : BeginNext(input', opt)

ProtectSpec == ProtectInit /\ [][Scan \/ ProtectNext]_scanner

\* What a fragment may have been made from: itself, a literal with a prefix, or a name in
\* brackets.
Normalises(raw, fragment) ==
    \/ fragment = raw
    \/ options.national /\ raw = <<"N">> \o fragment
    \/ /\ options.normalizeNames /\ fragment = Requoted(raw)
       /\ Len(raw) > 1 /\ raw[1] = "[" /\ raw[Len(raw)] = "]"

Segments == {SubSeq(input, i, j) : i, j \in DOMAIN input}

Originals == {raw \in Segments : \E i \in DOMAIN fragments : Normalises(raw, fragments[i])}

\* Nothing in the text is to be normalised: no name in brackets, no prefix of a literal.
Unaltered ==
    /\ options.normalizeNames => \A i \in DOMAIN input : input[i] # "["
    /\ \A i \in DOMAIN input : ~National(i)

\* Whatever stands side by side in a text and wherever it ends: the text is what was written,
\* with a part of the text in the place of each placeholder that differs from its fragment by
\* the form of a name or the prefix of a literal, if at all.  Nothing is lost, repeated or
\* moved, at the end of an unclosed fragment as little as elsewhere, and a text in which
\* there is nothing to normalise is restored symbol by symbol.
OnlyNormalised ==
    Scanned =>
        \E raw \in [DOMAIN fragments -> Originals] :
            /\ \A i \in DOMAIN fragments : Normalises(raw[i], fragments[i])
            /\ Restore(output, raw) = input
            /\ Unaltered => raw = fragments

OpensComment(first, second) == (first = "-" /\ second = "-") \/ (first = "/" /\ second = "*")

\* With names protected, a rewriting meets nothing it could take for the beginning of a
\* literal, a comment or a delimited name.
NothingLeftToProtect ==
    options.protectNames =>
        /\ \A i \in DOMAIN output : output[i] \notin Quoting
        /\ \A i \in 1..(Len(output) - 1) : ~OpensComment(output[i], output[i + 1])
================================================================================
