----------------------------- MODULE MCTranslation -----------------------------
(* Definitions on which TLC checks Translation. *)
EXTENDS Translation

Words == {"a", "N", "0", "1", "flag", "f", "int", "month", "day", "AND", "IN", "GO", "SET",
          "LEN", "IIF", "CHARINDEX", "CONVERT", "DATEDIFF", "ISNULL", "GETDATE",
          "LENGTH", "RTRIM", "CASE", "WHEN", "THEN", "ELSE", "END", "POSITION", "integer",
          "EXTRACT", "FROM", "CAST", "AS", "date", "COALESCE", "CURRENT_TIMESTAMP", "TRUE", "FALSE"}

\* A placeholder for every symbol a fragment may begin with.
Cuts == [n \in 1..60 |-> "cut" \o ToString(n)]

Rule(name, arity, first, template) ==
    [name |-> name, arity |-> arity, first |-> first, template |-> template]

\* One case of translateCall of each form: nested calls, keywords between the arguments,
\* another order, an argument used twice.
TranslateCallCases == {
    Rule("LEN", 1, <<>>, <<"LENGTH", "(", "RTRIM", "(", "$1", ")", ")">>),
    Rule("IIF", 3, <<>>, <<"CASE", "sp", "WHEN", "sp", "$1", "sp", "THEN", "sp", "$2", "sp",
                           "ELSE", "sp", "$3", "sp", "END">>),
    Rule("CHARINDEX", 2, <<>>, <<"POSITION", "(", "$1", "sp", "IN", "sp", "$2", ")">>),
    Rule("CONVERT", 2, <<"int">>, <<"(", "$2", ")", "::", "integer">>),
    Rule("DATEDIFF", 3, <<"month">>,
         <<"(", "EXTRACT", "(", "a", "sp", "FROM", "sp", "(", "$3", ")", ")", "-",
           "EXTRACT", "(", "a", "sp", "FROM", "sp", "(", "$2", ")", ")", "+",
           "(", "$3", ")", "-", "(", "$2", ")", ")">>),
    Rule("DATEDIFF", 3, <<"day">>,
         <<"(", "(", "$3", ")", "::", "date", "sp", "-", "sp", "(", "$2", ")", "::", "date", ")">>)}

KnownTypes == (<<"int">> :> <<"integer">>) @@ (<<"date">> :> <<"date">>)

\* CASE, WHEN and the like precede parentheses too and are on the list; FROM is not.
PortableFunctions == {"LENGTH", "RTRIM", "CASE", "WHEN", "THEN", "ELSE", "POSITION", "EXTRACT", "CAST", "AS",
                      "COALESCE", "AND", "IN"}

UnsupportedFunctions == {"LEN", "IIF", "CHARINDEX", "CONVERT", "DATEDIFF", "ISNULL", "GETDATE"}

FlagColumn == <<"\"", "flag", "\"">>

-------------------------------------------------------------------------------
(* Texts the scanner has to find its way through, without any call. *)

Texts(symbols, length) == UNION {[1..n -> symbols] : n \in 1..length}

\* Literals with their prefix, names with either delimiter, closed and not.
QuotedTexts == Texts({"'", "[", "]", "N", "a"}, 5) \cup Texts({"\"", "[", "]", "'"}, 4)

\* Comments of both kinds, nested and not, over line ends and beside literals.
CommentTexts == Texts({"/", "*", "-", "nl", "'"}, 4) \cup Texts({"/", "*"}, 8)

ScannerDefinitions ==
    {[term |-> Leaf(text), kind |-> "view"] : text \in QuotedTexts \cup CommentTexts}

-------------------------------------------------------------------------------
(* Expressions. *)

Column == Leaf(<<"a">>)
One == Leaf(<<"1">>)
FlagName == Leaf(<<"[", "flag", "]">>)

\* N',)''', a name and comments with the symbols the rewriting looks for, a literal over
\* several lines.
Literal == Leaf(<<"N", "'", ",", ")", "'", "'", "'">>)
Name == Leaf(<<"[", ",", "(", "]", "]", "\"", "]">>)
BlockComment == Leaf(<<"/", "*", ")", "/", "*", "*", "/", ",", "*", "/", "a">>)
LineComment == Leaf(<<"-", "-", "'", ",", "nl", "a">>)
Lines == Leaf(<<"'", "nl", "GO", "nl", "sp", "AS", "sp", "int", "'">>)

\* The comment stands behind the operand.
TrailingComment == Leaf(<<"a", "sp", "-", "-", "a", "nl">>)

Simple == {Column, One, Literal, Name, BlockComment, LineComment, Lines}

Function(name, args) == Call(<<name>>, args)

DateDiff(unit, x, y) == Function("DATEDIFF", <<Leaf(<<unit>>), x, y>>)

\* Calls over the given operands: translated, renamed, unknown, of the wrong arity.
CallsOver(x, y, z) == {
    Function("LEN", <<x>>), Function("LEN", <<x, y>>), Function("LEN", <<>>),
    Function("IIF", <<Equals(FlagName, One), y, z>>), Function("IIF", <<x, Paren(Infix(y, <<",">>, z)), x>>),
    Function("CHARINDEX", <<x, y>>), Function("CONVERT", <<Leaf(<<"int">>), x>>),
    Function("CONVERT", <<y, x>>), DateDiff("month", x, y), DateDiff("day", x, y),
    Function("ISNULL", <<x, y>>), Function("f", <<x>>),
    Cast(x, <<"int">>), Cast(Cast(x, <<"date">>), <<"int">>), Cast(y, <<"f">>),
    Infix(x, <<"sp", "IN", "sp">>, Paren(Infix(y, <<",">>, z)))}

Flat == UNION {CallsOver(x, y, Column) : x \in Simple, y \in {Column, Name, Literal}}

\* Every call in every place of every call.
Nested ==
    UNION {CallsOver(x, Column, Name) \cup CallsOver(Column, x, One) :
               x \in CallsOver(Name, Literal, Column) \cup CallsOver(LineComment, Column, One)}

\* A comment may be all that separates an operator from a call.
Composed ==
    {Infix(x, operator, y) : x \in {Column, Paren(One)}, y \in CallsOver(Column, Name, One),
                             operator \in {<<"sp", "AND", "sp">>, <<"sp", "AND", "/", "*", "*", "/">>}}
    \cup {Equals(x, y) : x \in {FlagName, Column, One, Paren(One), Literal}, y \in {FlagName, Column, Paren(One)}}
    \cup {Infix(Paren(Equals(x, One)), <<"AND">>, Paren(Equals(One, y))) :
              x \in {FlagName, Column}, y \in {FlagName, Name}}
    \cup {Infix(Paren(One), <<"+">>, Paren(x)) : x \in Simple}
    \cup {One, Leaf(<<"0">>), Function("GETDATE", <<>>)}

\* SQL Server stores the definitions of checks and defaults in parentheses.
Stored(terms) == {Paren(t) : t \in terms} \cup {Paren(Paren(t)) : t \in terms}

\* DATEDIFF becomes a text with the word FROM in front of a parenthesis, which a check or
\* default may not have, see VerdictDefinitions.
BecomesFrom(t) ==
    \E call \in CallsIn(t) : call.text = <<"DATEDIFF">> /\ Head(call.args) = Leaf(<<"month">>)

InTables(terms) == {t \in terms : ~BecomesFrom(t)}

ExpressionDefinitions ==
    {[term |-> t, kind |-> "view"] : t \in Flat \cup Composed \cup {u \in Nested : BecomesFrom(u)}}
    \cup {[term |-> Paren(t), kind |-> "check"] : t \in InTables(Nested)}
    \cup {[term |-> t, kind |-> k] :
              t \in Stored(InTables(Composed)), k \in {"check", "default", "bitDefault"}}

AllDefinitions == ScannerDefinitions \cup ExpressionDefinitions

-------------------------------------------------------------------------------
(* Where the code goes wrong. *)

\* A view that names a column without a blank in front of the new name, and passes an
\* operand with a comment behind it to a translated function.
MeaningDefinitions ==
    {[term |-> Infix(Leaf(<<"[", "a", "]", "[", "f", "]">>), <<",">>,
                     Function("IIF", <<TrailingComment, One, Column>>)),
      kind |-> "view"]}

\* A check that calls a user-defined function, the way SQL Server stores it, and one that
\* counts months.
VerdictDefinitions ==
    {[term |-> Paren(t), kind |-> "check"] :
         t \in {Call(<<"[", "f", "]">>, <<Name>>), Equals(DateDiff("month", Column, Name), One)}}
================================================================================
