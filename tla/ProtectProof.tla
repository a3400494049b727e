------------------------------ MODULE ProtectProof ------------------------------
(***************************************************************************)
(* Proofs about Protect: for every text, what is cut out comes back, and    *)
(* what is left is code.                                                    *)
(***************************************************************************)
EXTENDS Protect, NumberProof, FiniteSetTheorems, SequenceTheorems

-------------------------------------------------------------------------------
(* FlattenSeq. *)

\* The equation that the recursive function of FlattenSeq satisfies.
Flattening(f, s, n) == f = [i \in 1..n |-> IF i = 1 THEN s[i] ELSE f[i - 1] \o s[i]]

\* The recursive function of FlattenSeq exists.
LEMMA FlatteningExists ==
    ASSUME NEW s, NEW n \in Nat
    PROVE  \E f : Flattening(f, s, n)
<1> DEFINE P == {m \in Nat : \E f : Flattening(f, s, m)}
<1>1. 0 \in P
    <2> DEFINE f == [i \in 1..0 |-> <<>>]
    <2>1. Flattening(f, s, 0)
        BY DEF Flattening
    <2> QED
        BY <2>1
<1>2. ASSUME NEW m \in Nat, m \in P PROVE m + 1 \in P
    <2>1. PICK f : Flattening(f, s, m)
        BY <1>2
    <2> DEFINE last == IF m = 0 THEN s[m + 1] ELSE f[m] \o s[m + 1]
    <2> DEFINE g == [i \in 1..(m + 1) |-> IF i = m + 1 THEN last ELSE f[i]]
    <2>2. \A i \in 1..m : f[i] = IF i = 1 THEN s[i] ELSE f[i - 1] \o s[i]
        BY <2>1 DEF Flattening
    <2>3. \A i \in 1..(m + 1) : g[i] = IF i = 1 THEN s[i] ELSE g[i - 1] \o s[i]
        <3> TAKE i \in 1..(m + 1)
        <3>1. CASE i = m + 1
            <4>1. g[m + 1] = last /\ (m # 0 => g[m] = f[m])
                OBVIOUS
            <4> QED
                BY <3>1, <4>1
        <3>2. CASE i \in 1..m
            <4>1. g[i] = f[i] /\ (i # 1 => g[i - 1] = f[i - 1])
                BY <3>2
            <4> QED
                BY <2>2, <3>2, <4>1
        <3> QED
            BY <3>1, <3>2
    <2>4. Flattening(g, s, m + 1)
        BY <2>3 DEF Flattening
    <2> QED
        BY <2>4
<1>3. Nat \subseteq P
    <2> HIDE DEF P
    <2> QED
        BY <1>1, <1>2, Induction
<1> QED
    BY <1>3

\* FlattenSeq is the last value of that function.
LEMMA FlattenFunction ==
    ASSUME NEW T, NEW s \in Seq(T), Len(s) # 0
    PROVE  \E f : Flattening(f, s, Len(s)) /\ FlattenSeq(s) = f[Len(s)]
<1> DEFINE g == CHOOSE f : Flattening(f, s, Len(s))
<1>0. Len(s) \in Nat
    OBVIOUS
<1>1. Flattening(g, s, Len(s))
    <2>1. \E f : Flattening(f, s, Len(s))
        BY <1>0, FlatteningExists
    <2> QED
        BY <2>1, Zenon
<1>2. FlattenSeq(s) = g[Len(s)]
    BY DEF FlattenSeq, Flattening
<1> QED
    BY <1>1, <1>2

\* The values of the function are sequences, and depend on what they flatten only.
LEMMA FlatteningValues ==
    ASSUME NEW T, NEW s \in Seq(Seq(T)), NEW x \in Seq(T), NEW f, NEW g,
           Flattening(f, s, Len(s)), Flattening(g, Append(s, x), Len(s) + 1)
    PROVE  \A i \in 1..Len(s) : f[i] \in Seq(T) /\ g[i] = f[i]
<1> DEFINE P == {m \in Nat : m \in 1..Len(s) => f[m] \in Seq(T) /\ g[m] = f[m]}
<1>1. \A i \in 1..Len(s) : f[i] = IF i = 1 THEN s[i] ELSE f[i - 1] \o s[i]
    BY DEF Flattening
<1>2. \A i \in 1..Len(s) : g[i] = IF i = 1 THEN s[i] ELSE g[i - 1] \o s[i]
    <2>1. \A i \in 1..(Len(s) + 1) :
              g[i] = IF i = 1 THEN Append(s, x)[i] ELSE g[i - 1] \o Append(s, x)[i]
        BY DEF Flattening
    <2>2. \A i \in 1..Len(s) : i \in 1..(Len(s) + 1) /\ Append(s, x)[i] = s[i]
        OBVIOUS
    <2> QED
        BY <2>1, <2>2
<1>3. 0 \in P
    OBVIOUS
<1>4. ASSUME NEW i \in 1..Len(s), i - 1 \in P PROVE f[i] \in Seq(T) /\ g[i] = f[i]
    <2>1. s[i] \in Seq(T)
        OBVIOUS
    <2>2. CASE i = 1
        BY <1>1, <1>2, <2>1, <2>2
    <2>3. CASE i # 1
        <3>1. f[i] = f[i - 1] \o s[i]
            BY <1>1, <2>3
        <3>2. g[i] = g[i - 1] \o s[i]
            BY <1>2, <2>3
        <3>3. i - 1 \in 1..Len(s)
            BY <2>3
        <3>4. f[i - 1] \in Seq(T) /\ g[i - 1] = f[i - 1]
            BY <1>4, <3>3
        <3> QED
            BY <2>1, <3>1, <3>2, <3>4
    <2> QED
        BY <2>2, <2>3
<1>5. ASSUME NEW m \in Nat, m \in P PROVE m + 1 \in P
    <2> SUFFICES ASSUME m + 1 \in 1..Len(s)
                 PROVE  f[m + 1] \in Seq(T) /\ g[m + 1] = f[m + 1]
        OBVIOUS
    <2>1. m + 1 - 1 = m
        OBVIOUS
    <2> HIDE DEF P
    <2> QED
        BY <1>4, <1>5, <2>1
<1>6. Nat \subseteq P
    <2> HIDE DEF P
    <2> QED
        BY <1>3, <1>5, Induction
<1> QED
    BY <1>6

\* One more sequence is put behind the others.
LEMMA FlattenAppend ==
    ASSUME NEW T, NEW s \in Seq(Seq(T)), NEW x \in Seq(T)
    PROVE  /\ FlattenSeq(s) \in Seq(T)
           /\ FlattenSeq(Append(s, x)) = FlattenSeq(s) \o x
<1>1. Append(s, x) \in Seq(Seq(T)) /\ Len(Append(s, x)) = Len(s) + 1 /\ Len(s) \in Nat
    OBVIOUS
<1>2. PICK g : /\ Flattening(g, Append(s, x), Len(s) + 1)
               /\ FlattenSeq(Append(s, x)) = g[Len(s) + 1]
    <2>1. Len(Append(s, x)) # 0
        BY <1>1
    <2>2. \E f : /\ Flattening(f, Append(s, x), Len(Append(s, x)))
               /\ FlattenSeq(Append(s, x)) = f[Len(Append(s, x))]
        BY <1>1, <2>1, FlattenFunction
    <2> QED
        BY <1>1, <2>2
<1>3. g[Len(s) + 1] = IF Len(s) + 1 = 1 THEN x ELSE g[Len(s)] \o x
    <2>1. \A i \in 1..(Len(s) + 1) :
              g[i] = IF i = 1 THEN Append(s, x)[i] ELSE g[i - 1] \o Append(s, x)[i]
        BY <1>2 DEF Flattening
    <2>2. Len(s) + 1 \in 1..(Len(s) + 1) /\ Append(s, x)[Len(s) + 1] = x /\ Len(s) + 1 - 1 = Len(s)
        BY <1>1
    <2> QED
        BY <2>1, <2>2
<1>4. CASE Len(s) = 0
    <2>1. FlattenSeq(s) = <<>> /\ s = <<>>
        BY <1>4 DEF FlattenSeq
    <2>2. <<>> \in Seq(T) /\ <<>> \o x = x
        OBVIOUS
    <2> QED
        BY <1>2, <1>3, <1>4, <2>1, <2>2
<1>5. CASE Len(s) # 0
    <2>1. PICK f : Flattening(f, s, Len(s)) /\ FlattenSeq(s) = f[Len(s)]
        BY <1>5, FlattenFunction
    <2>2. f[Len(s)] \in Seq(T) /\ g[Len(s)] = f[Len(s)]
        BY <1>1, <1>2, <1>5, <2>1, FlatteningValues
    <2> QED
        BY <1>1, <1>2, <1>3, <1>5, <2>1, <2>2
<1> QED
    BY <1>4, <1>5

\* A sequence is told by its elements.
LEMMA AppendOf ==
    ASSUME NEW T, NEW s \in Seq(T), NEW x \in T, NEW t \in Seq(T), Len(t) = Len(s) + 1,
           t[Len(s) + 1] = x, \A i \in 1..Len(s) : t[i] = s[i]
    PROVE  t = Append(s, x)
<1> DEFINE a == Append(s, x)
<1>1. /\ a \in Seq(T) /\ Len(a) = Len(s) + 1 /\ a[Len(s) + 1] = x
      /\ \A i \in 1..Len(s) : a[i] = s[i]
    BY AppendProperties
<1> HIDE DEF a
<1>2. ASSUME NEW i \in 1..(Len(s) + 1) PROVE t[i] = a[i]
    <2>1. i = Len(s) + 1 \/ i \in 1..Len(s)
        BY LenProperties
    <2> QED
        BY <1>1, <2>1
<1> QED
    BY <1>1, <1>2, SeqEqual DEF a

\* What is appended to the second of two sequences is appended to both.
LEMMA ConcatAppend ==
    ASSUME NEW s \in Seq(Symbol), NEW t \in Seq(Symbol), NEW x \in Symbol
    PROVE  Append(s \o t, x) = s \o Append(t, x)
OBVIOUS

-------------------------------------------------------------------------------
(* Restore. *)

\* What Restore puts in the place of a symbol.
Piece(symbol, cut) == IF IsPlaceholder(symbol) THEN FragmentOf(symbol, cut) ELSE <<symbol>>

Pieces(text, cut) == [i \in DOMAIN text |-> Piece(text[i], cut)]

\* Every placeholder of a text is one of the first n.
Known(text, n) ==
    \A i \in DOMAIN text : IsPlaceholder(text[i]) => \E j \in 1..n : text[i] = Placeholders[j]

Plain(text) == \A i \in DOMAIN text : ~IsPlaceholder(text[i])

\* The placeholders are symbols.
LEMMA PlaceholdersTyped ==
    /\ Placeholders \in Seq(Symbol) /\ Len(Placeholders) \in Nat
    /\ DOMAIN Placeholders = 1..Len(Placeholders)
    /\ \A j \in 1..Len(Placeholders) : Placeholders[j] \in Symbol
<1>1. Placeholders \in Seq(Symbol)
    BY PlaceholdersAssumption
<1> QED
    BY <1>1

\* Restore puts the pieces together.
LEMMA RestorePieces ==
    ASSUME NEW text, NEW cut
    PROVE  Restore(text, cut) = FlattenSeq(Pieces(text, cut))
BY DEF Restore, Pieces, Piece

\* A placeholder stands for the fragment with its number.
LEMMA FragmentByNumber ==
    ASSUME NEW cut, NEW j \in 1..Len(Placeholders)
    PROVE  IsPlaceholder(Placeholders[j]) /\ Piece(Placeholders[j], cut) = cut[j]
<1>1. Placeholders \in Seq(Symbol) /\ DOMAIN Placeholders = 1..Len(Placeholders)
    BY PlaceholdersTyped
<1>2. IsPlaceholder(Placeholders[j])
    BY <1>1 DEF IsPlaceholder, ToSet
<1>3. (CHOOSE i \in DOMAIN Placeholders : Placeholders[i] = Placeholders[j]) = j
    BY <1>1, PlaceholdersAssumption
<1> QED
    BY <1>2, <1>3 DEF Piece, FragmentOf

\* The pieces of a text whose placeholders are known are texts.
LEMMA PiecesTyped ==
    ASSUME NEW text \in Seq(Symbol), NEW cut \in Seq(Seq(Symbol)),
           Len(cut) <= Len(Placeholders), Known(text, Len(cut))
    PROVE  Pieces(text, cut) \in Seq(Seq(Symbol)) /\ Len(Pieces(text, cut)) = Len(text)
<1>1. ASSUME NEW i \in DOMAIN text PROVE Piece(text[i], cut) \in Seq(Symbol)
    <2>1. text[i] \in Symbol
        OBVIOUS
    <2>2. CASE ~IsPlaceholder(text[i])
        <3>1. <<text[i]>> \in Seq(Symbol)
            BY <2>1
        <3> QED
            BY <2>2, <3>1 DEF Piece
    <2>3. CASE IsPlaceholder(text[i])
        <3>1. PICK j \in 1..Len(cut) : text[i] = Placeholders[j]
            BY <2>3 DEF Known
        <3>2. j \in 1..Len(Placeholders)
            BY PlaceholdersTyped
        <3>3. Piece(text[i], cut) = cut[j]
            BY <3>1, <3>2, FragmentByNumber
        <3> QED
            BY <3>3
    <2> QED
        BY <2>2, <2>3
<1>2. DOMAIN text = 1..Len(text) /\ Len(text) \in Nat
    OBVIOUS
<1> QED
    BY <1>1, <1>2 DEF Pieces

\* A symbol that is no placeholder, or one of the first n, adds no unknown one.
LEMMA KnownAppend ==
    ASSUME NEW text \in Seq(Symbol), NEW symbol \in Symbol, NEW n, Known(text, n),
           IsPlaceholder(symbol) => \E j \in 1..n : symbol = Placeholders[j]
    PROVE  Known(Append(text, symbol), n)
<1> SUFFICES ASSUME NEW i \in DOMAIN Append(text, symbol), IsPlaceholder(Append(text, symbol)[i])
             PROVE  \E j \in 1..n : Append(text, symbol)[i] = Placeholders[j]
    BY DEF Known
<1>1. i = Len(text) + 1 \/ i \in DOMAIN text
    BY AppendProperties, LenProperties
<1>2. CASE i = Len(text) + 1
    BY <1>2, AppendProperties
<1>3. CASE i \in DOMAIN text
    <2>1. Append(text, symbol)[i] = text[i]
        BY <1>3, AppendProperties, LenProperties
    <2> QED
        BY <1>3, <2>1 DEF Known
<1> QED
    BY <1>1, <1>2, <1>3

\* One more symbol is restored behind the others.
LEMMA RestoreAppend ==
    ASSUME NEW text \in Seq(Symbol), NEW symbol \in Symbol, NEW cut \in Seq(Seq(Symbol)),
           Len(cut) <= Len(Placeholders), Known(text, Len(cut)), Piece(symbol, cut) \in Seq(Symbol)
    PROVE  /\ Restore(text, cut) \in Seq(Symbol)
           /\ Restore(Append(text, symbol), cut) = Restore(text, cut) \o Piece(symbol, cut)
<1>1. Pieces(text, cut) \in Seq(Seq(Symbol)) /\ Len(Pieces(text, cut)) = Len(text)
    BY PiecesTyped
<1> DEFINE old == Pieces(text, cut)
           new == Pieces(Append(text, symbol), cut)
           piece == Piece(symbol, cut)
<1>2. new = Append(old, piece)
    <2>1. /\ DOMAIN Append(text, symbol) = 1..(Len(text) + 1) /\ Len(text) \in Nat
          /\ Append(text, symbol)[Len(text) + 1] = symbol
          /\ \A i \in 1..Len(text) : Append(text, symbol)[i] = text[i]
        <3> HIDE DEF old, new, piece
        <3> QED
            BY AppendProperties, LenProperties
    <2>2. new = [i \in 1..(Len(text) + 1) |-> new[i]]
        BY <2>1 DEF Pieces
    <2>3. \A i \in 1..(Len(text) + 1) : new[i] = Piece(Append(text, symbol)[i], cut)
        BY <2>1 DEF Pieces
    <2>4. \A i \in 1..Len(text) : old[i] = Piece(text[i], cut)
        BY DEF Pieces
    <2>5. old \in Seq(Seq(Symbol)) /\ Len(old) = Len(text) /\ piece \in Seq(Symbol)
        BY <1>1
    <2> HIDE DEF old, new
    <2>6. Len(text) + 1 \in 1..(Len(text) + 1) /\ 1..Len(text) \subseteq 1..(Len(text) + 1)
        BY <2>1
    <2>7. new[Len(text) + 1] = piece
        BY <2>1, <2>3, <2>6
    <2> HIDE DEF piece
    <2>8. \A i \in 1..Len(text) : new[i] = old[i]
        BY <2>1, <2>3, <2>4, <2>6
    <2>9. new \in Seq(Seq(Symbol)) /\ Len(new) = Len(text) + 1
        <3>1. \A i \in 1..(Len(text) + 1) : i = Len(text) + 1 \/ i \in 1..Len(text)
            BY <2>1
        <3>2. \A i \in 1..(Len(text) + 1) : new[i] \in Seq(Symbol)
            BY <2>5, <2>7, <2>8, <3>1, ElementOfSeq
        <3> QED
            BY <2>1, <2>2, <3>2
    <2> QED
        BY <2>5, <2>7, <2>8, <2>9, AppendOf
<1>3. old \in Seq(Seq(Symbol)) /\ piece \in Seq(Symbol)
    BY <1>1
<1>4. Restore(text, cut) = FlattenSeq(old) /\ Restore(Append(text, symbol), cut) = FlattenSeq(new)
    BY RestorePieces
<1> HIDE DEF old, new, piece
<1>5. FlattenSeq(old) \in Seq(Symbol) /\ FlattenSeq(Append(old, piece)) = FlattenSeq(old) \o piece
    BY <1>3, FlattenAppend
<1> QED
    BY <1>2, <1>4, <1>5 DEF piece

\* Nothing is restored to nothing.
LEMMA RestoreNothing == Restore(<<>>, <<>>) = <<>>
<1>1. Pieces(<<>>, <<>>) = <<>>
    <2>1. Len(Pieces(<<>>, <<>>)) = 0
        BY DEF Pieces
    <2> QED
        BY EmptySeq DEF Pieces
<1> QED
    BY <1>1, RestorePieces DEF FlattenSeq

\* A placeholder that is added is restored to its fragment, and the others stay what they are.
LEMMA RestoreAdd ==
    ASSUME NEW text \in Seq(Symbol), NEW cut \in Seq(Seq(Symbol)), NEW fragment \in Seq(Symbol),
           Len(cut) < Len(Placeholders), Known(text, Len(cut))
    PROVE  Restore(Append(text, Placeholders[Len(cut) + 1]), Append(cut, fragment))
               = Restore(text, cut) \o fragment
<1> DEFINE longer == Append(cut, fragment)
<1>1. /\ longer \in Seq(Seq(Symbol)) /\ Len(longer) = Len(cut) + 1 /\ Len(cut) \in Nat
      /\ longer[Len(cut) + 1] = fragment /\ \A j \in 1..Len(cut) : longer[j] = cut[j]
    OBVIOUS
<1>2. Len(Placeholders) \in Nat
    BY PlaceholdersTyped
<1>3. Len(cut) + 1 \in 1..Len(Placeholders) /\ Placeholders[Len(cut) + 1] \in Symbol
    BY <1>1, <1>2, PlaceholdersTyped
<1> HIDE DEF longer
<1>4. Piece(Placeholders[Len(cut) + 1], longer) = fragment
    BY <1>1, <1>3, FragmentByNumber
<1>5. Pieces(text, longer) = Pieces(text, cut)
    <2>1. ASSUME NEW i \in DOMAIN text PROVE Piece(text[i], longer) = Piece(text[i], cut)
        <3>1. CASE ~IsPlaceholder(text[i])
            BY <3>1 DEF Piece
        <3>2. CASE IsPlaceholder(text[i])
            <4>1. PICK j \in 1..Len(cut) : text[i] = Placeholders[j]
                BY <3>2 DEF Known
            <4>2. j \in 1..Len(Placeholders)
                BY <1>1, <1>2
            <4> QED
                BY <1>1, <4>1, <4>2, FragmentByNumber
        <3> QED
            BY <3>1, <3>2
    <2> QED
        BY <2>1 DEF Pieces
<1>6. Restore(text, longer) = Restore(text, cut)
    BY <1>5, RestorePieces
<1>7. Known(text, Len(longer))
    <2>1. \A j \in 1..Len(cut) : j \in 1..Len(longer)
        BY <1>1
    <2> QED
        BY <2>1 DEF Known
<1>8. Len(longer) <= Len(Placeholders)
    BY <1>1, <1>2
<1> QED
    BY <1>1, <1>3, <1>4, <1>6, <1>7, <1>8, RestoreAppend DEF longer

\* A symbol that is no placeholder is restored to itself.
LEMMA RestoreSymbol ==
    ASSUME NEW text \in Seq(Symbol), NEW symbol \in Symbol, NEW cut \in Seq(Seq(Symbol)),
           Len(cut) <= Len(Placeholders), Known(text, Len(cut)), ~IsPlaceholder(symbol)
    PROVE  /\ Restore(text, cut) \in Seq(Symbol)
           /\ Restore(Append(text, symbol), cut) = Append(Restore(text, cut), symbol)
<1>1. Piece(symbol, cut) = <<symbol>>
    BY DEF Piece
<1>2. <<symbol>> \in Seq(Symbol)
    OBVIOUS
<1>3. /\ Restore(text, cut) \in Seq(Symbol)
      /\ Restore(Append(text, symbol), cut) = Restore(text, cut) \o <<symbol>>
    BY <1>1, <1>2, RestoreAppend
<1>4. PICK restored \in Seq(Symbol) : restored = Restore(text, cut)
    BY <1>3
<1>5. restored \o <<symbol>> = Append(restored, symbol)
    OBVIOUS
<1> QED
    BY <1>3, <1>4, <1>5

\* A text without placeholders is restored to itself, behind what was there before.
LEMMA RestoreRaw ==
    ASSUME NEW text \in Seq(Symbol), NEW raw \in Seq(Symbol), NEW cut \in Seq(Seq(Symbol)),
           Len(cut) <= Len(Placeholders), Known(text, Len(cut)), Plain(raw)
    PROVE  /\ Known(text \o raw, Len(cut))
           /\ Restore(text \o raw, cut) = Restore(text, cut) \o raw
<1>0. Len(raw) \in Nat /\ Restore(text, cut) \in Seq(Symbol)
    <2>1. <<>> \in Seq(Symbol) /\ FlattenSeq(Pieces(text, cut)) \in Seq(Symbol)
        BY PiecesTyped, FlattenAppend, EmptySeq
    <2> QED
        BY <2>1, RestorePieces, LenProperties
<1>1. PICK restored \in Seq(Symbol) : restored = Restore(text, cut)
    BY <1>0
<1> DEFINE Raw(m) == SubSeq(raw, 1, m)
           P == {m \in Nat : m <= Len(raw) =>
                     /\ Known(text \o Raw(m), Len(cut))
                     /\ Restore(text \o Raw(m), cut) = restored \o Raw(m)}
<1>2. 0 \in P
    <2>1. Raw(0) = <<>>
        BY SubSeqEmpty
    <2>2. text \o <<>> = text /\ restored \o <<>> = restored
        BY ConcatEmptySeq
    <2> HIDE DEF Raw
    <2> QED
        BY <1>1, <2>1, <2>2
<1>3. ASSUME NEW m \in Nat, m \in P PROVE m + 1 \in P
    <2> SUFFICES ASSUME m + 1 <= Len(raw)
                 PROVE  /\ Known(text \o Raw(m + 1), Len(cut))
                        /\ Restore(text \o Raw(m + 1), cut) = restored \o Raw(m + 1)
        OBVIOUS
    <2>1. m + 1 \in 1..Len(raw) /\ raw[m + 1] \in Symbol /\ ~IsPlaceholder(raw[m + 1])
        BY <1>0, ElementOfSeq, LenProperties DEF Plain
    <2>2. PICK symbol \in Symbol : symbol = raw[m + 1]
        BY <2>1
    <2>3. Raw(m) \in Seq(Symbol)
        <3>1. \A i \in 1..m : raw[i] \in Symbol
            BY <2>1, ElementOfSeq
        <3> QED
            BY <3>1, SubSeqProperties
    <2>4. Raw(m + 1) = Raw(m) \o <<symbol>>
        BY <2>1, <2>2, SubSeqRecursiveSecond
    <2>5. Known(text \o Raw(m), Len(cut)) /\ Restore(text \o Raw(m), cut) = restored \o Raw(m)
        BY <1>0, <1>3
    <2> HIDE DEF Raw, P
    <2>6. PICK read \in Seq(Symbol) : read = Raw(m)
        BY <2>3
    <2>7. Raw(m + 1) = Append(read, symbol)
        BY <2>4, <2>6, AppendIsConcat
    <2>11. PICK longer \in Seq(Symbol) : longer = text \o read
        BY ConcatProperties
    <2>8. Known(longer, Len(cut)) /\ Restore(longer, cut) = restored \o read
        BY <2>5, <2>6, <2>11
    <2>9. ~IsPlaceholder(symbol)
        BY <2>1, <2>2
    <2>10. Append(longer, symbol) = text \o Raw(m + 1)
        <3>1. Append(text \o read, symbol) = text \o Append(read, symbol)
            BY ConcatAppend, Zenon
        <3> QED
            BY <2>7, <2>11, <3>1, Zenon
    <2>12. Append(restored \o read, symbol) = restored \o Raw(m + 1)
        <3>1. Append(restored \o read, symbol) = restored \o Append(read, symbol)
            BY ConcatAppend, Zenon
        <3> QED
            BY <2>7, <3>1, Zenon
    <2>13. Known(Append(longer, symbol), Len(cut))
        BY <2>8, <2>9, KnownAppend
    <2>14. Restore(Append(longer, symbol), cut) = Append(Restore(longer, cut), symbol)
        BY <2>8, <2>9, RestoreSymbol
    <2> QED
        BY <2>8, <2>10, <2>12, <2>13, <2>14, Zenon
<1>4. Nat \subseteq P
    <2> HIDE DEF P
    <2> QED
        BY <1>2, <1>3, Induction
<1>5. Raw(Len(raw)) = raw
    BY SubSeqFull
<1> HIDE DEF Raw
<1>6. Len(raw) \in P
    <2> HIDE DEF P
    <2> QED
        BY <1>0, <1>4
<1> QED
    BY <1>0, <1>1, <1>5, <1>6

-------------------------------------------------------------------------------
(* The inductive invariant. *)

\* The variables keep to their types, whatever a fragment that was rewritten looks like.
ScanTyped ==
    /\ Readable
    /\ options \in Options
    /\ index \in 1..(Len(input) + 1) /\ start \in 1..(Len(input) + 1)
    /\ inside \in {"code", "name", "literal", "line", "block"}
    /\ depth \in Nat /\ depth < index
    /\ output \in Seq(Symbol)
    /\ fragments \in Seq(ToSet(fragments))

\* A fragment begins with a symbol of its own, so that the placeholders last.
Counted ==
    /\ inside = "code" => Len(fragments) <= Cardinality(OpenersIn(input, index - 1))
    /\ inside # "code" => Len(fragments) < Cardinality(OpenersIn(input, start))

\* Where the fragment that is being read begins.
Opened ==
    /\ inside # "code" => start < index /\ input[start] \in Openers
    /\ inside = "name" => input[start] \in Delimiters
    /\ inside = "literal" => input[start] = "'"

\* No placeholder is written before it has its fragment.
OutputKnown == Known(output, Len(fragments))

\* A symbol that is about to be copied does not open a comment with the last one written.
NothingOpens ==
    options.protectNames /\ inside = "code" /\ Len(output) # 0 /\ index \in DOMAIN input =>
        ~OpensComment(output[Len(output)], input[index])

\* With a part of the text in the place of each placeholder, what was written is the text
\* before a position.
ReadUpTo(position, raw) ==
    /\ raw \in Seq(Segments) /\ Len(raw) = Len(fragments)
    /\ \A i \in 1..Len(fragments) : Normalises(raw[i], fragments[i])
    /\ Restore(output, raw) = SubSeq(input, 1, position - 1)
    /\ Unaltered => raw = fragments

\* The prefix of a literal has been passed over, and belongs to it.
PrefixAt(position) ==
    /\ inside = "literal" /\ options.national /\ ~Unaltered
    /\ position = start - 1 /\ position \in DOMAIN input /\ input[position] = "N"

\* Up to where the text was written: to the next symbol, or to where the fragment began.
WrittenUpTo(position) ==
    IF inside = "code" THEN position = index ELSE position = start \/ PrefixAt(position)

Reassembled == \E position, raw : WrittenUpTo(position) /\ ReadUpTo(position, raw)

ScanInv ==
    /\ ScanTyped /\ Counted /\ Opened
    /\ OutputKnown /\ NothingLeftToProtect /\ NothingOpens
    /\ Reassembled

-------------------------------------------------------------------------------
(* Openers. *)

\* There are as many openers among the first symbols at the most as there are symbols.
LEMMA OpenersFinite ==
    ASSUME NEW text, NEW n \in Nat
    PROVE  /\ IsFiniteSet(OpenersIn(text, n))
           /\ Cardinality(OpenersIn(text, n)) \in Nat
           /\ Cardinality(OpenersIn(text, n)) <= n
<1>1. IsFiniteSet(1..n) /\ Cardinality(1..n) = n
    BY FS_Interval
<1>2. OpenersIn(text, n) \subseteq 1..n
    BY DEF OpenersIn
<1>3. IsFiniteSet(OpenersIn(text, n)) /\ Cardinality(OpenersIn(text, n)) <= Cardinality(1..n)
    BY <1>1, <1>2, FS_Subset
<1> QED
    BY <1>1, <1>3, FS_CardinalityType

\* With more symbols there are no fewer.
LEMMA OpenersGrow ==
    ASSUME NEW text, NEW m \in Nat, NEW n \in Nat, m <= n
    PROVE  Cardinality(OpenersIn(text, m)) <= Cardinality(OpenersIn(text, n))
<1>1. OpenersIn(text, m) \subseteq OpenersIn(text, n)
    BY DEF OpenersIn
<1> QED
    BY <1>1, OpenersFinite, FS_Subset

\* One more opener counts.
LEMMA OpenersNext ==
    ASSUME NEW text, NEW n \in Nat, NEW k \in 1..n, text[k] \in Openers
    PROVE  Cardinality(OpenersIn(text, k - 1)) < Cardinality(OpenersIn(text, n))
<1>1. /\ IsFiniteSet(OpenersIn(text, k - 1)) /\ Cardinality(OpenersIn(text, k - 1)) \in Nat
      /\ IsFiniteSet(OpenersIn(text, n)) /\ Cardinality(OpenersIn(text, n)) \in Nat
    BY OpenersFinite
<1>2. OpenersIn(text, k - 1) \cup {k} \subseteq OpenersIn(text, n) /\ k \notin OpenersIn(text, k - 1)
    BY DEF OpenersIn
<1>3. /\ IsFiniteSet(OpenersIn(text, k - 1) \cup {k})
      /\ Cardinality(OpenersIn(text, k - 1) \cup {k}) = Cardinality(OpenersIn(text, k - 1)) + 1
    BY <1>1, <1>2, FS_AddElement
<1>4. Cardinality(OpenersIn(text, k - 1) \cup {k}) <= Cardinality(OpenersIn(text, n))
    BY <1>1, <1>2, FS_Subset
<1> QED
    BY <1>1, <1>3, <1>4

-------------------------------------------------------------------------------
(* The steps. *)

\* While the text stays the same, so does what is to be said about it.
LEMMA SameText ==
    ASSUME UNCHANGED <<input, options>>
    PROVE  /\ Readable' <=> Readable
           /\ Unaltered' <=> Unaltered
           /\ Segments' = Segments
<1>1. Readable' <=> Readable
    BY DEF Readable, IsPlaceholder
<1>2. \A i : National(i)' <=> National(i)
    BY DEF National, AtPair, At
<1>3. Unaltered' <=> Unaltered
    BY <1>2 DEF Unaltered
<1>4. Segments' = Segments
    BY DEF Segments
<1> QED
    BY <1>1, <1>3, <1>4

\* What was written stays written while the scanner only moves.
LEMMA StillWritten ==
    ASSUME Reassembled, UNCHANGED <<input, options, output, fragments>>,
           \A position : WrittenUpTo(position) => WrittenUpTo(position)'
    PROVE  Reassembled'
<1>1. PICK position, raw : WrittenUpTo(position) /\ ReadUpTo(position, raw)
    BY DEF Reassembled
<1>2. \A x, y : Normalises(x, y)' <=> Normalises(x, y)
    BY DEF Normalises
<1>3. ReadUpTo(position, raw)'
    BY <1>1, <1>2, SameText DEF ReadUpTo, Restore
<1> QED
    BY <1>1, <1>3 DEF Reassembled

\* A fragment is entered.
LEMMA EnterKeeps ==
    ASSUME ScanInv, inside = "code", NEW kind \in {"name", "literal", "line", "block"},
           NEW first \in {index, index + 1}, NEW length \in 1..2,
           Enter(kind, first, length), first + length <= Len(input) + 1,
           input[first] \in Openers, kind = "name" => input[first] \in Delimiters,
           kind = "literal" => input[first] = "'",
           first # index =>
               kind = "literal" /\ options.national /\ input[index] = "N" /\ ~Unaltered,
           depth' \in Nat, depth' <= depth + 1
    PROVE  ScanInv'
<1>1. /\ ScanTyped /\ Counted /\ Opened /\ OutputKnown /\ NothingLeftToProtect /\ Reassembled
      /\ Len(input) \in Nat /\ index \in Nat /\ Len(input) \in Nat
    BY LenProperties DEF ScanInv, ScanTyped, Readable
<1>2. /\ inside' = kind /\ start' = first /\ index' = first + length
      /\ UNCHANGED <<input, options, output, fragments>>
    BY DEF Enter
<1>3. first \in 1..Len(input) /\ first \in Nat /\ first + length \in 1..(Len(input) + 1)
    BY <1>1 DEF ScanTyped
<1>4. ScanTyped'
    <2>1. depth' \in Nat /\ depth' < index'
        BY <1>1, <1>2, <1>3 DEF ScanTyped
    <2> QED
        BY <1>1, <1>2, <1>3, <2>1, SameText DEF ScanTyped
<1>5. Counted'
    <2>1. Len(fragments) <= Cardinality(OpenersIn(input, index - 1)) /\ Len(fragments) \in Nat
        BY <1>1, LenProperties DEF Counted, ScanTyped
    <2>2. index - 1 \in Nat /\ index - 1 <= first - 1 /\ first - 1 \in Nat
        BY <1>1, <1>3 DEF ScanTyped
    <2>3. Cardinality(OpenersIn(input, first - 1)) < Cardinality(OpenersIn(input, first))
        BY <1>3, OpenersNext
    <2>4. Cardinality(OpenersIn(input, index - 1)) <= Cardinality(OpenersIn(input, first - 1))
        BY <2>2, OpenersGrow
    <2>5. Len(fragments) < Cardinality(OpenersIn(input, first))
        BY <1>3, <2>1, <2>2, <2>3, <2>4, OpenersFinite
    <2> QED
        BY <1>2, <2>5 DEF Counted
<1>6. Opened'
    BY <1>2, <1>3 DEF Opened
<1>7. OutputKnown' /\ NothingLeftToProtect' /\ NothingOpens'
    BY <1>1, <1>2 DEF OutputKnown, NothingLeftToProtect, NothingOpens
<1>8. Reassembled'
    <2>1. ASSUME NEW position, WrittenUpTo(position) PROVE WrittenUpTo(position)'
        <3>1. position = index
            BY <2>1 DEF WrittenUpTo
        <3>2. CASE first = index
            BY <1>2, <3>1, <3>2 DEF WrittenUpTo
        <3>3. CASE first # index
            <4>1. index = first - 1 /\ index \in DOMAIN input /\ ~Unaltered'
                BY <1>1, <1>2, <1>3, <3>3, SameText, LenProperties DEF ScanTyped, Readable
            <4> QED
                BY <1>2, <3>1, <3>3, <4>1 DEF WrittenUpTo, PrefixAt
        <3> QED
            BY <3>2, <3>3
    <2> QED
        BY <1>1, <1>2, <2>1, StillWritten
<1> QED
    BY <1>4, <1>5, <1>6, <1>7, <1>8 DEF ScanInv

\* The scanner goes on in a fragment.
LEMMA MoveKeeps ==
    ASSUME ScanInv, inside # "code", NEW length \in 1..2, Move(length),
           index + length <= Len(input) + 1, depth' \in Nat, depth' <= depth + 1
    PROVE  ScanInv'
<1>1. /\ ScanTyped /\ Counted /\ Opened /\ OutputKnown /\ NothingLeftToProtect /\ Reassembled
      /\ Len(input) \in Nat /\ index \in Nat
    BY LenProperties DEF ScanInv, ScanTyped, Readable
<1>2. index' = index + length /\ UNCHANGED <<input, options, start, inside, output, fragments>>
    BY DEF Move
<1>3. ScanTyped'
    <2>1. depth' < index' /\ index' \in 1..(Len(input) + 1)
        BY <1>1, <1>2 DEF ScanTyped
    <2> QED
        BY <1>1, <1>2, <2>1, SameText DEF ScanTyped
<1>4. Counted'
    BY <1>1, <1>2 DEF Counted
<1>5. Opened'
    <2>1. start < index'
        BY <1>1, <1>2 DEF Opened, ScanTyped
    <2> QED
        BY <1>1, <1>2, <2>1 DEF Opened
<1>6. OutputKnown' /\ NothingLeftToProtect' /\ NothingOpens'
    BY <1>1, <1>2 DEF OutputKnown, NothingLeftToProtect, NothingOpens
<1>7. Reassembled'
    <2>1. ASSUME NEW position, WrittenUpTo(position) PROVE WrittenUpTo(position)'
        BY <1>2, <2>1, SameText DEF WrittenUpTo, PrefixAt
    <2> QED
        BY <1>1, <1>2, <2>1, StillWritten
<1> QED
    BY <1>3, <1>4, <1>5, <1>6, <1>7 DEF ScanInv

\* A part of the text, in which no placeholder occurs, and what stands before it.
LEMMA PartOfText ==
    ASSUME ScanTyped, NEW k \in 1..Len(input), NEW last \in k..Len(input)
    PROVE  /\ SubSeq(input, k, last) \in Segments /\ SubSeq(input, k, last) \in Seq(Symbol)
           /\ Plain(SubSeq(input, k, last))
           /\ Len(SubSeq(input, k, last)) = last - k + 1
           /\ \A i \in 1..(last - k + 1) : SubSeq(input, k, last)[i] = input[k + i - 1]
           /\ SubSeq(input, 1, k - 1) \o SubSeq(input, k, last) = SubSeq(input, 1, last)
<1>1. /\ input \in Seq(Symbol) /\ Len(input) \in Nat /\ DOMAIN input = 1..Len(input)
      /\ \A i \in 1..Len(input) : ~IsPlaceholder(input[i])
    BY LenProperties DEF ScanTyped, Readable
<1>2. \A i \in k..last : i \in 1..Len(input) /\ input[i] \in Symbol
    BY <1>1, ElementOfSeq
<1>3. /\ SubSeq(input, k, last) \in Seq(Symbol)
      /\ Len(SubSeq(input, k, last)) = last - k + 1
      /\ \A i \in 1..(last - k + 1) : SubSeq(input, k, last)[i] = input[k + i - 1]
    <2>1. k \in Int /\ last \in Int /\ k <= last + 1
        BY <1>1
    <2>2. (IF k <= last THEN last - k + 1 ELSE 0) = last - k + 1
        OBVIOUS
    <2> QED
        BY <1>2, <2>1, <2>2, SubSeqProperties
<1>4. Plain(SubSeq(input, k, last))
    <2> SUFFICES ASSUME NEW i \in 1..(last - k + 1)
                 PROVE  ~IsPlaceholder(SubSeq(input, k, last)[i])
        <3>1. DOMAIN SubSeq(input, k, last) = 1..(last - k + 1)
            BY <1>3, LenProperties
        <3> QED
            BY <3>1 DEF Plain
    <2>1. k + i - 1 \in 1..Len(input)
        BY <1>1
    <2> QED
        BY <1>1, <1>3, <2>1
<1>5. SubSeq(input, 1, k - 1) \o SubSeq(input, k, last) = SubSeq(input, 1, last)
    <2>1. /\ 1 \in 1..(Len(input) + 1) /\ k - 1 \in 0..Len(input) /\ last \in 0..Len(input)
          /\ k - 1 + 1 = k /\ 1 <= k - 1 + 1 /\ k - 1 <= last
        BY <1>1
    <2> QED
        BY <1>1, <2>1, ConcatAdjacentSubSeq
<1>6. SubSeq(input, k, last) \in Segments
    BY <1>1 DEF Segments
<1> QED
    BY <1>3, <1>4, <1>5, <1>6

\* Parts of a text are texts.
LEMMA SegmentsTyped ==
    ASSUME ScanTyped
    PROVE  Segments \subseteq Seq(Symbol)
<1>1. input \in Seq(Symbol) /\ DOMAIN input = 1..Len(input) /\ Len(input) \in Nat
    BY LenProperties DEF ScanTyped, Readable
<1>2. ASSUME NEW i \in 1..Len(input), NEW j \in 1..Len(input) PROVE SubSeq(input, i, j) \in Seq(Symbol)
    <2>1. CASE i <= j
        <3>1. j \in i..Len(input)
            BY <1>1, <2>1
        <3> QED
            BY <3>1, PartOfText
    <2>2. CASE j < i
        BY <1>1, <2>2, SubSeqEmpty, EmptySeq
    <2> QED
        BY <2>1, <2>2
<1> SUFFICES ASSUME NEW part \in Segments PROVE part \in Seq(Symbol)
    OBVIOUS
<1>3. PICK i \in DOMAIN input, j \in DOMAIN input : part = SubSeq(input, i, j)
    BY DEF Segments
<1> QED
    BY <1>1, <1>2, <1>3

\* A sequence is one of its elements, with what is appended to it, too.
LEMMA AppendToAny ==
    ASSUME NEW s, s \in Seq(ToSet(s)), NEW x
    PROVE  /\ Append(s, x) \in Seq(ToSet(Append(s, x)))
           /\ Len(Append(s, x)) = Len(s) + 1 /\ Len(s) \in Nat
<1> DEFINE T == ToSet(s) \cup {x}
<1>1. s \in Seq(T)
    <2>1. \A i \in 1..Len(s) : s[i] \in T
        BY ElementOfSeq
    <2>2. Len(s) \in Nat /\ s = [i \in 1..Len(s) |-> s[i]]
        BY LenProperties
    <2> HIDE DEF T
    <2> QED
        BY <2>1, <2>2
<1>2. x \in T
    OBVIOUS
<1> HIDE DEF T
<1>3. Append(s, x) \in Seq(T) /\ Len(Append(s, x)) = Len(s) + 1 /\ Len(s) \in Nat
    BY <1>1, <1>2, AppendProperties, LenProperties
<1>4. PICK t \in Seq(T) : t = Append(s, x)
    BY <1>3
<1>5. t \in Seq(ToSet(t))
    <2>1. \A i \in 1..Len(t) : t[i] \in ToSet(t)
        BY LenProperties DEF ToSet
    <2>2. Len(t) \in Nat /\ t = [i \in 1..Len(t) |-> t[i]]
        BY LenProperties
    <2> QED
        BY <2>1, <2>2
<1> QED
    BY <1>3, <1>4, <1>5

\* A placeholder is one of the first fragments' once they are one more.
LEMMA KnownMore ==
    ASSUME NEW text \in Seq(Symbol), NEW n \in Nat, n < Len(Placeholders), Known(text, n)
    PROVE  Known(Append(text, Placeholders[n + 1]), n + 1)
<1>1. n + 1 \in 1..Len(Placeholders) /\ Placeholders[n + 1] \in Symbol
    BY PlaceholdersTyped
<1>2. Known(text, n + 1)
    <2>1. \A j \in 1..n : j \in 1..(n + 1)
        OBVIOUS
    <2> QED
        BY <2>1 DEF Known
<1>3. \E j \in 1..(n + 1) : Placeholders[n + 1] = Placeholders[j]
    OBVIOUS
<1> QED
    BY <1>1, <1>2, <1>3, KnownAppend

\* What NothingLeftToProtect says of the text that was written.
IsCode(text) ==
    /\ \A i \in 1..Len(text) : text[i] \notin Quoting
    /\ \A i \in 1..(Len(text) - 1) : ~OpensComment(text[i], text[i + 1])

\* A symbol that opens nothing, alone or with the last one, leaves code.
LEMMA CodeAppend ==
    ASSUME NEW text \in Seq(Symbol), NEW symbol \in Symbol, IsCode(text),
           symbol \notin Quoting,
           Len(text) # 0 => ~OpensComment(text[Len(text)], symbol)
    PROVE  IsCode(Append(text, symbol))
<1>1. PICK n \in Nat : n = Len(text)
    BY LenProperties
<1>2. PICK longer \in Seq(Symbol) :
          /\ longer = Append(text, symbol)
          /\ Len(longer) = n + 1 /\ longer[n + 1] = symbol
          /\ \A i \in 1..n : longer[i] = text[i]
    <2>1. /\ Append(text, symbol) \in Seq(Symbol) /\ Len(Append(text, symbol)) = Len(text) + 1
          /\ Append(text, symbol)[Len(text) + 1] = symbol
          /\ \A i \in 1..Len(text) : Append(text, symbol)[i] = text[i]
        BY AppendProperties
    <2> QED
        BY <1>1, <2>1
<1>4. ASSUME NEW i \in 1..(n + 1) PROVE longer[i] \notin Quoting
    <2>1. i = n + 1 \/ i \in 1..n
        OBVIOUS
    <2> QED
        BY <1>1, <1>2, <2>1 DEF IsCode
<1>5. ASSUME NEW i \in 1..n
      PROVE  ~OpensComment(longer[i], longer[i + 1])
    <2>1. CASE i = n
        <3>1. longer[i] = text[Len(text)] /\ longer[i + 1] = symbol /\ n # 0
            BY <1>1, <1>2, <2>1
        <3> QED
            BY <1>1, <3>1
    <2>2. CASE i # n
        <3>1. i \in 1..(n - 1) /\ i + 1 \in 1..n
            BY <2>2
        <3>2. longer[i] = text[i] /\ longer[i + 1] = text[i + 1]
            BY <1>2, <3>1
        <3> QED
            BY <1>1, <3>1, <3>2 DEF IsCode
    <2> QED
        BY <2>1, <2>2
<1>6. n + 1 - 1 = n
    OBVIOUS
<1> QED
    BY <1>2, <1>4, <1>5, <1>6 DEF IsCode

\* There is a placeholder for every fragment.
LEMMA FragmentsFit ==
    ASSUME ScanTyped, Counted, Opened
    PROVE  Len(fragments) <= Len(Placeholders) /\ Len(fragments) <= Len(input)
<1>1. /\ Len(input) \in Nat /\ Len(fragments) \in Nat /\ Len(Placeholders) \in Nat
      /\ index \in 1..(Len(input) + 1) /\ start \in 1..(Len(input) + 1)
      /\ Cardinality(OpenersIn(input, Len(input))) <= Len(Placeholders)
    BY LenProperties, PlaceholdersTyped DEF ScanTyped, Readable
<1>2. PICK n \in Nat : Len(fragments) <= Cardinality(OpenersIn(input, n)) /\ n <= Len(input)
    <2>1. CASE inside = "code"
        <3>1. index - 1 \in Nat /\ index - 1 <= Len(input)
            BY <1>1
        <3> QED
            BY <2>1, <3>1 DEF Counted
    <2>2. CASE inside # "code"
        <3>0. start <= Len(input)
            BY <1>1, <2>2 DEF Opened
        <3>1. start \in Nat /\ Cardinality(OpenersIn(input, start)) \in Nat
            BY <1>1, OpenersFinite
        <3>2. Len(fragments) < Cardinality(OpenersIn(input, start))
            BY <2>2 DEF Counted
        <3>3. Len(fragments) <= Cardinality(OpenersIn(input, start))
            BY <1>1, <3>1, <3>2
        <3> QED
            BY <3>0, <3>1, <3>3
    <2> QED
        BY <2>1, <2>2
<1>3. Cardinality(OpenersIn(input, n)) <= Cardinality(OpenersIn(input, Len(input)))
    BY <1>1, <1>2, OpenersGrow
<1>4. /\ Cardinality(OpenersIn(input, n)) \in Nat
      /\ Cardinality(OpenersIn(input, Len(input))) \in Nat
      /\ Cardinality(OpenersIn(input, Len(input))) <= Len(input)
    BY <1>1, OpenersFinite
<1> QED
    BY <1>1, <1>2, <1>3, <1>4

\* A part of a text, one symbol longer at its beginning.
LEMMA ReadFromNext ==
    ASSUME NEW text \in Seq(Symbol), NEW k \in 1..Len(text), NEW last \in k..Len(text)
    PROVE  SubSeq(text, k, last) = <<text[k]>> \o SubSeq(text, k + 1, last)
BY LenProperties, SubSeqRecursiveFirst

\* A fragment is left for a placeholder.
LEMMA AddKeeps ==
    ASSUME ScanInv, inside # "code", NEW fragment, Add(fragment),
           inside' = "code", UNCHANGED <<input, options, start, depth>>,
           NEW last \in Nat, index' = last + 1, index <= last + 1, last <= Len(input),
           \/ fragment = SubSeq(input, start, last)
           \/ /\ inside = "name" /\ options.normalizeNames /\ fragment = Requoted(SubSeq(input, start, last))
              /\ input[start] = "[" /\ start < last /\ input[last] = "]"
    PROVE  ScanInv'
<1>1. /\ ScanTyped /\ Counted /\ Opened /\ OutputKnown /\ NothingLeftToProtect /\ Reassembled
      /\ Len(input) \in Nat /\ index \in Nat /\ start \in Nat
    BY LenProperties DEF ScanInv, ScanTyped, Readable
<1>2. /\ output' = Append(output, Placeholders[Len(fragments) + 1])
      /\ fragments' = Append(fragments, fragment)
    BY DEF Add
<1>3. /\ fragments' \in Seq(ToSet(fragments')) /\ Len(fragments') = Len(fragments) + 1
      /\ Len(fragments) \in Nat
    <2>1. fragments \in Seq(ToSet(fragments))
        BY <1>1 DEF ScanTyped
    <2> QED
        BY <1>2, <2>1, AppendToAny
<1>4. start < index /\ input[start] \in Openers /\ start \in 1..Len(input)
    BY <1>1 DEF Opened, ScanTyped
<1>5. /\ Len(fragments) < Cardinality(OpenersIn(input, start))
      /\ Cardinality(OpenersIn(input, start)) <= Cardinality(OpenersIn(input, last))
      /\ Cardinality(OpenersIn(input, start)) <= Cardinality(OpenersIn(input, Len(input)))
      /\ Cardinality(OpenersIn(input, Len(input))) <= Len(Placeholders)
    <2>1. start \in Nat /\ last \in Nat /\ start <= last /\ start <= Len(input)
        BY <1>1, <1>4
    <2>2. Cardinality(OpenersIn(input, start)) <= Cardinality(OpenersIn(input, last))
        BY <2>1, OpenersGrow
    <2>3. Cardinality(OpenersIn(input, start)) <= Cardinality(OpenersIn(input, Len(input)))
        BY <1>1, <2>1, OpenersGrow
    <2> QED
        BY <1>1, <2>2, <2>3 DEF Counted, ScanTyped, Readable
<1>6. Len(fragments) < Len(Placeholders) /\ Len(fragments) + 1 <= Cardinality(OpenersIn(input, last))
    <2>1. /\ Cardinality(OpenersIn(input, start)) \in Nat
          /\ Cardinality(OpenersIn(input, Len(input))) \in Nat
          /\ Cardinality(OpenersIn(input, last)) \in Nat
        BY <1>1, OpenersFinite
    <2> QED
        BY <1>3, <1>5, <2>1, PlaceholdersTyped
<1>7. PICK placeholder \in Symbol :
          /\ placeholder = Placeholders[Len(fragments) + 1]
          /\ placeholder \notin Openers \cup {"*"}
    <2>1. Len(fragments) + 1 \in 1..Len(Placeholders)
        BY <1>3, <1>6, PlaceholdersTyped
    <2> QED
        BY <2>1, PlaceholdersTyped, PlaceholdersAssumption
<1>8. output \in Seq(Symbol)
    BY <1>1 DEF ScanTyped
<1>16. output' \in Seq(Symbol)
    BY <1>2, <1>7, <1>8, AppendProperties
<1>9. ScanTyped'
    <2>1. depth' \in Nat /\ depth' < index' /\ index' \in 1..(Len(input) + 1)
        BY <1>1 DEF ScanTyped
    <2> QED
        BY <1>1, <1>3, <1>16, <2>1, SameText DEF ScanTyped
<1>10. Counted'
    BY <1>3, <1>6 DEF Counted
<1>11. Opened'
    BY DEF Opened
<1>12. OutputKnown'
    BY <1>1, <1>2, <1>3, <1>6, <1>8, KnownMore DEF OutputKnown
<1>13. NothingLeftToProtect'
    <2> SUFFICES ASSUME options.protectNames PROVE IsCode(output')
        <3>1. DOMAIN output' = 1..Len(output')
            BY <1>16, LenProperties
        <3> QED
            BY <3>1 DEF NothingLeftToProtect, IsCode
    <2>1. IsCode(output)
        <3>1. DOMAIN output = 1..Len(output)
            BY <1>8, LenProperties
        <3> QED
            BY <1>1, <3>1 DEF NothingLeftToProtect, IsCode
    <2>2. \A symbol : ~OpensComment(symbol, placeholder)
        BY <1>7 DEF OpensComment, Openers
    <2>3. placeholder \notin Quoting
        BY <1>7 DEF Openers
    <2> QED
        BY <1>2, <1>7, <1>8, <2>1, <2>2, <2>3, CodeAppend
<1>14. NothingOpens'
    <2>1. /\ Append(output, placeholder)[Len(output) + 1] = placeholder
          /\ Len(Append(output, placeholder)) = Len(output) + 1
        BY <1>8, AppendProperties
    <2>2. output'[Len(output')] = placeholder
        BY <1>2, <1>7, <2>1
    <2> QED
        BY <1>7, <2>2 DEF NothingOpens, OpensComment, Openers
<1>15. Reassembled'
    <2>1. PICK position, raw : WrittenUpTo(position) /\ ReadUpTo(position, raw)
        BY <1>1 DEF Reassembled
    <2>2. position \in 1..Len(input) /\ last \in position..Len(input) /\ position <= start
        <3>1. position = start \/ (position = start - 1 /\ position \in DOMAIN input)
            BY <2>1 DEF WrittenUpTo, PrefixAt
        <3>2. DOMAIN input = 1..Len(input) /\ start <= last
            BY <1>1, <1>4, LenProperties DEF ScanTyped, Readable
        <3> QED
            BY <1>1, <1>4, <3>1, <3>2
    <2>3. PICK part \in Segments :
              /\ part = SubSeq(input, position, last) /\ part \in Seq(Symbol)
              /\ SubSeq(input, 1, position - 1) \o part = SubSeq(input, 1, last)
        BY <1>1, <2>2, PartOfText
    <2>4. raw \in Seq(Segments) /\ raw \in Seq(Seq(Symbol)) /\ Len(raw) = Len(fragments)
        <3>1. raw \in Seq(Segments) /\ Segments \subseteq Seq(Symbol)
            BY <1>1, <2>1, SegmentsTyped DEF ReadUpTo
        <3> QED
            BY <2>1, <3>1 DEF ReadUpTo
    <2>5. PICK more \in Seq(Segments) :
              /\ more = Append(raw, part) /\ Len(more) = Len(fragments) + 1
              /\ more[Len(fragments) + 1] = part
              /\ \A i \in 1..Len(fragments) : more[i] = raw[i]
        <3>1. /\ Append(raw, part) \in Seq(Segments)
              /\ Len(Append(raw, part)) = Len(raw) + 1
              /\ Append(raw, part)[Len(raw) + 1] = part
              /\ \A i \in 1..Len(raw) : Append(raw, part)[i] = raw[i]
            BY <2>4, AppendProperties
        <3> QED
            BY <2>4, <3>1
    <2>6. Restore(output', more) = SubSeq(input, 1, last)
        <3>1. Restore(output', more) = Restore(output, raw) \o part
            BY <1>1, <1>2, <1>6, <1>8, <2>3, <2>4, <2>5, RestoreAdd DEF OutputKnown
        <3> QED
            BY <2>1, <2>3, <3>1 DEF ReadUpTo
    <2>7. Normalises(part, fragment) /\ (Unaltered => fragment = part)
        <3>1. CASE fragment = SubSeq(input, start, last)
            <4>1. CASE position = start
                BY <2>3, <3>1, <4>1 DEF Normalises
            <4>2. CASE PrefixAt(position)
                <5>1. /\ position \in 1..Len(input) /\ position + 1 = start /\ input[position] = "N"
                      /\ options.national /\ ~Unaltered
                    BY <1>1, <2>2, <4>2 DEF PrefixAt
                <5>2. SubSeq(input, position, last)
                          = <<input[position]>> \o SubSeq(input, position + 1, last)
                    BY <1>1, <2>2, ReadFromNext DEF ScanTyped, Readable
                <5> QED
                    BY <2>3, <3>1, <5>1, <5>2 DEF Normalises
            <4> QED
                BY <2>1, <4>1, <4>2 DEF WrittenUpTo
        <3>2. CASE /\ inside = "name" /\ options.normalizeNames /\ fragment = Requoted(SubSeq(input, start, last))
                   /\ input[start] = "[" /\ start < last /\ input[last] = "]"
            <4>1. position = start /\ part = SubSeq(input, start, last)
                BY <2>1, <2>3, <3>2 DEF WrittenUpTo, PrefixAt
            <4>2. last \in start..Len(input)
                BY <2>2, <4>1
            <4>3. /\ Len(part) = last - start + 1
                  /\ \A i \in 1..(last - start + 1) : part[i] = input[start + i - 1]
                BY <1>1, <1>4, <4>1, <4>2, PartOfText
            <4>4. /\ Len(part) > 1 /\ 1 \in 1..(last - start + 1) /\ last - start + 1 \in 1..(last - start + 1)
                  /\ start + 1 - 1 = start /\ start + (last - start + 1) - 1 = last
                BY <1>1, <3>2, <4>3
            <4>5. part[1] = "[" /\ part[Len(part)] = "]"
                BY <3>2, <4>3, <4>4
            <4>6. ~Unaltered
                <5>1. start \in DOMAIN input
                    BY <1>1, <1>4, LenProperties DEF ScanTyped, Readable
                <5> QED
                    BY <3>2, <5>1 DEF Unaltered
            <4> QED
                BY <3>2, <4>1, <4>4, <4>5, <4>6 DEF Normalises
        <3> QED
            BY <3>1, <3>2
    <2>8. PICK cut : cut = fragments'
        OBVIOUS
    <2>9. ReadUpTo(last + 1, more)'
        <3>1. /\ Len(cut) = Len(fragments) + 1 /\ cut[Len(fragments) + 1] = fragment
              /\ \A i \in 1..Len(fragments) : cut[i] = fragments[i]
            BY <1>1, <1>2, <1>3, <2>8, AppendProperties DEF ScanTyped
        <3>2. ASSUME NEW i \in 1..(Len(fragments) + 1) PROVE Normalises(more[i], cut[i])
            <4>1. i = Len(fragments) + 1 \/ i \in 1..Len(fragments)
                BY <1>3
            <4> QED
                BY <2>1, <2>5, <2>7, <3>1, <4>1 DEF ReadUpTo
        <3>3. Unaltered => more = cut
            BY <1>2, <2>1, <2>5, <2>7, <2>8 DEF ReadUpTo
        <3>4. last + 1 - 1 = last
            OBVIOUS
        <3>5. \A x, y : Normalises(x, y)' <=> Normalises(x, y)
            BY DEF Normalises
        <3> QED
            BY <2>5, <2>6, <2>8, <3>1, <3>2, <3>3, <3>4, <3>5, SameText DEF ReadUpTo
    <2> QED
        BY <2>9 DEF Reassembled, WrittenUpTo
<1> QED
    BY <1>9, <1>10, <1>11, <1>12, <1>13, <1>14, <1>15 DEF ScanInv

\* Two texts with known placeholders make one.
LEMMA KnownConcat ==
    ASSUME NEW s \in Seq(Symbol), NEW t \in Seq(Symbol), NEW n, Known(s, n), Known(t, n)
    PROVE  Known(s \o t, n)
<1>1. PICK j \in Nat : j = Len(s)
    BY LenProperties
<1>2. PICK k \in Nat : k = Len(t)
    BY LenProperties
<1>3. /\ s \o t \in Seq(Symbol) /\ Len(s \o t) = j + k
      /\ \A i \in 1..(j + k) : (s \o t)[i] = IF i <= j THEN s[i] ELSE t[i - j]
    BY <1>1, <1>2, ConcatProperties
<1>4. PICK joined \in Seq(Symbol) :
          /\ joined = s \o t /\ Len(joined) = j + k
          /\ \A i \in 1..(j + k) : joined[i] = IF i <= j THEN s[i] ELSE t[i - j]
    BY <1>3
<1>5. DOMAIN joined = 1..(j + k) /\ DOMAIN s = 1..j /\ DOMAIN t = 1..k
    BY <1>1, <1>2, <1>4, LenProperties
<1>6. ASSUME NEW i \in DOMAIN joined, IsPlaceholder(joined[i])
      PROVE  \E m \in 1..n : joined[i] = Placeholders[m]
    <2>1. CASE i <= j
        <3>1. joined[i] = s[i] /\ i \in DOMAIN s
            BY <1>4, <1>5, <2>1
        <3> QED
            BY <1>6, <3>1 DEF Known
    <2>2. CASE ~(i <= j)
        <3>1. joined[i] = t[i - j] /\ i - j \in DOMAIN t
            BY <1>4, <1>5, <2>2
        <3> QED
            BY <1>6, <3>1 DEF Known
    <2> QED
        BY <2>1, <2>2
<1> QED
    BY <1>4, <1>6 DEF Known

\* One more symbol of a text is read.
LEMMA ReadOneMore ==
    ASSUME NEW text \in Seq(Symbol), NEW n \in 1..Len(text)
    PROVE  SubSeq(text, 1, n) = Append(SubSeq(text, 1, n - 1), text[n])
<1>1. Len(text) \in Nat /\ text[n] \in Symbol
    BY LenProperties, ElementOfSeq
<1>2. n - 1 \in Nat /\ n - 1 + 1 = n /\ n - 1 + 1 \in 1..Len(text)
    BY <1>1
<1>3. \A i \in 1..(n - 1) : text[i] \in Symbol
    BY <1>1, ElementOfSeq
<1>4. SubSeq(text, 1, n - 1) \in Seq(Symbol)
    BY <1>2, <1>3, SubSeqProperties
<1>5. PICK read \in Seq(Symbol) : read = SubSeq(text, 1, n - 1)
    BY <1>4
<1>6. SubSeq(text, 1, n) = SubSeq(text, 1, n - 1) \o <<text[n]>>
    BY <1>1, <1>2, SubSeqRecursiveSecond
<1> QED
    BY <1>1, <1>5, <1>6, AppendIsConcat

\* A name that is not protected is written as it is.
LEMMA WriteKeeps ==
    ASSUME ScanInv, inside = "name", ~options.protectNames,
           NEW last \in Nat, index' = last + 1, index <= last + 1, last <= Len(input),
           output' = output \o SubSeq(input, start, last), inside' = "code",
           UNCHANGED <<input, options, start, depth, fragments>>
    PROVE  ScanInv'
<1>1. /\ ScanTyped /\ Counted /\ Opened /\ OutputKnown /\ Reassembled
      /\ Len(input) \in Nat /\ index \in Nat /\ start \in Nat
    BY LenProperties DEF ScanInv, ScanTyped, Readable
<1>2. start <= last
    BY <1>1 DEF Opened
<1>3. PICK fragment \in Seq(Symbol) :
          /\ fragment = SubSeq(input, start, last) /\ Plain(fragment)
          /\ SubSeq(input, 1, start - 1) \o fragment = SubSeq(input, 1, last)
    <2>1. start \in 1..Len(input) /\ last \in start..Len(input)
        BY <1>1, <1>2 DEF ScanTyped
    <2> QED
        BY <1>1, <2>1, PartOfText
<1>4. output \in Seq(Symbol) /\ output' \in Seq(Symbol)
    <2>1. output \in Seq(Symbol)
        BY <1>1 DEF ScanTyped
    <2> QED
        BY <1>3, <2>1, ConcatProperties
<1>5. ScanTyped'
    <2>1. depth' \in Nat /\ depth' < index' /\ index' \in 1..(Len(input) + 1)
        BY <1>1 DEF ScanTyped
    <2> QED
        BY <1>1, <1>4, <2>1, SameText DEF ScanTyped
<1>6. Counted'
    <2>1. /\ Len(fragments) < Cardinality(OpenersIn(input, start))
          /\ Cardinality(OpenersIn(input, start)) <= Cardinality(OpenersIn(input, last))
        BY <1>1, <1>2, OpenersGrow DEF Counted
    <2>2. Len(fragments) \in Nat
        BY <1>1, LenProperties DEF ScanTyped
    <2>3. Cardinality(OpenersIn(input, start)) \in Nat /\ Cardinality(OpenersIn(input, last)) \in Nat
        BY <1>1, OpenersFinite
    <2>4. Len(fragments) <= Cardinality(OpenersIn(input, last))
        BY <2>1, <2>2, <2>3
    <2>5. index' - 1 = last
        OBVIOUS
    <2> QED
        BY <2>4, <2>5 DEF Counted
<1>7. Opened'
    BY DEF Opened
<1>8. OutputKnown'
    <2>1. Known(fragment, Len(fragments))
        BY <1>3 DEF Known, Plain
    <2>2. Known(output \o fragment, Len(fragments))
        BY <1>1, <1>3, <1>4, <2>1, KnownConcat DEF OutputKnown
    <2> QED
        BY <1>3, <2>2 DEF OutputKnown
<1>9. NothingLeftToProtect' /\ NothingOpens'
    BY DEF NothingLeftToProtect, NothingOpens
<1>10. Reassembled'
    <2>1. PICK raw : ReadUpTo(start, raw)
        BY <1>1 DEF Reassembled, WrittenUpTo, PrefixAt
    <2>2. raw \in Seq(Seq(Symbol)) /\ Len(raw) = Len(fragments)
        <3>1. raw \in Seq(Segments) /\ Segments \subseteq Seq(Symbol)
            BY <1>1, <2>1, SegmentsTyped DEF ReadUpTo
        <3> QED
            BY <2>1, <3>1 DEF ReadUpTo
    <2>3. Len(fragments) <= Len(Placeholders)
        BY <1>1, FragmentsFit
    <2>4. Restore(output \o fragment, raw) = Restore(output, raw) \o fragment
        BY <1>1, <1>3, <1>4, <2>2, <2>3, RestoreRaw DEF OutputKnown
    <2>5. Restore(output', raw) = SubSeq(input, 1, last)
        BY <1>3, <2>1, <2>4 DEF ReadUpTo
    <2>6. \A x, y : Normalises(x, y)' <=> Normalises(x, y)
        BY DEF Normalises
    <2>7. ReadUpTo(last + 1, raw)'
        <3>1. last + 1 - 1 = last
            OBVIOUS
        <3> QED
            BY <2>1, <2>5, <2>6, <3>1, SameText DEF ReadUpTo
    <2> QED
        BY <2>7 DEF Reassembled, WrittenUpTo
<1> QED
    BY <1>5, <1>6, <1>7, <1>8, <1>9, <1>10 DEF ScanInv

\* A symbol outside of fragments is copied.
LEMMA CopyKeeps ==
    ASSUME ScanInv, CopySymbol
    PROVE  ScanInv'
<1>1. /\ ScanTyped /\ Counted /\ Opened /\ OutputKnown /\ NothingLeftToProtect /\ NothingOpens
      /\ Reassembled /\ Len(input) \in Nat /\ index \in Nat
    BY LenProperties DEF ScanInv, ScanTyped, Readable
<1>2. /\ inside = "code" /\ inside' = "code" /\ index' = index + 1
      /\ index \in 1..Len(input) /\ DOMAIN input = 1..Len(input)
      /\ UNCHANGED <<input, options, start, depth, fragments>>
    <2>1. DOMAIN input = 1..Len(input)
        BY <1>1, LenProperties DEF ScanTyped, Readable
    <2> QED
        BY <2>1 DEF CopySymbol
<1>3. PICK symbol \in Symbol : symbol = input[index] /\ ~IsPlaceholder(symbol)
    BY <1>1, <1>2, ElementOfSeq DEF ScanTyped, Readable
<1>4. output' = Append(output, symbol) /\ symbol \notin Quoting
    BY <1>2, <1>3 DEF CopySymbol, At
<1>5. index \in DOMAIN input /\ index + 1 \in DOMAIN input => ~OpensComment(symbol, input[index + 1])
    BY <1>3 DEF CopySymbol, AtPair, At, OpensComment
<1>6. output \in Seq(Symbol) /\ output' \in Seq(Symbol)
    <2>1. output \in Seq(Symbol)
        BY <1>1 DEF ScanTyped
    <2> QED
        BY <1>3, <1>4, <2>1, AppendProperties
<1>7. ScanTyped'
    <2>1. depth' \in Nat /\ depth' < index' /\ index' \in 1..(Len(input) + 1)
        BY <1>1, <1>2 DEF ScanTyped
    <2> QED
        BY <1>1, <1>2, <1>6, <2>1, SameText DEF ScanTyped
<1>8. Counted'
    <2>1. Len(fragments) <= Cardinality(OpenersIn(input, index - 1))
        BY <1>1, <1>2 DEF Counted
    <2>2. index - 1 \in Nat /\ index - 1 <= index /\ index' - 1 = index
        BY <1>1, <1>2
    <2>3. Cardinality(OpenersIn(input, index - 1)) <= Cardinality(OpenersIn(input, index))
        BY <1>1, <2>2, OpenersGrow
    <2>4. /\ Len(fragments) \in Nat
          /\ Cardinality(OpenersIn(input, index)) \in Nat
          /\ Cardinality(OpenersIn(input, index - 1)) \in Nat
        BY <1>1, <2>2, OpenersFinite, LenProperties DEF ScanTyped
    <2>5. Len(fragments) <= Cardinality(OpenersIn(input, index))
        BY <2>1, <2>3, <2>4
    <2> QED
        BY <1>2, <2>2, <2>5 DEF Counted
<1>9. Opened'
    BY <1>2 DEF Opened
<1>10. OutputKnown'
    BY <1>1, <1>2, <1>3, <1>4, <1>6, KnownAppend DEF OutputKnown
<1>11. NothingLeftToProtect'
    <2> SUFFICES ASSUME options.protectNames PROVE IsCode(output')
        <3>1. DOMAIN output' = 1..Len(output')
            BY <1>6, LenProperties
        <3> QED
            BY <1>2, <3>1 DEF NothingLeftToProtect, IsCode
    <2>1. IsCode(output)
        <3>1. DOMAIN output = 1..Len(output)
            BY <1>6, LenProperties
        <3> QED
            BY <1>1, <3>1 DEF NothingLeftToProtect, IsCode
    <2>2. Len(output) # 0 => ~OpensComment(output[Len(output)], symbol)
        BY <1>1, <1>2, <1>3 DEF NothingOpens
    <2> QED
        BY <1>3, <1>4, <1>6, <2>1, <2>2, CodeAppend
<1>12. NothingOpens'
    <2>1. /\ Append(output, symbol)[Len(output) + 1] = symbol
          /\ Len(Append(output, symbol)) = Len(output) + 1
        BY <1>3, <1>6, AppendProperties
    <2>2. output'[Len(output')] = symbol
        BY <1>4, <2>1
    <2> QED
        BY <1>2, <1>5, <2>2 DEF NothingOpens
<1>13. Reassembled'
    <2>1. PICK raw : ReadUpTo(index, raw)
        BY <1>1, <1>2 DEF Reassembled, WrittenUpTo
    <2>2. raw \in Seq(Seq(Symbol)) /\ Len(raw) = Len(fragments)
        <3>1. raw \in Seq(Segments) /\ Segments \subseteq Seq(Symbol)
            BY <1>1, <2>1, SegmentsTyped DEF ReadUpTo
        <3> QED
            BY <2>1, <3>1 DEF ReadUpTo
    <2>3. Len(fragments) <= Len(Placeholders)
        BY <1>1, FragmentsFit
    <2>4. /\ Restore(output, raw) \in Seq(Symbol)
          /\ Restore(Append(output, symbol), raw) = Append(Restore(output, raw), symbol)
        BY <1>1, <1>3, <1>6, <2>2, <2>3, RestoreSymbol DEF OutputKnown
    <2>5. SubSeq(input, 1, index) = Append(SubSeq(input, 1, index - 1), symbol)
        BY <1>1, <1>2, <1>3, ReadOneMore DEF ScanTyped, Readable
    <2>6. Restore(output', raw) = SubSeq(input, 1, index)
        BY <1>4, <2>1, <2>4, <2>5 DEF ReadUpTo
    <2>7. \A x, y : Normalises(x, y)' <=> Normalises(x, y)
        BY <1>2 DEF Normalises
    <2>8. PICK next \in Nat : next = index + 1 /\ next - 1 = index
        BY <1>1 DEF ScanTyped
    <2>9. ReadUpTo(next, raw)'
        BY <1>2, <2>1, <2>6, <2>7, <2>8, SameText DEF ReadUpTo
    <2>10. WrittenUpTo(next)'
        BY <1>2, <2>8 DEF WrittenUpTo
    <2> QED
        BY <2>9, <2>10 DEF Reassembled
<1> QED
    BY <1>7, <1>8, <1>9, <1>10, <1>11, <1>12, <1>13 DEF ScanInv

-------------------------------------------------------------------------------
(* The actions. *)

\* A position with a symbol is one of the text.
LEMMA SymbolAt ==
    ASSUME ScanTyped, NEW i, At(i) # ""
    PROVE  i \in 1..Len(input) /\ At(i) = input[i]
BY LenProperties DEF At, ScanTyped, Readable

\* No symbol that is looked for is missing at the end of the text.
LEMMA QuotingIsSomething ==
    \A symbol \in Quoting : symbol # ""
BY Zenon DEF Quoting, Delimiters

\* A name, a literal or a comment begins.
LEMMA EnteringKeeps ==
    ASSUME ScanInv, EnterName \/ EnterLiteral \/ EnterLineComment \/ EnterBlockComment
    PROVE  ScanInv'
<1>1. ScanTyped /\ Len(input) \in Nat /\ index \in Nat /\ depth \in Nat
    BY LenProperties DEF ScanInv, ScanTyped, Readable
<1>2. CASE EnterName
    <2>1. /\ inside = "code" /\ Enter("name", index, 1) /\ depth' = depth
          /\ At(index) \in Delimiters
        BY <1>2 DEF EnterName
    <2>2. At(index) # ""
        BY <2>1, QuotingIsSomething DEF Quoting
    <2>3. index \in 1..Len(input) /\ input[index] \in Delimiters /\ input[index] \in Openers
        BY <1>1, <2>1, <2>2, SymbolAt DEF Openers, Quoting
    <2>4. index + 1 <= Len(input) + 1 /\ depth' <= depth + 1
        BY <1>1, <2>1, <2>3
    <2> QED
        BY <1>1, <2>1, <2>3, <2>4, EnterKeeps
<1>3. CASE EnterLiteral
    <2>1. PICK first \in {index, index + 1} :
              /\ inside = "code" /\ Enter("literal", first, 1) /\ depth' = depth
              /\ At(first) = "'" /\ (At(index) = "'" => first = index)
              /\ (At(index) # "'" => National(index))
        BY <1>3 DEF EnterLiteral, National, AtPair
    <2>2. first \in 1..Len(input) /\ input[first] = "'"
        BY <1>1, <2>1, SymbolAt
    <2>3. input[first] \in Openers /\ first + 1 <= Len(input) + 1 /\ depth' <= depth + 1
        BY <1>1, <2>1, <2>2 DEF Openers, Quoting
    <2>4. first # index => options.national /\ input[index] = "N" /\ ~Unaltered
        <3>1. index \in DOMAIN input \/ At(index) = ""
            BY DEF At
        <3>2. At(index) = "" => ~National(index)
            BY DEF National, AtPair
        <3> SUFFICES ASSUME first # index
                     PROVE  options.national /\ input[index] = "N" /\ ~Unaltered
            OBVIOUS
        <3>3. National(index) /\ index \in DOMAIN input
            BY <2>1, <3>1, <3>2
        <3>4. options.national /\ input[index] = "N"
            BY <3>3 DEF National, AtPair, At
        <3> QED
            BY <3>3, <3>4 DEF Unaltered
    <2> QED
        BY <1>1, <2>1, <2>2, <2>3, <2>4, EnterKeeps
<1>4. CASE EnterLineComment
    <2>1. /\ inside = "code" /\ Enter("line", index, 2) /\ depth' = depth
          /\ At(index) = "-" /\ At(index + 1) = "-"
        BY <1>4 DEF EnterLineComment, AtPair
    <2>2. index + 1 \in 1..Len(input) /\ input[index] = "-"
        BY <1>1, <2>1, SymbolAt
    <2>3. input[index] \in Openers /\ index + 2 <= Len(input) + 1 /\ depth' <= depth + 1
        BY <1>1, <2>1, <2>2 DEF Openers
    <2> QED
        BY <1>1, <2>1, <2>3, EnterKeeps
<1>5. CASE EnterBlockComment
    <2>1. /\ inside = "code" /\ Enter("block", index, 2) /\ depth' = 1
          /\ At(index) = "/" /\ At(index + 1) = "*"
        BY <1>5 DEF EnterBlockComment, AtPair
    <2>2. index + 1 \in 1..Len(input) /\ input[index] = "/"
        BY <1>1, <2>1, SymbolAt
    <2>3. input[index] \in Openers /\ index + 2 <= Len(input) + 1 /\ depth' <= depth + 1
        BY <1>1, <2>1, <2>2 DEF Openers
    <2> QED
        BY <1>1, <2>1, <2>3, EnterKeeps
<1> QED
    BY <1>2, <1>3, <1>4, <1>5

\* A quoted fragment or a comment goes on.
LEMMA MovingKeeps ==
    ASSUME ScanInv, MoveInQuoted \/ MoveInLineComment \/ MoveInBlockComment
    PROVE  ScanInv'
<1>1. /\ ScanTyped /\ Opened /\ Len(input) \in Nat /\ index \in Nat /\ depth \in Nat
      /\ DOMAIN input = 1..Len(input)
    BY LenProperties DEF ScanInv, ScanTyped, Readable
<1>2. CASE MoveInQuoted
    <2>1. /\ inside \in {"name", "literal"} /\ index \in 1..Len(input) /\ depth' = depth
        BY <1>1, <1>2 DEF MoveInQuoted
    <2>2. index + 1 <= Len(input) + 1 /\ depth' <= depth + 1 /\ inside # "code"
        BY <1>1, <2>1
    <2>3. CASE Move(1)
        BY <1>1, <2>1, <2>2, <2>3, MoveKeeps
    <2>4. CASE AtPair(index, Closing, Closing) /\ Move(2)
        <3>1. At(start) # ""
            <4>1. start \in DOMAIN input /\ input[start] \in Quoting
                BY <1>1, <2>1 DEF Opened, ScanTyped, Quoting
            <4> QED
                BY <4>1, QuotingIsSomething DEF At
        <3>2. At(index + 1) # ""
            BY <2>4, <3>1 DEF AtPair, Closing
        <3>3. index + 1 \in 1..Len(input)
            BY <1>1, <3>2, SymbolAt
        <3>4. index + 2 <= Len(input) + 1
            BY <1>1, <3>3
        <3> QED
            BY <1>1, <2>1, <2>2, <2>4, <3>4, MoveKeeps
    <2> QED
        BY <1>2, <2>3, <2>4 DEF MoveInQuoted
<1>3. CASE MoveInLineComment
    <2>1. inside # "code" /\ index \in 1..Len(input) /\ depth' = depth /\ Move(1)
        BY <1>1, <1>3 DEF MoveInLineComment
    <2>2. index + 1 <= Len(input) + 1 /\ depth' <= depth + 1
        BY <1>1, <2>1
    <2> QED
        BY <1>1, <2>1, <2>2, MoveKeeps
<1>4. CASE MoveInBlockComment
    <2>1. inside # "code" /\ index \in 1..Len(input) /\ depth > 0 /\ DepthFollows
        BY <1>1, <1>4 DEF MoveInBlockComment
    <2>2. depth' \in Nat /\ depth' <= depth + 1
        BY <1>1, <2>1 DEF DepthFollows
    <2>3. CASE AtPair(index, "/", "*") \/ AtPair(index, "*", "/")
        <3>1. Move(2)
            BY <1>4, <2>3 DEF MoveInBlockComment
        <3>2. At(index + 1) # ""
            BY <2>3 DEF AtPair
        <3>3. index + 1 \in 1..Len(input)
            BY <1>1, <3>2, SymbolAt
        <3>4. index + 2 <= Len(input) + 1
            BY <1>1, <3>3
        <3> QED
            BY <2>1, <2>2, <3>1, <3>4, MoveKeeps
    <2>4. CASE ~(AtPair(index, "/", "*") \/ AtPair(index, "*", "/"))
        <3>1. Move(1)
            BY <1>4, <2>4 DEF MoveInBlockComment
        <3>2. index + 1 <= Len(input) + 1
            BY <1>1, <2>1
        <3> QED
            BY <2>1, <2>2, <3>1, <3>2, MoveKeeps
    <2> QED
        BY <2>3, <2>4
<1> QED
    BY <1>2, <1>3, <1>4

\* A name, a literal or a comment ends, where its closing symbol is or where the text ends.
LEMMA LeavingKeeps ==
    ASSUME ScanInv, LeaveName \/ LeaveLiteral \/ LeaveComment
    PROVE  ScanInv'
<1>1. /\ ScanTyped /\ Opened /\ Len(input) \in Nat /\ index \in Nat /\ DOMAIN input = 1..Len(input)
      /\ index \in 1..(Len(input) + 1)
    BY LenProperties DEF ScanInv, ScanTyped, Readable
<1>2. ASSUME NEW last, last = IF Closed THEN index ELSE Len(input)
      PROVE  /\ last \in Nat /\ index <= last + 1 /\ last <= Len(input)
             /\ (Leave => index' = last + 1)
    <2>1. CASE Closed
        BY <1>1, <1>2, <2>1 DEF Closed, Leave
    <2>2. CASE ~Closed
        <3>1. last = Len(input) /\ index = Len(input) + 1
            BY <1>1, <1>2, <2>2 DEF Closed
        <3>2. Leave => index' = index
            BY <2>2 DEF Leave
        <3> QED
            BY <1>1, <3>1, <3>2
    <2> QED
        BY <2>1, <2>2
<1>3. CASE LeaveName
    <2>1. PICK last \in Nat : last = IF Closed THEN index ELSE Len(input)
        BY <1>1
    <2>2. /\ inside # "code" /\ inside = "name" /\ inside' = "code"
          /\ UNCHANGED <<input, options, start, depth>>
          /\ index' = last + 1 /\ index <= last + 1 /\ last <= Len(input)
          /\ QuotedFragment = SubSeq(input, start, last)
        BY <1>2, <1>3, <2>1 DEF LeaveName, Leave, QuotedFragment
    <2>3. CASE ~options.protectNames
        <3>1. output' = output \o SubSeq(input, start, last) /\ UNCHANGED fragments
            BY <1>3, <2>2, <2>3 DEF LeaveName
        <3> QED
            BY <2>2, <2>3, <3>1, WriteKeeps
    <2>4. CASE options.protectNames
        <3>1. CASE Add(QuotedFragment)
            BY <2>2, <3>1, AddKeeps
        <3>2. CASE options.normalizeNames /\ At(start) = "[" /\ Closed /\ Add(Requoted(QuotedFragment))
            <4>1. last = index /\ index \in 1..Len(input) /\ At(index) = Closing /\ Closing = "]"
                BY <1>1, <1>3, <2>1, <3>2 DEF LeaveName, AtEndOfQuoted, Closed, Closing
            <4>2. input[start] = "[" /\ input[last] = "]" /\ start < last
                BY <1>1, <2>2, <3>2, <4>1 DEF Opened, ScanTyped, At
            <4> QED
                BY <2>2, <3>2, <4>2, AddKeeps
        <3> QED
            BY <1>3, <2>4, <3>1, <3>2 DEF LeaveName
    <2> QED
        BY <2>3, <2>4
<1>4. CASE LeaveLiteral
    <2>1. PICK last \in Nat : last = IF Closed THEN index ELSE Len(input)
        BY <1>1
    <2>2. /\ inside # "code" /\ inside' = "code" /\ UNCHANGED <<input, options, start, depth>>
          /\ index' = last + 1 /\ index <= last + 1 /\ last <= Len(input)
          /\ Add(SubSeq(input, start, last))
        BY <1>2, <1>4, <2>1 DEF LeaveLiteral, Leave, QuotedFragment
    <2> QED
        BY <2>2, AddKeeps
<1>5. CASE LeaveComment
    <2>1. /\ inside # "code" /\ inside' = "code" /\ UNCHANGED <<input, options, start, depth>>
          /\ index' = index /\ Add(SubSeq(input, start, index - 1))
        BY <1>5 DEF LeaveComment
    <2>2. PICK last \in Nat : last = index - 1
        BY <1>1
    <2>3. index' = last + 1 /\ index <= last + 1 /\ last <= Len(input)
        BY <1>1, <2>1, <2>2
    <2> QED
        BY <2>1, <2>2, <2>3, AddKeeps
<1> QED
    BY <1>3, <1>4, <1>5

\* A text is read from its beginning.
LEMMA BeginKeeps ==
    ASSUME ProtectNext
    PROVE  ScanInv'
<1>1. /\ Readable' /\ options' \in Options /\ index' = 1 /\ start' = 1 /\ inside' = "code"
      /\ depth' = 0 /\ output' = <<>> /\ fragments' = <<>>
    BY DEF ProtectNext, BeginNext
<1>2. /\ <<>> \in Seq(Symbol) /\ <<>> \in Seq(Seq(Symbol)) /\ <<>> \in Seq(ToSet(<<>>))
      /\ Len(<<>>) = 0 /\ DOMAIN <<>> = {}
    BY EmptySeq
<1>3. input' \in Seq(Symbol) /\ Len(input') \in Nat
    BY <1>1, LenProperties DEF Readable
<1>4. ScanTyped'
    <2>1. 1 \in 1..(Len(input') + 1)
        BY <1>3
    <2> QED
        BY <1>1, <1>2, <2>1 DEF ScanTyped
<1>5. Counted'
    BY <1>1, <1>2, OpenersFinite DEF Counted
<1>6. Opened'
    BY <1>1 DEF Opened
<1>7. OutputKnown'
    BY <1>1, <1>2 DEF OutputKnown, Known
<1>8. NothingLeftToProtect' /\ NothingOpens'
    BY <1>1, <1>2 DEF NothingLeftToProtect, NothingOpens
<1>9. Reassembled'
    <2>1. Restore(<<>>, <<>>) = <<>>
        BY RestoreNothing
    <2>2. SubSeq(input', 1, index' - 1) = <<>>
        BY <1>1, SubSeqEmpty
    <2>3. <<>> \in Seq(Segments') /\ Len(<<>>) = 0
        BY EmptySeq
    <2>4. ReadUpTo(1, <<>>)'
        <3>1. 1..Len(fragments') = {}
            BY <1>1, <2>3
        <3>2. Restore(output', <<>>) = SubSeq(input', 1, 1 - 1)
            BY <1>1, <2>1, <2>2
        <3> QED
            BY <1>1, <2>3, <3>1, <3>2 DEF ReadUpTo
    <2> QED
        BY <1>1, <2>4 DEF Reassembled, WrittenUpTo
<1> QED
    BY <1>4, <1>5, <1>6, <1>7, <1>8, <1>9 DEF ScanInv

-------------------------------------------------------------------------------
(* The theorems. *)

\* The invariant holds at the beginning.
LEMMA ScanInvInit == ProtectInit => ScanInv
<1> SUFFICES ASSUME ProtectInit PROVE ScanInv
    OBVIOUS
<1>1. /\ Readable /\ options \in Options /\ index = 1 /\ start = 1 /\ inside = "code"
      /\ depth = 0 /\ output = <<>> /\ fragments = <<>>
    BY DEF ProtectInit, Begin
<1>2. /\ <<>> \in Seq(Symbol) /\ <<>> \in Seq(Seq(Symbol)) /\ <<>> \in Seq(ToSet(<<>>))
      /\ Len(<<>>) = 0 /\ DOMAIN <<>> = {}
    BY EmptySeq
<1>3. input \in Seq(Symbol) /\ Len(input) \in Nat
    BY <1>1, LenProperties DEF Readable
<1>4. ScanTyped
    <2>1. 1 \in 1..(Len(input) + 1)
        BY <1>3
    <2> QED
        BY <1>1, <1>2, <2>1 DEF ScanTyped
<1>5. Counted
    BY <1>1, <1>2, OpenersFinite DEF Counted
<1>6. Opened
    BY <1>1 DEF Opened
<1>7. OutputKnown
    BY <1>1, <1>2 DEF OutputKnown, Known
<1>8. NothingLeftToProtect /\ NothingOpens
    BY <1>1, <1>2 DEF NothingLeftToProtect, NothingOpens
<1>9. Reassembled
    <2>1. Restore(<<>>, <<>>) = <<>>
        BY RestoreNothing
    <2>2. SubSeq(input, 1, index - 1) = <<>>
        BY <1>1, SubSeqEmpty
    <2>3. <<>> \in Seq(Segments) /\ Len(<<>>) = 0
        BY EmptySeq
    <2>4. ReadUpTo(1, <<>>)
        <3>1. 1..Len(fragments) = {}
            BY <1>1, <2>3
        <3>2. Restore(output, <<>>) = SubSeq(input, 1, 1 - 1)
            BY <1>1, <2>1, <2>2
        <3> QED
            BY <1>1, <2>3, <3>1, <3>2 DEF ReadUpTo
    <2> QED
        BY <1>1, <2>4 DEF Reassembled, WrittenUpTo
<1> QED
    BY <1>4, <1>5, <1>6, <1>7, <1>8, <1>9 DEF ScanInv

\* Every step keeps it.
LEMMA ScanInvNext == ScanInv /\ [Scan \/ ProtectNext]_scanner => ScanInv'
<1> SUFFICES ASSUME ScanInv, [Scan \/ ProtectNext]_scanner PROVE ScanInv'
    OBVIOUS
<1>1. CASE EnterName \/ EnterLiteral \/ EnterLineComment \/ EnterBlockComment
    BY <1>1, EnteringKeeps
<1>2. CASE MoveInQuoted \/ MoveInLineComment \/ MoveInBlockComment
    BY <1>2, MovingKeeps
<1>3. CASE LeaveName \/ LeaveLiteral \/ LeaveComment
    BY <1>3, LeavingKeeps
<1>4. CASE CopySymbol
    BY <1>4, CopyKeeps
<1>5. CASE ProtectNext
    BY <1>5, BeginKeeps
<1>6. CASE UNCHANGED scanner
    <2>1. ScanTyped' /\ Counted' /\ Opened' /\ OutputKnown' /\ NothingLeftToProtect' /\ NothingOpens'
        BY <1>6, SameText DEF scanner, ScanInv, ScanTyped, Counted, Opened, OutputKnown,
            NothingLeftToProtect, NothingOpens
    <2>2. \A position : WrittenUpTo(position) => WrittenUpTo(position)'
        BY <1>6, SameText DEF scanner, WrittenUpTo, PrefixAt
    <2>3. Reassembled'
        BY <1>6, <2>2, StillWritten DEF scanner, ScanInv
    <2> QED
        BY <2>1, <2>3 DEF ScanInv
<1> QED
    BY <1>1, <1>2, <1>3, <1>4, <1>5, <1>6 DEF Scan

\* The scanner is always in the middle of reading the text from its beginning.
THEOREM ScanInvariant == ProtectSpec => []ScanInv
BY ScanInvInit, ScanInvNext, PTL DEF ProtectSpec

\* What the invariant says of the type.
LEMMA ScanInvTyped == ScanInv => ScannerTypeOK
<1> SUFFICES ASSUME ScanInv PROVE ScannerTypeOK
    OBVIOUS
<1>1. ScanTyped /\ Counted /\ Opened /\ Len(input) \in Nat
    BY LenProperties DEF ScanInv, ScanTyped, Readable
<1>2. Len(fragments) <= Len(input)
    BY <1>1, FragmentsFit
<1>3. depth \in 0..Len(input)
    BY <1>1 DEF ScanTyped
<1> QED
    BY <1>1, <1>2, <1>3 DEF ScanTyped, ScannerTypeOK

\* What it says when the text is read.
LEMMA ScanInvExact == ScanInv => OnlyNormalised
<1> SUFFICES ASSUME ScanInv, Scanned
             PROVE  \E raw \in [DOMAIN fragments -> Originals] :
                        /\ \A i \in DOMAIN fragments : Normalises(raw[i], fragments[i])
                        /\ Restore(output, raw) = input
                        /\ Unaltered => raw = fragments
    BY DEF OnlyNormalised
<1>1. ScanTyped /\ Reassembled /\ Len(input) \in Nat /\ input \in Seq(Symbol)
    BY LenProperties DEF ScanInv, ScanTyped, Readable
<1>2. inside = "code" /\ index - 1 = Len(input)
    BY <1>1 DEF Scanned, ScanTyped
<1>3. PICK raw : ReadUpTo(index, raw)
    BY <1>1, <1>2 DEF Reassembled, WrittenUpTo
<1>4. Restore(output, raw) = input
    BY <1>1, <1>2, <1>3, SubSeqFull DEF ReadUpTo
<1>5. DOMAIN fragments = 1..Len(fragments) /\ DOMAIN raw = 1..Len(fragments)
    BY <1>1, <1>3, LenProperties DEF ScanTyped, ReadUpTo
<1>6. \A i \in 1..Len(fragments) : raw[i] \in Originals
    BY <1>3, <1>5 DEF ReadUpTo, Originals
<1>7. raw \in [DOMAIN fragments -> Originals]
    BY <1>3, <1>5, <1>6 DEF ReadUpTo
<1> QED
    BY <1>3, <1>4, <1>5, <1>7 DEF ReadUpTo

\* The scanner stays inside of the text, and block comments close no more often than they open.
THEOREM ScannerTypeIsOK == ProtectSpec => []ScannerTypeOK
BY ScanInvariant, ScanInvTyped, PTL

\* Every text comes back as it was but for the names in brackets and the prefixes of literals
\* that were normalised, whatever stands side by side in it and wherever it ends.
THEOREM RestoreIsAlwaysExact == ProtectSpec => []OnlyNormalised
BY ScanInvariant, ScanInvExact, PTL

\* No literal, no comment and no delimited name is left where a rewriting can meet it.
THEOREM NothingIsEverLeftToProtect == ProtectSpec => []NothingLeftToProtect
<1>1. ScanInv => NothingLeftToProtect
    BY DEF ScanInv
<1> QED
    BY <1>1, ScanInvariant, PTL

\* How far it is to the end of the text; the end of a fragment is one step more.
Distance == 2 * (Len(input) + 1 - index) + (IF inside = "code" THEN 0 ELSE 1)

\* The scanner comes closer to the end with every step.
LEMMA ScanComesCloser ==
    ASSUME ScanInv, Scan
    PROVE  UNCHANGED input /\ index' \in Nat /\ Distance' < Distance /\ Distance' \in Nat
<1>1. ScanInv'
    BY ScanInvNext
<1>2. /\ index \in 1..(Len(input) + 1) /\ index' \in 1..(Len(input') + 1)
      /\ Len(input) \in Nat /\ Len(input') \in Nat
    BY <1>1, LenProperties DEF ScanInv, ScanTyped, Readable
<1>3. CASE EnterName \/ EnterLiteral \/ EnterLineComment \/ EnterBlockComment
    <2>1. UNCHANGED input /\ index' >= index + 1 /\ inside = "code" /\ inside' # "code"
        BY <1>2, <1>3 DEF EnterName, EnterLiteral, EnterLineComment, EnterBlockComment, Enter
    <2> QED
        BY <1>2, <2>1 DEF Distance
<1>4. CASE MoveInQuoted \/ MoveInLineComment \/ MoveInBlockComment
    <2>1. UNCHANGED <<input, inside>> /\ index' >= index + 1
        BY <1>2, <1>4 DEF MoveInQuoted, MoveInLineComment, MoveInBlockComment, Move
    <2> QED
        BY <1>2, <2>1 DEF Distance
<1>5. CASE LeaveName \/ LeaveLiteral \/ LeaveComment
    <2>1. UNCHANGED input /\ index' >= index /\ inside # "code" /\ inside' = "code"
        BY <1>2, <1>5 DEF LeaveName, LeaveLiteral, LeaveComment, Leave
    <2> QED
        BY <1>2, <2>1 DEF Distance
<1>6. CASE CopySymbol
    <2>1. UNCHANGED <<input, inside>> /\ index' = index + 1
        BY <1>6 DEF CopySymbol
    <2> QED
        BY <1>2, <2>1 DEF Distance
<1> QED
    BY <1>3, <1>4, <1>5, <1>6 DEF Scan

\* Protecting a text ends: no step, not even one that leaves a fragment, goes back or
\* stands still, and no step leads beyond the end.
THEOREM ScanningEnds == ProtectSpec => [][Scan => Distance' < Distance /\ Distance' \in Nat]_scanner
<1>1. ScanInv => [Scan => Distance' < Distance /\ Distance' \in Nat]_scanner
    BY ScanComesCloser
<1> QED
    BY <1>1, ScanInvariant, PTL
================================================================================
