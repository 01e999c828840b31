------------------------ MODULE Ic10ToolchainProofs ------------------------
(***************************************************************************)
(* What the editor says of an IC10 program is true of its runs, proved for *)
(* every program, processor, world and sensor: a line it greys out is not  *)
(* executed, no tick takes more operations than the budget it shows, a     *)
(* fault it could foresee it has announced, and an access it calls         *)
(* impossible does not succeed.                                            *)
(*                                                                         *)
(* The analysis and the simulator resolve names apart from each other; the *)
(* first part shows that on a text without duplicates they come to the     *)
(* same, the second that a run then follows the edges of the analysis, and *)
(* the third follows each access of the simulator to the code the editor   *)
(* gives it, and the stack pointer through the straight line at the start. *)
(***************************************************************************)
EXTENDS Ic10Toolchain, FiniteSetTheorems, WellFoundedInduction, TLAPS

\* Induction up to n, for a set.
LEMMA UpTo ==
    ASSUME NEW n \in Nat, NEW X, 0 \in X,
           \A i \in 0 .. n : i \in X /\ i < n => i + 1 \in X
    PROVE  \A i \in 0 .. n : i \in X
<1> DEFINE R == {p \in Nat \X Nat : p[1] < p[2]}
           Bad == {i \in 0 .. n : i \notin X}
<1> SUFFICES ASSUME Bad # {} PROVE FALSE
    OBVIOUS
<1>1. IsWellFoundedOn(R, Nat)
    BY NatLessThanWellFounded, Zenon DEF OpToRel
<1>2. Bad \in SUBSET Nat
    OBVIOUS
<1>3. PICK m \in Bad : \A o \in Bad : ~(<<o, m>> \in R)
    <2> HIDE DEF R, Bad
    <2> QED BY <1>1, <1>2, WFMin, Zenon
<1>4. m \in Nat /\ m # 0 /\ m <= n
    OBVIOUS
<1>5. m - 1 \in 0 .. n /\ <<m - 1, m>> \in R
    BY <1>4
<1>6. m - 1 \notin Bad
    BY <1>3, <1>5, Zenon
<1> QED
    BY <1>4, <1>5, <1>6

\* A function of the step and the value before, applied n times, passes through
\* n values after the first.
Stepped(f, b, g, n) == f = [k \in 0 .. n |-> IF k = 0 THEN b ELSE g[<<k, f[k - 1]>>]]

\* Such a function exists: what a recursive definition of this form needs.
LEMMA SteppedExists ==
    ASSUME NEW T, NEW n \in Nat, NEW g \in [(1 .. n) \X T -> T], NEW b \in T
    PROVE  \E f \in [0 .. n -> T] : Stepped(f, b, g, n)
<1> DEFINE X == {k \in 0 .. n : \E h \in [0 .. k -> T] : Stepped(h, b, g, k)}
<1>1. 0 \in X
    <2> DEFINE h == [i \in 0 .. 0 |-> b]
    <2>1. h \in [0 .. 0 -> T] /\ Stepped(h, b, g, 0)
        BY DEF Stepped
    <2> HIDE DEF h
    <2> QED BY <2>1
<1>2. ASSUME NEW k \in 0 .. n, k \in X, k < n PROVE k + 1 \in X
    <2>1. PICK h \in [0 .. k -> T] : Stepped(h, b, g, k)
        BY <1>2
    <2> DEFINE e == [i \in 0 .. k + 1 |-> IF i = k + 1 THEN g[<<k + 1, h[k]>>] ELSE h[i]]
    <2>0. k \in Nat /\ k + 1 \in 1 .. n
        BY <1>2
    <2>2. \A i \in 0 .. k + 1 : e[i] \in T /\ e[i] = IF i = 0 THEN b ELSE g[<<i, e[i - 1]>>]
        <3> SUFFICES ASSUME NEW i \in 0 .. k + 1
                     PROVE  e[i] \in T /\ e[i] = IF i = 0 THEN b ELSE g[<<i, e[i - 1]>>]
            OBVIOUS
        <3>1. CASE i = k + 1
            <4>1. i # 0 /\ i - 1 = k /\ k \in 0 .. k /\ k \in 0 .. k + 1 /\ k # k + 1
                BY <2>0, <3>1
            <4>2. e[i] = g[<<k + 1, h[k]>>] /\ e[i - 1] = h[k] /\ h[k] \in T
                BY <3>1, <4>1
            <4>3. <<k + 1, h[k]>> \in (1 .. n) \X T
                BY <2>0, <4>2
            <4> HIDE DEF e
            <4>4. g[<<k + 1, h[k]>>] \in T
                BY <4>3
            <4> QED BY <3>1, <4>1, <4>2, <4>4
        <3>2. CASE i # k + 1
            <4>1. i \in 0 .. k /\ (i # 0 => i - 1 \in 0 .. k + 1 /\ i - 1 # k + 1)
                BY <2>0, <3>2
            <4>2. e[i] = h[i] /\ (i # 0 => e[i - 1] = h[i - 1]) /\ h[i] \in T
                BY <3>2, <4>1
            <4>3. h[i] = IF i = 0 THEN b ELSE g[<<i, h[i - 1]>>]
                <5> HIDE DEF e
                <5> QED BY <2>1, <4>1, Zenon DEF Stepped
            <4> HIDE DEF e
            <4> QED BY <4>2, <4>3
        <3> QED BY <3>1, <3>2
    <2>3. e = [i \in 0 .. k + 1 |-> e[i]]
        BY Zenon
    <2> HIDE DEF e
    <2>4. e \in [0 .. k + 1 -> T]
        BY <2>2, <2>3
    <2>5. Stepped(e, b, g, k + 1)
        BY <2>2, <2>3, Zenon DEF Stepped
    <2>6. k + 1 \in 0 .. n
        BY <1>2
    <2> QED BY <2>4, <2>5, <2>6
<1>3. n \in X
    <2> HIDE DEF X
    <2>1. n \in 0 .. n
        OBVIOUS
    <2> QED BY <1>1, <1>2, <2>1, UpTo
<1> QED BY <1>3

Iterated(f, b, g, n) == f = [k \in 0 .. n |-> IF k = 0 THEN b ELSE g[f[k - 1]]]

\* The same for a function of the value alone.
LEMMA IterationExists ==
    ASSUME NEW T, NEW g \in [T -> T], NEW b \in T, NEW n \in Nat
    PROVE  \E f \in [0 .. n -> T] : Iterated(f, b, g, n)
<1> DEFINE G == [z \in (1 .. n) \X T |-> g[z[2]]]
<1>1. G \in [(1 .. n) \X T -> T]
    OBVIOUS
<1>2. PICK f \in [0 .. n -> T] : Stepped(f, b, G, n)
    <2> HIDE DEF G
    <2> QED BY <1>1, SteppedExists
<1>3. ASSUME NEW k \in 0 .. n PROVE f[k] = IF k = 0 THEN b ELSE g[f[k - 1]]
    <2>1. f[k] = IF k = 0 THEN b ELSE G[<<k, f[k - 1]>>]
        <3> HIDE DEF G
        <3> QED BY <1>2, <1>3, Zenon DEF Stepped
    <2>2. ASSUME k # 0 PROVE G[<<k, f[k - 1]>>] = g[f[k - 1]]
        <3>1. k \in 1 .. n /\ k - 1 \in 0 .. n
            BY <2>2
        <3>2. f[k - 1] \in T
            BY <1>2, <3>1
        <3> QED BY <3>1, <3>2
    <2> HIDE DEF G
    <2> QED BY <2>1, <2>2
<1>4. f = [k \in 0 .. n |-> f[k]]
    BY <1>2
<1>5. Iterated(f, b, g, n)
    BY <1>3, <1>4, Zenon DEF Iterated
<1> QED BY <1>5

-----------------------------------------------------------------------------
(* The chains of names.                                                    *)

\* One hop of the analysis, and of the simulator through aliases and defines.
Hop(p, x) == IF IsSymbol(p, x) THEN SymbolValue(p, x[2]) ELSE x

Through(table, x) == IF IsName(x) /\ x[2] \in DOMAIN table THEN table[x[2]] ELSE x

\* The runs of hops of which Chase, ResolveAlias and ResolveNumber take the end.
Chased(f, p, n) == \A k \in 1 .. n : f[k] = Hop(p, f[k - 1])

Followed(f, table, n) == \A k \in 1 .. n : f[k] = Through(table, f[k - 1])

ChaseRun(f, p, t, n) == f[0] = t /\ Chased(f, p, n) /\ Chase(p, t) = f[n]

\* resolve_symbol_value takes one hop per declared name.
LEMMA ChaseIs ==
    ASSUME NEW p, NEW t, NEW n \in Nat, n = Cardinality(Names(p))
    PROVE  \E f : ChaseRun(f, p, t, n)
<1> DEFINE T == {t, NoToken} \cup {SymbolValue(p, x) : x \in Names(p)}
           g == [x \in T |-> Hop(p, x)]
           Is(f) == f = [k \in 0 .. n |-> IF k = 0 THEN t
                                          ELSE IF IsSymbol(p, f[k - 1]) THEN SymbolValue(p, f[k - 1][2])
                                          ELSE f[k - 1]]
<1>1. g \in [T -> T]
    BY Zenon DEF Hop, IsSymbol
<1>2. PICK f \in [0 .. n -> T] : Iterated(f, t, g, n)
    <2> HIDE DEF g
    <2>1. t \in T
        OBVIOUS
    <2> HIDE DEF T
    <2> QED BY <1>1, <2>1, IterationExists
<1>3. f[0] = t
    BY <1>2 DEF Iterated
<1>4. ASSUME NEW k \in 0 .. n, k # 0 PROVE f[k] = Hop(p, f[k - 1])
    <2>1. k - 1 \in 0 .. n
        BY <1>4
    <2>2. f[k] = g[f[k - 1]]
        <3> HIDE DEF g, T
        <3> QED BY <1>2, <1>4, Zenon DEF Iterated
    <2>3. f[k - 1] \in T
        <3> HIDE DEF T
        <3> QED BY <1>2, <2>1
    <2> QED BY <2>2, <2>3, Zenon
<1>5. Is(f)
    <2>1. f = [k \in 0 .. n |-> f[k]]
        <3> HIDE DEF T
        <3> QED BY <1>2
    <2>2. \A k \in 0 .. n : f[k] = IF k = 0 THEN t
                                   ELSE IF IsSymbol(p, f[k - 1]) THEN SymbolValue(p, f[k - 1][2])
                                   ELSE f[k - 1]
        BY <1>3, <1>4, Zenon DEF Hop
    <2> QED BY <2>1, <2>2, Zenon
<1> DEFINE h == CHOOSE e : Is(e)
<1>6. Is(h)
    <2> HIDE DEF Is
    <2> QED BY <1>5, Zenon
<1>7. Chase(p, t) = h[n]
    BY Zenon DEF Chase
<1> HIDE DEF h
<1>8. h[0] = t
    <2>1. 0 \in 0 .. n
        OBVIOUS
    <2> QED BY <1>6, <2>1, Zenon
<1>9. ASSUME NEW k \in 1 .. n PROVE h[k] = Hop(p, h[k - 1])
    <2>1. k \in 0 .. n /\ k # 0
        OBVIOUS
    <2> QED BY <1>6, <2>1, Zenon DEF Hop
<1> QED BY <1>7, <1>8, <1>9 DEF ChaseRun, Chased

AliasRun(f, q, t, n) == f[0] = t /\ Followed(f, q.aliases, n) /\ ResolveAlias(q, t) = f[n]

\* Program::resolve_alias takes one hop per alias.
LEMMA AliasIs ==
    ASSUME NEW q, NEW t, NEW n \in Nat, n = Hops(q.aliases)
    PROVE  \E f : AliasRun(f, q, t, n)
<1> DEFINE T == {t} \cup {q.aliases[x] : x \in DOMAIN q.aliases}
           g == [x \in T |-> Through(q.aliases, x)]
           Is(f) == f = [k \in 0 .. n |->
                           IF k = 0 THEN t
                           ELSE IF IsName(f[k - 1]) /\ f[k - 1][2] \in DOMAIN q.aliases
                                THEN q.aliases[f[k - 1][2]]
                           ELSE f[k - 1]]
<1>1. g \in [T -> T]
    BY Zenon DEF Through
<1>2. PICK f \in [0 .. n -> T] : Iterated(f, t, g, n)
    <2> HIDE DEF g
    <2>1. t \in T
        OBVIOUS
    <2> HIDE DEF T
    <2> QED BY <1>1, <2>1, IterationExists
<1>3. f[0] = t
    BY <1>2 DEF Iterated
<1>4. ASSUME NEW k \in 0 .. n, k # 0 PROVE f[k] = Through(q.aliases, f[k - 1])
    <2>1. k - 1 \in 0 .. n
        BY <1>4
    <2>2. f[k] = g[f[k - 1]]
        <3> HIDE DEF g, T
        <3> QED BY <1>2, <1>4, Zenon DEF Iterated
    <2>3. f[k - 1] \in T
        <3> HIDE DEF T
        <3> QED BY <1>2, <2>1
    <2> QED BY <2>2, <2>3, Zenon
<1>5. Is(f)
    <2>1. f = [k \in 0 .. n |-> f[k]]
        <3> HIDE DEF T
        <3> QED BY <1>2
    <2>2. \A k \in 0 .. n :
             f[k] = IF k = 0 THEN t
                    ELSE IF IsName(f[k - 1]) /\ f[k - 1][2] \in DOMAIN q.aliases
                         THEN q.aliases[f[k - 1][2]]
                    ELSE f[k - 1]
        BY <1>3, <1>4, Zenon DEF Through
    <2> QED BY <2>1, <2>2, Zenon
<1> DEFINE h == CHOOSE e : Is(e)
<1>6. Is(h)
    <2> HIDE DEF Is
    <2> QED BY <1>5, Zenon
<1>7. ResolveAlias(q, t) = h[n]
    BY Zenon DEF ResolveAlias
<1> HIDE DEF h
<1>8. h[0] = t
    <2>1. 0 \in 0 .. n
        OBVIOUS
    <2> QED BY <1>6, <2>1, Zenon
<1>9. ASSUME NEW k \in 1 .. n PROVE h[k] = Through(q.aliases, h[k - 1])
    <2>1. k \in 0 .. n /\ k # 0
        OBVIOUS
    <2> QED BY <1>6, <2>1, Zenon DEF Through
<1> QED BY <1>7, <1>8, <1>9 DEF AliasRun, Followed

\* What the simulator makes of the end of a chain of defines.
Numbered(q, x) ==
    IF IsName(x) /\ x[2] \in DOMAIN q.labels THEN Num(q.labels[x[2]])
    ELSE IF x[1] = "num" THEN x
    ELSE NoToken

NumberRun(f, q, t, n) ==
    /\ f[0] = ResolveAlias(q, t)
    /\ Followed(f, q.defines, n)
    /\ ResolveNumber(q, t) = Numbered(q, f[n])

\* Program::resolve_number goes on through the defines.
LEMMA NumberIs ==
    ASSUME NEW q, NEW t, NEW n \in Nat, n = Hops(q.defines)
    PROVE  \E f : NumberRun(f, q, t, n)
<1> DEFINE u == ResolveAlias(q, t)
           T == {u} \cup {q.defines[x] : x \in DOMAIN q.defines}
           g == [x \in T |-> Through(q.defines, x)]
           Is(f) == f = [k \in 0 .. n |->
                           IF k = 0 THEN ResolveAlias(q, t)
                           ELSE IF IsName(f[k - 1]) /\ f[k - 1][2] \in DOMAIN q.defines
                                THEN q.defines[f[k - 1][2]]
                           ELSE f[k - 1]]
<1>1. g \in [T -> T]
    <2> HIDE DEF u
    <2> QED BY Zenon DEF Through
<1>2. PICK f \in [0 .. n -> T] : Iterated(f, u, g, n)
    <2> HIDE DEF g, u
    <2>1. u \in T
        OBVIOUS
    <2> HIDE DEF T
    <2> QED BY <1>1, <2>1, IterationExists
<1>3. f[0] = u
    BY <1>2 DEF Iterated
<1>4. ASSUME NEW k \in 0 .. n, k # 0 PROVE f[k] = Through(q.defines, f[k - 1])
    <2>1. k - 1 \in 0 .. n
        BY <1>4
    <2>2. f[k] = g[f[k - 1]]
        <3> HIDE DEF g, T, u
        <3> QED BY <1>2, <1>4, Zenon DEF Iterated
    <2>3. f[k - 1] \in T
        <3> HIDE DEF T
        <3> QED BY <1>2, <2>1
    <2> QED BY <2>2, <2>3, Zenon
<1>5. Is(f)
    <2>1. f = [k \in 0 .. n |-> f[k]]
        <3> HIDE DEF T
        <3> QED BY <1>2
    <2>2. \A k \in 0 .. n :
             f[k] = IF k = 0 THEN ResolveAlias(q, t)
                    ELSE IF IsName(f[k - 1]) /\ f[k - 1][2] \in DOMAIN q.defines
                         THEN q.defines[f[k - 1][2]]
                    ELSE f[k - 1]
        BY <1>3, <1>4, Zenon DEF Through
    <2> QED BY <2>1, <2>2, Zenon
<1> DEFINE h == CHOOSE e : Is(e)
<1>6. Is(h)
    <2> HIDE DEF Is
    <2> QED BY <1>5, Zenon
<1>7. ResolveNumber(q, t) = Numbered(q, h[n])
    <2> DEFINE c == Hops(q.defines)
               e == (CHOOSE w : w = [k \in 0 .. c |->
                           IF k = 0 THEN ResolveAlias(q, t)
                           ELSE IF IsName(w[k - 1]) /\ w[k - 1][2] \in DOMAIN q.defines
                                THEN q.defines[w[k - 1][2]]
                           ELSE w[k - 1]])[c]
    <2>1. ResolveNumber(q, t) = Numbered(q, e)
        BY DEF ResolveNumber, Numbered
    <2>2. e = h[n]
        BY Zenon
    <2> HIDE DEF e, h
    <2> QED BY <2>1, <2>2
<1> HIDE DEF h
<1>8. h[0] = ResolveAlias(q, t)
    <2>1. 0 \in 0 .. n
        OBVIOUS
    <2> QED BY <1>6, <2>1, Zenon
<1>9. ASSUME NEW k \in 1 .. n PROVE h[k] = Through(q.defines, h[k - 1])
    <2>1. k \in 0 .. n /\ k # 0
        OBVIOUS
    <2> QED BY <1>6, <2>1, Zenon DEF Through
<1> QED BY <1>7, <1>8, <1>9 DEF NumberRun, Followed

ReachRun(f, p, n) ==
    /\ f[0] = {0} \cap Lines(p)
    /\ \A k \in 1 .. n : f[k] = f[k - 1] \cup UNION {Edges(p, i) : i \in f[k - 1]}
    /\ \A k \in 0 .. n : f[k] \subseteq Lines(p)
    /\ Reachable(p) = f[n]

\* The search of analyze_control_flow grows by the edges out of what it has.
LEMMA ReachIs ==
    ASSUME NEW p, NEW n \in Nat, n = Len(p)
    PROVE  \E f : ReachRun(f, p, n)
<1> DEFINE T == SUBSET Lines(p)
           g == [x \in T |-> x \cup UNION {Edges(p, i) : i \in x}]
           Is(f) == f = [k \in 0 .. n |->
                           IF k = 0 THEN {0} \cap Lines(p)
                           ELSE f[k - 1] \cup UNION {Edges(p, i) : i \in f[k - 1]}]
<1>0. \A i : Edges(p, i) \subseteq Lines(p)
    BY DEF Edges
<1>1. g \in [T -> T]
    BY <1>0
<1>2. PICK f \in [0 .. n -> T] : Iterated(f, {0} \cap Lines(p), g, n)
    <2> HIDE DEF g
    <2>1. {0} \cap Lines(p) \in T
        OBVIOUS
    <2> HIDE DEF T
    <2> QED BY <1>1, <2>1, IterationExists
<1>3. f[0] = {0} \cap Lines(p)
    BY <1>2 DEF Iterated
<1>4. ASSUME NEW k \in 0 .. n, k # 0
      PROVE  f[k] = f[k - 1] \cup UNION {Edges(p, i) : i \in f[k - 1]}
    <2>1. k - 1 \in 0 .. n
        BY <1>4
    <2>2. f[k] = g[f[k - 1]]
        <3> HIDE DEF g, T
        <3> QED BY <1>2, <1>4, Zenon DEF Iterated
    <2>3. f[k - 1] \in T
        <3> HIDE DEF T
        <3> QED BY <1>2, <2>1
    <2> QED BY <2>2, <2>3, Zenon
<1>5. Is(f)
    <2>1. f = [k \in 0 .. n |-> f[k]]
        <3> HIDE DEF T
        <3> QED BY <1>2
    <2>2. \A k \in 0 .. n :
             f[k] = IF k = 0 THEN {0} \cap Lines(p)
                    ELSE f[k - 1] \cup UNION {Edges(p, i) : i \in f[k - 1]}
        BY <1>3, <1>4, Zenon
    <2> QED BY <2>1, <2>2, Zenon
<1> DEFINE h == CHOOSE e : Is(e)
<1>6. Is(h)
    <2> HIDE DEF Is
    <2> QED BY <1>5, Zenon
<1>7. Reachable(p) = h[n]
    BY Zenon DEF Reachable
<1> HIDE DEF h
<1>8. h[0] = {0} \cap Lines(p)
    <2>1. 0 \in 0 .. n
        OBVIOUS
    <2> QED BY <1>6, <2>1, Zenon
<1>9. ASSUME NEW k \in 1 .. n
      PROVE  h[k] = h[k - 1] \cup UNION {Edges(p, i) : i \in h[k - 1]}
    <2>1. k \in 0 .. n /\ k # 0
        OBVIOUS
    <2> QED BY <1>6, <2>1, Zenon
<1> DEFINE X == {k \in 0 .. n : h[k] \subseteq Lines(p)}
<1>10. 0 \in X
    BY <1>8
<1>11. ASSUME NEW k \in 0 .. n, k \in X, k < n PROVE k + 1 \in X
    <2>1. k + 1 \in 1 .. n /\ k + 1 \in 0 .. n /\ k + 1 - 1 = k
        BY <1>11
    <2>2. h[k + 1] = h[k] \cup UNION {Edges(p, i) : i \in h[k]}
        BY <1>9, <2>1
    <2> QED BY <1>0, <1>11, <2>1, <2>2
<1>12. \A k \in 0 .. n : k \in X
    <2> HIDE DEF X
    <2> QED BY <1>10, <1>11, UpTo
<1> QED BY <1>7, <1>8, <1>9, <1>12 DEF ReachRun

-----------------------------------------------------------------------------
(* Declarations.  Without duplicates every name has one line.              *)

\* A text as the parser has it: a sequence of lines.
IsText(p) == Len(p) \in Nat /\ DOMAIN p = 1 .. Len(p)

\* Every declaration that has two operands in the language has two.
Complete(p) ==
    \A n \in Lines(p) : LineAt(p, n).kind = "instruction" /\ LineAt(p, n).op \in Declarations
                            => Len(LineAt(p, n).args) = 2

DeclaredKind(p, n) == IF LineAt(p, n).kind = "label" THEN "label" ELSE LineAt(p, n).op

\* A text has as many lines as its length says.
LEMMA LinesFinite ==
    ASSUME NEW p, IsText(p)
    PROVE  IsFiniteSet(Lines(p)) /\ Cardinality(Lines(p)) = Len(p)
<1>1. Len(p) - 1 \in Int /\ Len(p) \in Nat
    BY DEF IsText
<1>2. IsFiniteSet(0 .. (Len(p) - 1)) /\ Cardinality(0 .. (Len(p) - 1)) = IF 0 > Len(p) - 1 THEN 0 ELSE (Len(p) - 1) - 0 + 1
    BY <1>1, FS_Interval
<1> QED BY <1>1, <1>2 DEF Lines

\* It declares finitely many names.
LEMMA NamesFinite ==
    ASSUME NEW p, IsText(p)
    PROVE  IsFiniteSet(Names(p)) /\ Cardinality(Names(p)) \in Nat
<1> DEFINE D == {k \in Lines(p) : DeclaresOn(p, k)}
<1>1. IsFiniteSet(D)
    BY LinesFinite, FS_Subset
<1>2. IsFiniteSet({NameOn(p, n) : n \in D})
    <2> HIDE DEF D
    <2> DEFINE f == [n \in D |-> NameOn(p, n)]
               I == {NameOn(p, n) : n \in D}
    <2>1. f \in [D -> I]
        OBVIOUS
    <2>2. \A y \in I : \E x \in D : f[x] = y
        OBVIOUS
    <2>3. f \in Surjection(D, I)
        BY <2>1, <2>2 DEF Surjection
    <2> HIDE DEF f, I
    <2>4. IsFiniteSet(I)
        BY <1>1, <2>3, FS_Surjection
    <2> QED BY <2>4 DEF I
<1> QED BY <1>2, FS_CardinalityType DEF Names

\* Without duplicates a name has one declaration, the one insert_symbol keeps.
LEMMA OneLine ==
    ASSUME NEW p, IsText(p), ~HasDuplicates(p), NEW n \in Lines(p), DeclaresOn(p, n)
    PROVE  /\ NameOn(p, n) \in Names(p)
           /\ DeclarationsOf(p, NameOn(p, n)) = {n}
           /\ DeclarationLine(p, NameOn(p, n)) = n
<1> DEFINE x == NameOn(p, n)
           D == DeclarationsOf(p, x)
<1>1. x \in Names(p) /\ n \in D
    BY Zenon DEF Names, DeclarationsOf
<1>2. IsFiniteSet(D)
    BY LinesFinite, FS_Subset DEF DeclarationsOf
<1>3. Cardinality(D) \in Nat /\ ~(Cardinality(D) > 1)
    BY <1>1, <1>2, FS_CardinalityType DEF HasDuplicates
<1> HIDE DEF D
<1>4. Cardinality(D) # 0
    BY <1>1, <1>2, FS_EmptySet
<1>5. Cardinality(D) = 1
    BY <1>3, <1>4
<1>6. D = {n}
    BY <1>1, <1>2, <1>5, FS_Singleton
<1>7. Min({n}) = n
    <2>1. n \in Int
        BY DEF Lines, IsText
    <2> QED BY <2>1 DEF Min
<1> QED BY <1>1, <1>6, <1>7 DEF D, DeclarationLine

\* So the first declaration, which the analysis keeps, and the last, which
\* Program::compile keeps, are the same.
LEMMA DeclaredOnce ==
    ASSUME NEW p, IsText(p), ~HasDuplicates(p), NEW kind, NEW x \in DeclaredAs(p, kind)
    PROVE  \E n \in Lines(p) : /\ DeclaresOn(p, n) /\ NameOn(p, n) = x
                               /\ DeclaredKind(p, n) = kind
                               /\ x \in Names(p) /\ DeclarationLine(p, x) = n
                               /\ LastOf(p, x, {kind}) = n
                               /\ SymbolKind(p, x) = kind
<1>1. PICK n \in Lines(p) : DeclaresOn(p, n) /\ NameOn(p, n) = x /\ DeclaredKind(p, n) = kind
    BY Zenon DEF DeclaredAs, DeclaredKind
<1>2. x \in Names(p) /\ DeclarationsOf(p, x) = {n} /\ DeclarationLine(p, x) = n
    BY <1>1, OneLine
<1>3. {m \in DeclarationsOf(p, x) : DeclaredKind(p, m) \in {kind}} = {n}
    BY <1>1, <1>2
<1>4. Max({n}) = n
    <2>1. n \in Int
        BY DEF Lines, IsText
    <2> QED BY <2>1 DEF Max
<1>5. LastOf(p, x, {kind}) = n
    <2>1. LastOf(p, x, {kind}) = Max({m \in DeclarationsOf(p, x) : DeclaredKind(p, m) \in {kind}})
        BY Zenon DEF LastOf, DeclaredKind
    <2> QED BY <1>3, <1>4, <2>1
<1>6. SymbolKind(p, x) = kind
    BY <1>1, <1>2 DEF SymbolKind, DeclaredKind
<1> QED BY <1>1, <1>2, <1>5, <1>6

\* The compiler's tables say what the symbols of the analysis say.
Tables(p, q) ==
    /\ \A x \in DOMAIN q.aliases : /\ x \in Names(p) /\ SymbolKind(p, x) = "alias"
                                   /\ q.aliases[x] = SymbolValue(p, x)
    /\ \A x \in DOMAIN q.defines : /\ x \in Names(p) /\ SymbolKind(p, x) = "define"
                                   /\ q.defines[x] = SymbolValue(p, x)
    /\ \A x \in DOMAIN q.labels : /\ x \in Names(p) /\ SymbolKind(p, x) = "label"
                                  /\ q.labels[x] = DeclarationLine(p, x)
                                  /\ SymbolValue(p, x) = NoToken

\* The parts of a compiled program.
LEMMA CompileFields ==
    ASSUME NEW p
    PROVE  LET q == Compile(p)
           IN  /\ q.length = Len(p)
               /\ q.operations = [n \in {k \in Lines(p) : /\ LineAt(p, k).kind = "instruction"
                                                          /\ LineAt(p, k).op \notin Declarations}
                                    |-> [op |-> LineAt(p, n).op, args |-> LineAt(p, n).args]]
               /\ q.labels = [x \in DeclaredAs(p, "label") |-> LastOf(p, x, {"label"})]
               /\ q.defines = [x \in DeclaredAs(p, "define") |->
                                  LineAt(p, LastOf(p, x, {"define"})).args[2]]
               /\ q.aliases = [x \in DeclaredAs(p, "alias") |->
                                  LineAt(p, LastOf(p, x, {"alias"})).args[2]]
BY DEF Compile

\* The tables of the simulator hold what the symbols of the analysis say.
LEMMA TablesAgree ==
    ASSUME NEW p, IsText(p), ~HasDuplicates(p), Complete(p)
    PROVE  Tables(p, Compile(p))
<1> DEFINE q == Compile(p)
<1>0. /\ q.labels = [x \in DeclaredAs(p, "label") |-> LastOf(p, x, {"label"})]
      /\ q.defines = [x \in DeclaredAs(p, "define") |-> LineAt(p, LastOf(p, x, {"define"})).args[2]]
      /\ q.aliases = [x \in DeclaredAs(p, "alias") |-> LineAt(p, LastOf(p, x, {"alias"})).args[2]]
    BY CompileFields
<1> HIDE DEF q
<1>1. ASSUME NEW kind \in {"alias", "define"}, NEW x \in DeclaredAs(p, kind)
      PROVE  /\ x \in Names(p) /\ SymbolKind(p, x) = kind
             /\ LineAt(p, LastOf(p, x, {kind})).args[2] = SymbolValue(p, x)
    <2>1. PICK n \in Lines(p) :
             /\ DeclaresOn(p, n) /\ DeclaredKind(p, n) = kind
             /\ x \in Names(p) /\ DeclarationLine(p, x) = n
             /\ LastOf(p, x, {kind}) = n /\ SymbolKind(p, x) = kind
        BY <1>1, DeclaredOnce
    <2>2. LineAt(p, n).kind # "label" /\ LineAt(p, n).op = kind
        BY <1>1, <2>1 DEF DeclaredKind
    <2>3. LineAt(p, n).kind = "instruction"
        BY <2>1, <2>2 DEF DeclaresOn
    <2>4. Len(LineAt(p, n).args) = 2
        BY <1>1, <2>2, <2>3 DEF Complete, Declarations
    <2>5. SymbolValue(p, x) = LineAt(p, n).args[2]
        BY <2>1, <2>2, <2>4 DEF SymbolValue
    <2> QED BY <2>1, <2>5
<1>2. ASSUME NEW x \in DeclaredAs(p, "label")
      PROVE  /\ x \in Names(p) /\ SymbolKind(p, x) = "label"
             /\ LastOf(p, x, {"label"}) = DeclarationLine(p, x)
             /\ SymbolValue(p, x) = NoToken
    <2>1. PICK n \in Lines(p) :
             /\ DeclaresOn(p, n) /\ DeclaredKind(p, n) = "label"
             /\ x \in Names(p) /\ DeclarationLine(p, x) = n
             /\ LastOf(p, x, {"label"}) = n /\ SymbolKind(p, x) = "label"
        BY <1>2, DeclaredOnce
    <2>2. LineAt(p, n).kind = "label"
        BY <2>1 DEF DeclaredKind, DeclaresOn, Declarations
    <2> QED BY <2>1, <2>2 DEF SymbolValue
<1>3. \A x \in DOMAIN q.aliases : /\ x \in Names(p) /\ SymbolKind(p, x) = "alias"
                                  /\ q.aliases[x] = SymbolValue(p, x)
    BY <1>0, <1>1
<1>4. \A x \in DOMAIN q.defines : /\ x \in Names(p) /\ SymbolKind(p, x) = "define"
                                  /\ q.defines[x] = SymbolValue(p, x)
    BY <1>0, <1>1
<1>5. \A x \in DOMAIN q.labels : /\ x \in Names(p) /\ SymbolKind(p, x) = "label"
                                 /\ q.labels[x] = DeclarationLine(p, x)
                                 /\ SymbolValue(p, x) = NoToken
    BY <1>0, <1>2
<1> QED BY <1>3, <1>4, <1>5 DEF Tables, q

\* The chase has hops enough for the aliases and the defines of a chain.
LEMMA HopsEnough ==
    ASSUME NEW p, IsText(p), NEW q, Tables(p, q)
    PROVE  /\ Hops(q.aliases) \in Nat /\ Hops(q.defines) \in Nat
           /\ Cardinality(Names(p)) \in Nat
           /\ Hops(q.aliases) + Hops(q.defines) <= Cardinality(Names(p))
<1> DEFINE A == DOMAIN q.aliases
           D == DOMAIN q.defines
<1>1. A \subseteq Names(p) /\ D \subseteq Names(p) /\ A \cap D = {}
    BY DEF Tables
<1>2. IsFiniteSet(Names(p)) /\ Cardinality(Names(p)) \in Nat
    BY NamesFinite
<1> HIDE DEF A, D
<1>3. IsFiniteSet(A) /\ IsFiniteSet(D)
    BY <1>1, <1>2, FS_Subset
<1>4. Cardinality(A) \in Nat /\ Cardinality(D) \in Nat
    BY <1>3, FS_CardinalityType
<1>5. Cardinality(A \cup D) = Cardinality(A) + Cardinality(D)
    <2>1. Cardinality(A \cup D) = Cardinality(A) + Cardinality(D) - Cardinality(A \cap D)
        BY <1>3, FS_Union
    <2>2. Cardinality(A \cap D) = 0
        BY <1>1, FS_EmptySet
    <2> QED BY <1>4, <2>1, <2>2
<1>6. A \cup D \subseteq Names(p)
    BY <1>1
<1>7. Cardinality(A \cup D) <= Cardinality(Names(p))
    BY <1>2, <1>6, FS_Subset
<1> QED BY <1>2, <1>4, <1>5, <1>7, HopsAssumption DEF A, D, Hops

\* The least element of a set of naturals.
LEMMA MinIn ==
    ASSUME NEW S, S \subseteq Nat, S # {}
    PROVE  Min(S) \in S /\ \A y \in S : Min(S) <= y
<1> DEFINE R == {z \in Nat \X Nat : z[1] < z[2]}
<1>1. IsWellFoundedOn(R, Nat)
    BY NatLessThanWellFounded, Zenon DEF OpToRel
<1>2. PICK m \in S : \A o \in S : ~(<<o, m>> \in R)
    <2> HIDE DEF R
    <2>1. S \in SUBSET Nat
        OBVIOUS
    <2> QED BY <1>1, <2>1, WFMin, Zenon
<1>3. \A y \in S : m <= y
    <2> SUFFICES ASSUME NEW y \in S PROVE m <= y
        OBVIOUS
    <2>1. y \in Nat /\ m \in Nat /\ ~(<<y, m>> \in R)
        BY <1>2
    <2> QED BY <2>1
<1> QED BY <1>2, <1>3, Zenon DEF Min

\* A symbol of kind label is declared on a line that is a label.
LEMMA KindOfLabel ==
    ASSUME NEW p, IsText(p), NEW x \in Names(p), SymbolKind(p, x) = "label"
    PROVE  LineAt(p, DeclarationLine(p, x)).kind = "label"
<1> DEFINE D == DeclarationsOf(p, x)
<1>1. D # {} /\ D \subseteq Lines(p)
    BY Zenon DEF Names, DeclarationsOf
<1>2. IsFiniteSet(D)
    BY <1>1, LinesFinite, FS_Subset
<1> DEFINE m == Min(D)
<1>3. m \in D
    <2>1. Lines(p) \subseteq Nat
        BY DEF Lines, IsText
    <2> QED BY <1>1, <2>1, MinIn
<1>4. DeclaresOn(p, m)
    BY <1>3 DEF DeclarationsOf
<1> QED BY <1>4 DEF SymbolKind, DeclarationLine, DeclaresOn, Declarations

-----------------------------------------------------------------------------
(* What the simulator resolves, the analysis resolves.                     *)

Subtable(p, table) == \A x \in DOMAIN table : x \in Names(p) /\ table[x] = SymbolValue(p, x)

Passes(c, m, x) == \E j \in 0 .. m : c[j] = x

\* A chain of the simulator from a token the chase passes is passed by the
\* chase too, within as many more hops.
LEMMA ChainPassed ==
    ASSUME NEW p, NEW N \in Nat, NEW c, Chased(c, p, N),
           NEW table, Subtable(p, table), NEW n \in Nat, NEW f, Followed(f, table, n),
           NEW i \in 0 .. N, c[i] = f[0], i + n <= N
    PROVE  Passes(c, i + n, f[n])
<1> DEFINE X == {k \in 0 .. n : \E j \in 0 .. (i + k) : c[j] = f[k]}
<1>1. 0 \in X
    <2>1. i \in 0 .. (i + 0)
        OBVIOUS
    <2> QED BY <2>1
<1>2. ASSUME NEW k \in 0 .. n, k \in X, k < n PROVE k + 1 \in X
    <2>1. PICK j \in 0 .. (i + k) : c[j] = f[k]
        BY <1>2
    <2>2. k + 1 \in 1 .. n /\ k + 1 - 1 = k /\ k + 1 \in 0 .. n
        BY <1>2
    <2>3. f[k + 1] = Through(table, f[k])
        BY <2>2 DEF Followed
    <2>4. CASE IsName(f[k]) /\ f[k][2] \in DOMAIN table
        <3>1. j + 1 \in 1 .. N /\ j + 1 - 1 = j /\ j + 1 \in 0 .. (i + (k + 1))
            BY <1>2, <2>2
        <3>2. c[j + 1] = Hop(p, c[j])
            BY <3>1 DEF Chased
        <3>3. Hop(p, c[j]) = SymbolValue(p, f[k][2])
            BY <2>1, <2>4 DEF Hop, IsSymbol, Subtable
        <3>4. f[k + 1] = SymbolValue(p, f[k][2])
            BY <2>3, <2>4 DEF Through, Subtable
        <3> QED BY <2>2, <3>1, <3>2, <3>3, <3>4
    <2>5. CASE ~(IsName(f[k]) /\ f[k][2] \in DOMAIN table)
        <3>1. f[k + 1] = f[k]
            BY <2>3, <2>5 DEF Through
        <3>2. j \in 0 .. (i + (k + 1))
            BY <2>2
        <3> QED BY <2>1, <2>2, <3>1, <3>2
    <2> QED BY <2>4, <2>5
<1>3. n \in X
    <2> HIDE DEF X
    <2>1. n \in 0 .. n
        OBVIOUS
    <2> QED BY <1>1, <1>2, <2>1, UpTo
<1> QED BY <1>3 DEF Passes

\* A chase that passes a token without a value ends in it.
LEMMA ChaseStays ==
    ASSUME NEW p, NEW N \in Nat, NEW c, Chased(c, p, N),
           NEW j \in 0 .. N, ~IsSymbol(p, c[j])
    PROVE  c[N] = c[j]
<1> DEFINE X == {k \in 0 .. (N - j) : c[j + k] = c[j]}
<1>0. N - j \in Nat /\ j \in Nat
    OBVIOUS
<1>1. 0 \in X
    BY <1>0
<1>2. ASSUME NEW k \in 0 .. (N - j), k \in X, k < N - j PROVE k + 1 \in X
    <2>1. j + (k + 1) \in 1 .. N /\ j + (k + 1) - 1 = j + k /\ k + 1 \in 0 .. (N - j)
        BY <1>2
    <2>2. c[j + (k + 1)] = Hop(p, c[j + k])
        BY <2>1 DEF Chased
    <2>3. Hop(p, c[j]) = c[j]
        BY DEF Hop
    <2> QED BY <1>2, <2>1, <2>2, <2>3
<1>3. N - j \in X
    <2> HIDE DEF X
    <2>1. N - j \in 0 .. (N - j)
        BY <1>0
    <2> QED BY <1>0, <1>1, <1>2, <2>1, UpTo
<1>4. j + (N - j) = N
    OBVIOUS
<1> QED BY <1>3, <1>4

\* A chase that passes a label comes to nothing.
LEMMA LabelSettles ==
    ASSUME NEW p, IsText(p), NEW N \in Nat, NEW c, Chased(c, p, N),
           NEW j \in 0 .. N, IsLabel(p, c[j])
    PROVE  Settled(p, c[N]) = NoToken
<1> DEFINE e == c[j]
<1>1. CASE j = N
    BY <1>1 DEF IsLabel, Settled
<1>2. CASE j # N
    <2>1. j + 1 \in 1 .. N /\ j + 1 - 1 = j /\ j + 1 \in 0 .. N
        BY <1>2
    <2>2. c[j + 1] = Hop(p, e)
        BY <2>1 DEF Chased
    <2>3. IsSymbol(p, e) /\ e[2] \in Names(p) /\ SymbolKind(p, e[2]) = "label"
        BY DEF IsLabel, IsSymbol
    <2> HIDE DEF e
    <2>4. SymbolValue(p, e[2]) = NoToken
        BY <2>3, KindOfLabel DEF SymbolValue
    <2>5. ~IsSymbol(p, NoToken)
        BY DEF IsSymbol, IsName, NoToken
    <2>6. c[j + 1] = NoToken
        BY <2>2, <2>3, <2>4 DEF Hop
    <2>7. c[N] = c[j + 1]
        BY <2>1, <2>5, <2>6, ChaseStays
    <2> QED BY <2>5, <2>6, <2>7 DEF Settled
<1> QED BY <1>1, <1>2

\* resolve_symbol_value finds nothing behind a label.
LEMMA LabelResolves ==
    ASSUME NEW p, IsText(p), NEW t, IsLabel(p, t)
    PROVE  Resolve(p, t) = NoToken
<1> DEFINE N == Cardinality(Names(p))
<1>1. N \in Nat
    BY NamesFinite
<1>2. PICK c : ChaseRun(c, p, t, N)
    BY <1>1, ChaseIs
<1>3. Chased(c, p, N) /\ c[0] = t /\ Chase(p, t) = c[N] /\ 0 \in 0 .. N
    BY <1>1, <1>2 DEF ChaseRun
<1> HIDE DEF N
<1>4. Settled(p, c[N]) = NoToken
    BY <1>1, <1>3, LabelSettles
<1> QED BY <1>3, <1>4 DEF Resolve

\* A register the simulator finds behind aliases is the one the analysis finds.
LEMMA RegisterAgrees ==
    ASSUME NEW p, IsText(p), NEW q, Tables(p, q), NEW t, ~IsName(ResolveAlias(q, t))
    PROVE  Resolve(p, t) = ResolveAlias(q, t)
<1> DEFINE N == Cardinality(Names(p))
           A == Hops(q.aliases)
           e == ResolveAlias(q, t)
<1>1. N \in Nat /\ A \in Nat /\ A <= N
    BY HopsEnough
<1> HIDE DEF e
<1>2. PICK c : ChaseRun(c, p, t, N)
    BY <1>1, ChaseIs
<1>3. PICK f : AliasRun(f, q, t, A)
    BY <1>1, AliasIs
<1>4. e = f[A]
    BY <1>3 DEF AliasRun, e
<1> HIDE DEF N, A
<1>5. PICK j \in 0 .. A : c[j] = f[A]
    <2>1. Chased(c, p, N)
        BY <1>2 DEF ChaseRun
    <2>2. Followed(f, q.aliases, A)
        BY <1>3 DEF AliasRun
    <2>3. 0 \in 0 .. N /\ c[0] = f[0] /\ 0 + A <= N /\ 0 + A = A
        BY <1>1, <1>2, <1>3 DEF ChaseRun, AliasRun
    <2>4. Subtable(p, q.aliases)
        BY DEF Tables, Subtable
    <2>5. Passes(c, 0 + A, f[A])
        BY <1>1, <2>1, <2>2, <2>3, <2>4, ChainPassed
    <2> QED BY <2>3, <2>5 DEF Passes
<1>6. ~IsSymbol(p, c[j]) /\ j \in 0 .. N
    BY <1>1, <1>4, <1>5 DEF IsSymbol, e
<1>7. c[N] = c[j]
    <2>1. Chased(c, p, N)
        BY <1>2 DEF ChaseRun
    <2> QED BY <1>1, <1>6, <2>1, ChaseStays
<1>8. Chase(p, t) = c[N]
    BY <1>2 DEF ChaseRun
<1>9. Chase(p, t) = e /\ ~IsSymbol(p, e)
    BY <1>4, <1>5, <1>6, <1>7, <1>8
<1> QED BY <1>9 DEF Resolve, Settled, e

\* The end of the simulator's chain is a token the chase passes.
LEMMA NumberAgrees ==
    ASSUME NEW p, IsText(p), NEW q, Tables(p, q), NEW t
    PROVE  \E e : /\ ResolveNumber(q, t) = Numbered(q, e)
                  /\ ~IsSymbol(p, e) => Resolve(p, t) = e
                  /\ IsLabel(p, e) => Resolve(p, t) = NoToken
                  /\ \/ e = t
                     \/ IsName(t) /\ t[2] \in DOMAIN q.aliases
                     \/ \E x \in DOMAIN q.defines : e = q.defines[x]
<1> DEFINE N == Cardinality(Names(p))
           A == Hops(q.aliases)
           D == Hops(q.defines)
<1>1. N \in Nat /\ A \in Nat /\ D \in Nat /\ A + D <= N
    BY HopsEnough
<1>2. PICK c : ChaseRun(c, p, t, N)
    BY <1>1, ChaseIs
<1>3. PICK f : AliasRun(f, q, t, A)
    BY <1>1, AliasIs
<1>4. PICK g : NumberRun(g, q, t, D)
    BY <1>1, NumberIs
<1> HIDE DEF N, A, D
<1>5. Chased(c, p, N)
    BY <1>2 DEF ChaseRun
<1>6. PICK i \in 0 .. A : c[i] = f[A]
    <2>2. Followed(f, q.aliases, A)
        BY <1>3 DEF AliasRun
    <2>3. 0 \in 0 .. N /\ c[0] = f[0] /\ 0 + A <= N /\ 0 + A = A
        BY <1>1, <1>2, <1>3 DEF ChaseRun, AliasRun
    <2>4. Subtable(p, q.aliases)
        BY DEF Tables, Subtable
    <2>5. Passes(c, 0 + A, f[A])
        BY <1>1, <1>5, <2>2, <2>3, <2>4, ChainPassed
    <2> QED BY <2>3, <2>5 DEF Passes
<1>7. Followed(g, q.defines, D)
    BY <1>4 DEF NumberRun
<1>8. PICK j \in 0 .. (i + D) : c[j] = g[D]
    <2>3. i \in 0 .. N /\ i + D <= N
        BY <1>1
    <2>4. c[i] = g[0]
        BY <1>3, <1>4, <1>6 DEF AliasRun, NumberRun
    <2>5. Subtable(p, q.defines)
        BY DEF Tables, Subtable
    <2>6. Passes(c, i + D, g[D])
        BY <1>1, <1>5, <1>7, <2>3, <2>4, <2>5, ChainPassed
    <2> QED BY <2>6 DEF Passes
<1>9. j \in 0 .. N
    BY <1>1
<1> DEFINE e == g[D]
<1>10. ResolveNumber(q, t) = Numbered(q, e)
    BY <1>4 DEF NumberRun
<1>11. Chase(p, t) = c[N]
    BY <1>2 DEF ChaseRun
<1>12. ASSUME ~IsSymbol(p, e) PROVE Resolve(p, t) = e
    <2>1. c[j] = e /\ ~IsSymbol(p, c[j])
        BY <1>8, <1>12
    <2>2. c[N] = e
        BY <1>1, <1>5, <1>9, <2>1, ChaseStays
    <2> QED BY <1>11, <1>12, <2>2 DEF Resolve, Settled
<1>13. ASSUME IsLabel(p, e) PROVE Resolve(p, t) = NoToken
    <2>1. IsLabel(p, c[j])
        BY <1>8, <1>13
    <2>2. Settled(p, c[N]) = NoToken
        BY <1>1, <1>5, <1>9, <2>1, LabelSettles
    <2> QED BY <1>11, <2>2 DEF Resolve
<1>14. \/ e = t
       \/ IsName(t) /\ t[2] \in DOMAIN q.aliases
       \/ \E x \in DOMAIN q.defines : e = q.defines[x]
    <2> SUFFICES ASSUME ~(IsName(t) /\ t[2] \in DOMAIN q.aliases)
                 PROVE  e = t \/ \E x \in DOMAIN q.defines : e = q.defines[x]
        OBVIOUS
    <2> DEFINE X == {k \in 0 .. A : f[k] = t}
               Y == {k \in 0 .. D : g[k] = t \/ \E x \in DOMAIN q.defines : g[k] = q.defines[x]}
    <2>1. A \in X
        <3>1. 0 \in X
            BY <1>1, <1>3 DEF AliasRun
        <3>2. ASSUME NEW k \in 0 .. A, k \in X, k < A PROVE k + 1 \in X
            <4>1. k + 1 \in 1 .. A /\ k + 1 - 1 = k /\ k + 1 \in 0 .. A
                BY <1>1, <3>2
            <4>2. f[k + 1] = Through(q.aliases, f[k])
                BY <1>3, <4>1 DEF AliasRun, Followed
            <4> QED BY <3>2, <4>1, <4>2 DEF Through
        <3> HIDE DEF X
        <3>3. A \in 0 .. A
            BY <1>1
        <3> QED BY <1>1, <3>1, <3>2, <3>3, UpTo
    <2>2. g[0] = t
        BY <1>3, <1>4, <2>1 DEF AliasRun, NumberRun
    <2>3. D \in Y
        <3>1. 0 \in Y
            BY <1>1, <2>2
        <3>2. ASSUME NEW k \in 0 .. D, k \in Y, k < D PROVE k + 1 \in Y
            <4>1. k + 1 \in 1 .. D /\ k + 1 - 1 = k /\ k + 1 \in 0 .. D
                BY <1>1, <3>2
            <4>2. g[k + 1] = Through(q.defines, g[k])
                BY <1>7, <4>1 DEF Followed
            <4> QED BY <3>2, <4>1, <4>2 DEF Through
        <3> HIDE DEF Y
        <3>3. D \in 0 .. D
            BY <1>1
        <3> QED BY <1>1, <3>1, <3>2, <3>3, UpTo
    <2> QED BY <2>3
<1> QED BY <1>10, <1>12, <1>13, <1>14

-----------------------------------------------------------------------------
(* Reachability.                                                           *)

\* The search of the analysis has ended when it stops: a line that does not
\* add a line in one round adds none in a later one, and a program of n lines
\* cannot gain a line n times.
LEMMA ReachClosed ==
    ASSUME NEW p, IsText(p), NEW n \in Reachable(p), NEW m \in Edges(p, n)
    PROVE  m \in Reachable(p)
<1> DEFINE L == Len(p)
           Next1(W) == UNION {Edges(p, i) : i \in W}
<1>1. L \in Nat
    BY DEF IsText
<1>2. PICK f : ReachRun(f, p, L)
    BY <1>1, ReachIs
<1>3. IsFiniteSet(Lines(p)) /\ Cardinality(Lines(p)) = L
    BY LinesFinite
<1>4. ASSUME NEW k \in 0 .. L
      PROVE  /\ f[k] \subseteq Lines(p) /\ IsFiniteSet(f[k])
             /\ Cardinality(f[k]) \in Nat /\ Cardinality(f[k]) <= L
    <2>1. f[k] \subseteq Lines(p)
        BY <1>2 DEF ReachRun
    <2> QED BY <1>3, <2>1, FS_Subset, FS_CardinalityType
<1> DEFINE X == {k \in 0 .. L : Next1(f[k]) \subseteq f[k] \/ Cardinality(f[k]) >= k + 1}
<1>5. 0 \in X
    <2>0. 0 \in 0 .. L
        BY <1>1
    <2>1. f[0] = {0} \cap Lines(p)
        BY <1>2 DEF ReachRun
    <2>2. CASE L = 0
        <3>1. Lines(p) = {}
            BY <2>2 DEF Lines
        <3> QED BY <2>0, <2>1, <3>1
    <2>3. CASE L # 0
        <3>1. f[0] = {0}
            BY <1>1, <2>1, <2>3 DEF Lines
        <3>2. Cardinality(f[0]) = 1
            BY <3>1, FS_Singleton
        <3> QED BY <2>0, <3>2
    <2> QED BY <2>2, <2>3
<1>6. ASSUME NEW k \in 0 .. L, k \in X, k < L PROVE k + 1 \in X
    <2>1. k + 1 \in 1 .. L /\ k + 1 \in 0 .. L /\ k + 1 - 1 = k
        BY <1>1, <1>6
    <2>2. f[k + 1] = f[k] \cup Next1(f[k])
        BY <1>2, <2>1 DEF ReachRun
    <2>3. CASE Next1(f[k]) \subseteq f[k]
        <3>1. f[k + 1] = f[k]
            BY <2>2, <2>3
        <3> QED BY <2>1, <2>3, <3>1
    <2>4. CASE ~(Next1(f[k]) \subseteq f[k])
        <3> HIDE DEF Next1
        <3>1. f[k] \subseteq f[k + 1] /\ f[k] # f[k + 1]
            BY <2>2, <2>4
        <3>2. Cardinality(f[k]) >= k + 1
            BY <1>6, <2>4
        <3>3. Cardinality(f[k]) <= Cardinality(f[k + 1]) /\ Cardinality(f[k]) # Cardinality(f[k + 1])
            BY <1>4, <2>1, <3>1, FS_Subset
        <3>4. Cardinality(f[k]) \in Nat /\ Cardinality(f[k + 1]) \in Nat
            BY <1>4, <2>1
        <3>5. Cardinality(f[k + 1]) >= (k + 1) + 1
            BY <2>1, <3>2, <3>3, <3>4
        <3> QED BY <2>1, <3>5
    <2> QED BY <2>3, <2>4
<1>7. L \in X
    <2> HIDE DEF X, L
    <2>1. L \in 0 .. L
        BY <1>1
    <2> QED BY <1>1, <1>5, <1>6, <2>1, UpTo
<1>8. L \in 0 .. L
    BY <1>1
<1>9. Next1(f[L]) \subseteq f[L]
    <2>1. ~(Cardinality(f[L]) >= L + 1)
        BY <1>1, <1>4, <1>8
    <2> QED BY <1>7, <2>1
<1>10. Reachable(p) = f[L]
    BY <1>2 DEF ReachRun
<1> QED BY <1>9, <1>10

\* The search stays in the text and starts at line 0.
LEMMA ReachableLines ==
    ASSUME NEW p, IsText(p)
    PROVE  Reachable(p) \subseteq Lines(p) /\ (0 \in Lines(p) => 0 \in Reachable(p))
<1> DEFINE L == Len(p)
<1>1. L \in Nat
    BY DEF IsText
<1>2. PICK f : ReachRun(f, p, L)
    BY <1>1, ReachIs
<1>3. Reachable(p) = f[L] /\ f[L] \subseteq Lines(p)
    BY <1>1, <1>2 DEF ReachRun
<1> DEFINE X == {k \in 0 .. L : {0} \cap Lines(p) \subseteq f[k]}
<1>4. 0 \in X
    BY <1>1, <1>2 DEF ReachRun
<1>5. ASSUME NEW k \in 0 .. L, k \in X, k < L PROVE k + 1 \in X
    <2>1. k + 1 \in 1 .. L /\ k + 1 \in 0 .. L /\ k + 1 - 1 = k
        BY <1>1, <1>5
    <2>2. f[k + 1] = f[k] \cup UNION {Edges(p, i) : i \in f[k]}
        BY <1>2, <2>1 DEF ReachRun
    <2> QED BY <1>5, <2>1, <2>2
<1>6. L \in X
    <2> HIDE DEF X, L
    <2>1. L \in 0 .. L
        BY <1>1
    <2> QED BY <1>1, <1>4, <1>5, <2>1, UpTo
<1> QED BY <1>3, <1>6

\* From a reachable line control falls through to the operation the program
\* counter selects there.
LEMMA FallsToOperation ==
    ASSUME NEW p, IsText(p), NEW m \in Nat, m \in Reachable(p) \/ m >= Len(p)
    PROVE  OperationAtOrAfter(Compile(p), m) \in Reachable(p) \cup {Len(p)}
<1> DEFINE q == Compile(p)
           later == {k \in DOMAIN q.operations : k >= m}
           o == OperationAtOrAfter(q, m)
<1>1. q.length = Len(p) /\ Len(p) \in Nat
    BY CompileFields DEF IsText
<1>2. DOMAIN q.operations = {k \in Lines(p) : /\ LineAt(p, k).kind = "instruction"
                                              /\ LineAt(p, k).op \notin Declarations}
    <2>1. q.operations = [n \in {k \in Lines(p) : /\ LineAt(p, k).kind = "instruction"
                                                  /\ LineAt(p, k).op \notin Declarations}
                            |-> [op |-> LineAt(p, n).op, args |-> LineAt(p, n).args]]
        BY CompileFields
    <2> HIDE DEF q
    <2> QED BY <2>1
<1>3. CASE later = {}
    <2>1. o = q.length
        BY <1>3 DEF OperationAtOrAfter
    <2> HIDE DEF o
    <2>2. o = Len(p)
        BY <1>1, <2>1
    <2> QED BY <2>2 DEF o
<1> HIDE DEF q
<1>4. CASE later # {}
    <2>1. o = Min(later)
        BY <1>4 DEF OperationAtOrAfter
    <2>2. Lines(p) \subseteq Nat /\ \A k \in Lines(p) : k < Len(p)
        BY <1>1 DEF Lines
    <2>3. later \subseteq Nat
        BY <1>2, <2>2
    <2> HIDE DEF o
    <2>4. o \in later /\ \A y \in later : o <= y
        <3> HIDE DEF later
        <3> QED BY <1>4, <2>1, <2>3, MinIn
    <2>5. o \in Lines(p) /\ o >= m /\ o \in Nat /\ o < Len(p)
        BY <1>2, <2>2, <2>4
    <2>6. m \in Reachable(p)
        BY <1>1, <2>5
    <2> DEFINE X == {k \in 0 .. (o - m) : m + k \in Reachable(p)}
    <2>7. 0 \in X
        BY <2>5, <2>6
    <2>8. ASSUME NEW k \in 0 .. (o - m), k \in X, k < o - m PROVE k + 1 \in X
        <3>1. m + k \in Lines(p) /\ m + k < o /\ m + k >= m /\ m + (k + 1) \in Lines(p)
              /\ (m + k) + 1 = m + (k + 1) /\ k + 1 \in 0 .. (o - m)
            BY <1>1, <2>5, <2>8 DEF Lines
        <3>2. m + k \notin later
            <4> HIDE DEF later
            <4>1. m + k \in Nat
                BY <2>2, <3>1
            <4> QED BY <2>4, <2>5, <3>1, <4>1
        <3>3. ~(LineAt(p, m + k).kind = "instruction" /\ LineAt(p, m + k).op \notin Declarations)
            BY <1>2, <3>1, <3>2
        <3>4. FallsThrough(p, m + k)
            BY <3>3 DEF FallsThrough, IsInstruction, Declarations, UnconditionalBranches, LinkBranches
        <3>5. m + (k + 1) \in Edges(p, m + k)
            BY <3>1, <3>4 DEF Edges
        <3>6. m + k \in Reachable(p)
            BY <2>8
        <3> QED BY <3>1, <3>5, <3>6, ReachClosed
    <2>9. o - m \in X
        <3> HIDE DEF X
        <3>1. o - m \in Nat /\ o - m \in 0 .. (o - m)
            BY <2>5
        <3> QED BY <2>7, <2>8, <3>1, UpTo
    <2>10. m + (o - m) = o
        BY <2>5
    <2> QED BY <2>9, <2>10 DEF o, q
<1> QED BY <1>3, <1>4

-----------------------------------------------------------------------------
(* Where an operation leaves the program counter.                          *)

CpuFields == {"pc", "state", "regs", "stack"}

\* An operation that does not branch leaves counter and state as they were, or
\* fails.
Straight(c, r) ==
    /\ DOMAIN r.cpu = CpuFields
    /\ r.cpu.state = "Error" \/ (r.cpu.pc = c.pc /\ r.cpu.state = c.state)

\* A failure, and a result that leaves the processor alone, are straight.
LEMMA FailStraight ==
    ASSUME NEW c, DOMAIN c = CpuFields, NEW w
    PROVE  Straight(c, Fail(c, w)) /\ Straight(c, Result(c, w))
BY DEF Straight, Fail, Result, CpuFields

\* Writing a register is straight.
LEMMA WriteStraight ==
    ASSUME NEW c, DOMAIN c = CpuFields, NEW q, NEW w, NEW t, NEW v
    PROVE  Straight(c, WriteRegister(q, c, w, t, v))
<1>1. \A i : Straight(c, Result([c EXCEPT !.regs[i] = v[2]], w))
    BY DEF Straight, Result, CpuFields
<1> QED BY <1>1, FailStraight DEF WriteRegister

\* The stack operations are straight.
LEMMA StackStraight ==
    ASSUME NEW c, DOMAIN c = CpuFields, NEW q, NEW o, NEW w, o.op \in StackOps
    PROVE  Straight(c, ExecuteStack(q, o, c, w))
<1> DEFINE top == c.regs[SP]
           popped == [c EXCEPT !.regs[SP] = @ - 1]
           v(i) == Value(q, c, o.args[i])
<1>1. /\ DOMAIN popped = CpuFields /\ popped.pc = c.pc /\ popped.state = c.state
      /\ \A r : Straight(popped, r) => Straight(c, r)
    BY DEF Straight, CpuFields
<1>2. /\ Straight(c, Result([c EXCEPT !.stack[top] = v(1)[2], !.regs[SP] = @ + 1], w))
      /\ Straight(c, Result([c EXCEPT !.stack[v(1)[2]] = v(2)[2]], w))
    BY DEF Straight, Result, CpuFields
<1>3. CASE o.op = "push"
    <2>1. ExecuteStack(q, o, c, w) =
             IF ~ OnStack(top) \/ v(1) = NoToken THEN Fail(c, w)
             ELSE Result([c EXCEPT !.stack[top] = v(1)[2], !.regs[SP] = @ + 1], w)
        BY <1>3 DEF ExecuteStack
    <2> QED BY <1>2, <2>1, FailStraight
<1>4. CASE o.op = "pop"
    <2>1. ExecuteStack(q, o, c, w) =
             IF ~ OnStack(top - 1) THEN Fail(popped, w)
             ELSE WriteRegister(q, popped, w, o.args[1], Num(c.stack[top - 1]))
        BY <1>4 DEF ExecuteStack
    <2> HIDE DEF popped
    <2> QED BY <1>1, <2>1, FailStraight, WriteStraight
<1>5. CASE o.op = "peek"
    <2>1. ExecuteStack(q, o, c, w) =
             IF ~ OnStack(top - 1) THEN Fail(c, w)
             ELSE WriteRegister(q, c, w, o.args[1], Num(c.stack[top - 1]))
        BY <1>5 DEF ExecuteStack
    <2> QED BY <2>1, FailStraight, WriteStraight
<1>6. CASE o.op = "poke"
    <2>1. ExecuteStack(q, o, c, w) =
             IF v(1) = NoToken \/ v(2) = NoToken THEN Fail(c, w)
             ELSE IF ~ OnStack(v(1)[2]) THEN Fail(c, w)
             ELSE Result([c EXCEPT !.stack[v(1)[2]] = v(2)[2]], w)
        BY <1>6 DEF ExecuteStack
    <2> QED BY <1>2, <2>1, FailStraight
<1> QED BY <1>3, <1>4, <1>5, <1>6 DEF StackOps

\* get, put and clr are straight.
LEMMA MemoryStraight ==
    ASSUME NEW c, DOMAIN c = CpuFields, NEW q, NEW o, NEW w
    PROVE  Straight(c, ExecuteMemory(q, o, c, w))
<1>1. /\ \A a, x : Straight(c, Result([c EXCEPT !.stack[a] = x], w))
      /\ \A s : Straight(c, Result([c EXCEPT !.stack = s], w))
    BY DEF Straight, Result, CpuFields
<1> QED BY <1>1, FailStraight, WriteStraight, Zenon DEF ExecuteMemory

\* The loads and stores of devices are straight.
LEMMA DeviceStraight ==
    ASSUME NEW c, DOMAIN c = CpuFields, NEW q, NEW o, NEW w
    PROVE  Straight(c, ExecuteDevice(q, o, c, w))
<1>1. Straight(c, ExecuteBatchLoad(q, o, c, w))
    BY FailStraight, WriteStraight, Zenon DEF ExecuteBatchLoad
<1>2. Straight(c, ExecuteBatchStore(q, o, c, w))
    BY FailStraight, Zenon DEF ExecuteBatchStore
<1>3. Straight(c, ExecuteSlot(q, o, c, w))
    BY FailStraight, WriteStraight, Zenon DEF ExecuteSlot
<1>4. Straight(c, ExecuteField(q, o, c, w))
    BY FailStraight, WriteStraight, Zenon DEF ExecuteField
<1>5. Straight(c, WriteRegister(q, c, w, o.args[1], Num(Bool(DeviceReference(q, c, o.args[2]) # NoDevice))))
    BY WriteStraight
<1> QED BY <1>1, <1>2, <1>3, <1>4, <1>5, Zenon DEF ExecuteDevice

\* Arithmetic and selection are straight.
LEMMA AluStraight ==
    ASSUME NEW c, DOMAIN c = CpuFields, NEW q, NEW o, NEW w
    PROVE  Straight(c, ExecuteAlu(q, o, c, w))
BY FailStraight, WriteStraight, Zenon DEF ExecuteAlu

\* A branch that is taken leads to its target.
BranchesTo(q, o, line, r) ==
    /\ DOMAIN r.cpu = CpuFields
    /\ \E c : LET v == Value(q, c, Target(o))
       IN  /\ v # NoToken /\ ~(TargetLine(o, line, v[2]) < 0)
           /\ r.cpu.pc = TargetLine(o, line, v[2])

\* A branch fails, leads to its target, or was conditional and is not taken.
LEMMA BranchCases ==
    ASSUME NEW c, DOMAIN c = CpuFields, NEW q, NEW o, NEW line, NEW w
    PROVE  LET r == ExecuteBranch(q, o, line, c, w)
           IN  \/ DOMAIN r.cpu = CpuFields /\ r.cpu.state = "Error"
               \/ BranchesTo(q, o, line, r)
               \/ o.op \notin UnconditionalBranches /\ Straight(c, r)
<1> DEFINE linked == IF o.op \in LinkBranches THEN [c EXCEPT !.regs[RA] = line + 1] ELSE c
           x == IF o.op = "jal" THEN linked ELSE c
           v == Value(q, x, Target(o))
           T == TargetLine(o, line, v[2])
           b == BranchTo(q, o, line, c, w)
<1>1. DOMAIN linked = CpuFields
    BY DEF CpuFields
<1>2. ASSUME NEW d, DOMAIN d = CpuFields
      PROVE  DOMAIN Fail(d, w).cpu = CpuFields /\ Fail(d, w).cpu.state = "Error"
    BY <1>2 DEF Fail, Result, CpuFields
<1>3. \/ DOMAIN b.cpu = CpuFields /\ b.cpu.state = "Error"
      \/ BranchesTo(q, o, line, b)
    <2> HIDE DEF linked, T, v, x
    <2>1. b = IF v = NoToken THEN Fail(IF o.op = "jal" THEN linked ELSE c, w)
              ELSE IF T < 0 THEN Fail(linked, w)
              ELSE Result([linked EXCEPT !.pc = T], w)
        BY DEF BranchTo, linked, T, v, x
    <2> HIDE DEF b
    <2>2. CASE v = NoToken
        BY <1>1, <1>2, <2>1, <2>2
    <2>3. CASE v # NoToken /\ T < 0
        BY <1>1, <1>2, <2>1, <2>3
    <2>4. CASE v # NoToken /\ ~(T < 0)
        <3>1. b.cpu = [linked EXCEPT !.pc = T]
            BY <2>1, <2>4 DEF Result
        <3>2. DOMAIN b.cpu = CpuFields /\ b.cpu.pc = T
            BY <1>1, <3>1 DEF CpuFields
        <3> QED BY <2>4, <3>2 DEF BranchesTo, T, v
    <2> QED BY <2>2, <2>3, <2>4
<1>4. Taken(q, o, c) = "no" => o.op \notin UnconditionalBranches
    BY DEF Taken, UnconditionalBranches
<1>5. CASE Taken(q, o, c) = "yes"
    BY <1>3, <1>5 DEF ExecuteBranch
<1>6. CASE Taken(q, o, c) = "no"
    BY <1>4, <1>6, FailStraight DEF ExecuteBranch
<1>7. CASE Taken(q, o, c) \notin {"yes", "no"}
    BY <1>2, <1>7 DEF ExecuteBranch
<1> QED BY <1>5, <1>6, <1>7

Waits == {"yield", "sleep"}

\* The three ways an operation can leave counter and state.
Leaves(q, line, c, r) ==
    LET o == q.operations[line]
    IN  /\ DOMAIN r.cpu = CpuFields
        /\ \/ r.cpu.state \in {"Error", "Halted"}
           \/ /\ r.cpu.pc = line + 1 /\ o.op \notin {"hcf"} \cup UnconditionalBranches
              /\ r.cpu.state = IF o.op \in Waits THEN "Waiting" ELSE c.state
           \/ o.op \in BranchOps /\ BranchesTo(q, o, line, r)

Classes == <<AluOps, BranchOps, StackOps, MemoryOps, DeviceOps, {"yield", "sleep", "hcf"}>>

\* Every operation is in one class at most.
LEMMA ClassesDisjoint ==
    \A i \in 1 .. 6, j \in 1 .. 6 : i # j => Classes[i] \cap Classes[j] = {}
BY SMTT(60) DEF Classes, BranchOps, Branches, AbsoluteBranches, ComparisonBranches, RelativeBranches,
                DeviceBranches, AluOps, ArithmeticOps, SelectionOps, StackOps, MemoryOps,
                DeviceOps, BatchOps, BatchLoads, BatchStores

\* So the arm of Execute is the one of the operation's class.
LEMMA ExecuteIs ==
    ASSUME NEW q, NEW line, NEW c, NEW w
    PROVE  LET o == q.operations[line]
               d == [c EXCEPT !.pc = line + 1]
               r == Execute(q, line, c, w)
           IN  /\ o.op \in AluOps => r = ExecuteAlu(q, o, d, w)
               /\ o.op \in BranchOps => r = ExecuteBranch(q, o, line, d, w)
               /\ o.op \in StackOps => r = ExecuteStack(q, o, d, w)
               /\ o.op \in MemoryOps => r = ExecuteMemory(q, o, d, w)
               /\ o.op \in DeviceOps => r = ExecuteDevice(q, o, d, w)
<1> DEFINE o == q.operations[line]
           d == [c EXCEPT !.pc = line + 1]
<1>1. \A i \in 1 .. 6, j \in 1 .. 6 : o.op \in Classes[i] /\ i # j => o.op \notin Classes[j]
    BY ClassesDisjoint
<1>2. /\ Classes[1] = AluOps /\ Classes[2] = BranchOps /\ Classes[3] = StackOps
      /\ Classes[4] = MemoryOps /\ Classes[5] = DeviceOps /\ Classes[6] = {"yield", "sleep", "hcf"}
    BY DEF Classes
<1> HIDE DEF o, d
<1>3. CASE o.op \in AluOps
    <2>1. o.op \notin BranchOps \cup StackOps \cup MemoryOps \cup DeviceOps \cup {"yield", "sleep", "hcf"}
        BY <1>1, <1>2, <1>3
    <2> QED BY <1>3, <2>1 DEF Execute, o, d
<1>4. CASE o.op \in BranchOps
    <2>1. o.op \notin AluOps \cup StackOps \cup MemoryOps \cup DeviceOps \cup {"yield", "sleep", "hcf"}
        BY <1>1, <1>2, <1>4
    <2> QED BY <1>4, <2>1 DEF Execute, o, d
<1>5. CASE o.op \in StackOps
    <2>1. o.op \notin AluOps \cup BranchOps \cup MemoryOps \cup DeviceOps \cup {"yield", "sleep", "hcf"}
        BY <1>1, <1>2, <1>5
    <2> QED BY <1>5, <2>1 DEF Execute, o, d
<1>6. CASE o.op \in MemoryOps
    <2>1. o.op \notin AluOps \cup BranchOps \cup StackOps \cup DeviceOps \cup {"yield", "sleep", "hcf"}
        BY <1>1, <1>2, <1>6
    <2> QED BY <1>6, <2>1 DEF Execute, o, d
<1>7. CASE o.op \in DeviceOps
    <2>1. o.op \notin AluOps \cup BranchOps \cup StackOps \cup MemoryOps \cup {"yield", "sleep", "hcf"}
        BY <1>1, <1>2, <1>7
    <2> QED BY <1>7, <2>1 DEF Execute, o, d
<1> QED BY <1>3, <1>4, <1>5, <1>6, <1>7 DEF o, d

\* execute_operation leaves counter and state in one of these ways.
LEMMA ExecuteLeaves ==
    ASSUME NEW q, NEW line, NEW c, DOMAIN c = CpuFields, NEW w
    PROVE  Leaves(q, line, c, Execute(q, line, c, w))
<1> DEFINE o == q.operations[line]
           d == [c EXCEPT !.pc = line + 1]
           r == Execute(q, line, c, w)
<1>1. DOMAIN d = CpuFields /\ d.pc = line + 1 /\ d.state = c.state
    BY DEF CpuFields
<1> HIDE DEF d
<1>2. CASE o.op \in BranchOps
    <2>1. o.op # "hcf" /\ o.op \notin Waits
        BY <1>2 DEF Waits, BranchOps, Branches, AbsoluteBranches, ComparisonBranches, RelativeBranches,
                    DeviceBranches, AluOps, ArithmeticOps, SelectionOps
    <2>2. r = ExecuteBranch(q, o, line, d, w)
        BY <1>2, ExecuteIs DEF d
    <2> HIDE DEF r
    <2>3. \/ DOMAIN r.cpu = CpuFields /\ r.cpu.state = "Error"
          \/ BranchesTo(q, o, line, r)
          \/ o.op \notin UnconditionalBranches /\ Straight(d, r)
        BY <1>1, <2>2, BranchCases
    <2> QED BY <1>1, <1>2, <2>1, <2>3 DEF Leaves, Straight, BranchesTo, d, r
<1>3. CASE o.op \notin BranchOps
    <2>1. o.op \notin UnconditionalBranches
        BY <1>3 DEF BranchOps, Branches, AbsoluteBranches, RelativeBranches, UnconditionalBranches
    <2>2. CASE o.op \in AluOps \cup StackOps \cup MemoryOps \cup DeviceOps
        <3>1. o.op # "hcf" /\ o.op \notin Waits
            BY <2>2 DEF Waits, AluOps, ArithmeticOps, SelectionOps, StackOps, MemoryOps, DeviceOps,
                        BatchOps, BatchLoads, BatchStores
        <3>2. Straight(d, r)
            <4>1. /\ o.op \in AluOps => r = ExecuteAlu(q, o, d, w)
                  /\ o.op \in StackOps => r = ExecuteStack(q, o, d, w)
                  /\ o.op \in MemoryOps => r = ExecuteMemory(q, o, d, w)
                  /\ o.op \in DeviceOps => r = ExecuteDevice(q, o, d, w)
                BY ExecuteIs DEF d
            <4> HIDE DEF r, o
            <4> QED BY <1>1, <2>2, <4>1, AluStraight, StackStraight, MemoryStraight, DeviceStraight
        <3> HIDE DEF r
        <3> QED BY <1>1, <2>1, <3>1, <3>2 DEF Leaves, Straight, r
    <2>3. CASE o.op \notin AluOps \cup StackOps \cup MemoryOps \cup DeviceOps
        <3>1. \/ r \in {Fail(d, w), Result([d EXCEPT !.state = "Halted"], w)}
              \/ o.op \in Waits /\ r = Result([d EXCEPT !.state = "Waiting"], w)
            BY <1>3, <2>3 DEF Execute, d, Waits
        <3>2. o.op = "hcf" => r = Result([d EXCEPT !.state = "Halted"], w)
            BY <1>3, <2>3 DEF Execute, d
        <3> HIDE DEF r
        <3>3. /\ DOMAIN Fail(d, w).cpu = CpuFields /\ Fail(d, w).cpu.state = "Error"
              /\ \A s : LET e == Result([d EXCEPT !.state = s], w)
                        IN  DOMAIN e.cpu = CpuFields /\ e.cpu.state = s /\ e.cpu.pc = line + 1
            BY <1>1 DEF Fail, Result, CpuFields
        <3> QED BY <2>1, <3>1, <3>2, <3>3 DEF Leaves, r
    <2> QED BY <2>2, <2>3
<1> QED BY <1>2, <1>3

-----------------------------------------------------------------------------
(* Branches of the simulator and edges of the analysis.                    *)

\* The lines of a text.
LEMMA TextsAre ==
    ASSUME NEW p \in Texts
    PROVE  /\ IsText(p) /\ Lines(p) \subseteq Nat
           /\ \A n \in Lines(p) : /\ LineAt(p, n) \in TextLine
                                  /\ LineAt(p, n).args \in Seq(Tokens)
<1>1. p \in Seq(TextLine) /\ Len(p) \in Nat /\ DOMAIN p = 1 .. Len(p)
    BY DEF Texts
<1>2. \A n \in Lines(p) : n \in Nat /\ LineAt(p, n) \in TextLine
    BY <1>1 DEF Lines, LineAt
<1>3. \A l \in TextLine : l.args \in Seq(Tokens)
    BY DEF TextLine
<1> QED BY <1>1, <1>2, <1>3 DEF IsText

\* The line of a declaration, and what it declares.
LEMMA DeclarationIn ==
    ASSUME NEW p, IsText(p), NEW x \in Names(p)
    PROVE  DeclarationLine(p, x) \in Lines(p) /\ DeclaresOn(p, DeclarationLine(p, x))
<1> DEFINE D == DeclarationsOf(p, x)
<1>1. D # {} /\ D \subseteq Lines(p)
    BY Zenon DEF Names, DeclarationsOf
<1>2. Lines(p) \subseteq Nat
    BY DEF Lines, IsText
<1>3. Min(D) \in D
    BY <1>1, <1>2, MinIn
<1> QED BY <1>3 DEF DeclarationsOf, DeclarationLine

\* What resolve_symbol_value gives is a token.
LEMMA ResolvedIsToken ==
    ASSUME NEW p \in Texts, NEW t \in Tokens \cup {NoToken}
    PROVE  Resolve(p, t) \in Tokens \cup {NoToken}
<1> DEFINE N == Cardinality(Names(p))
           T == Tokens \cup {NoToken}
<1>0. IsText(p)
    BY TextsAre
<1>1. N \in Nat
    BY <1>0, NamesFinite
<1>2. PICK c : ChaseRun(c, p, t, N)
    BY <1>1, ChaseIs
<1>3. Chased(c, p, N) /\ c[0] = t /\ Chase(p, t) = c[N]
    BY <1>2 DEF ChaseRun
<1> HIDE DEF N
<1>4. ASSUME NEW x \in Names(p) PROVE SymbolValue(p, x) \in T
    <2> DEFINE line == LineAt(p, DeclarationLine(p, x))
    <2>1. line.args \in Seq(Tokens)
        BY <1>0, <1>4, DeclarationIn, TextsAre
    <2> HIDE DEF line
    <2>2. Len(line.args) < 2 \/ line.args[2] \in Tokens
        BY <2>1
    <2> QED BY <2>2 DEF SymbolValue, line
<1> DEFINE X == {k \in 0 .. N : c[k] \in T}
<1>5. 0 \in X
    BY <1>1, <1>3
<1>6. ASSUME NEW k \in 0 .. N, k \in X, k < N PROVE k + 1 \in X
    <2>1. k + 1 \in 1 .. N /\ k + 1 \in 0 .. N /\ k + 1 - 1 = k
        BY <1>1, <1>6
    <2>2. c[k + 1] = Hop(p, c[k])
        BY <1>3, <2>1 DEF Chased
    <2>3. c[k] \in T
        BY <1>6
    <2> HIDE DEF T
    <2>4. c[k + 1] \in T
        BY <1>4, <2>2, <2>3 DEF Hop, IsSymbol
    <2> QED BY <2>1, <2>4
<1>7. N \in X
    <2> HIDE DEF X
    <2>1. N \in 0 .. N
        BY <1>1
    <2> QED BY <1>1, <1>5, <1>6, <2>1, UpTo
<1> QED BY <1>3, <1>7 DEF Resolve, Settled

\* The last operand of a line is a token.
LEMMA TargetIsToken ==
    ASSUME NEW p \in Texts, NEW n \in Lines(p)
    PROVE  Target(LineAt(p, n)) \in Tokens \cup {NoToken}
<1>1. LineAt(p, n).args \in Seq(Tokens)
    BY TextsAre
<1> HIDE DEF Tokens
<1>2. LineAt(p, n).args = <<>> \/ LineAt(p, n).args[Len(LineAt(p, n).args)] \in Tokens
    BY <1>1
<1> QED BY <1>2 DEF Target

\* The programs on which analysis and simulator agree, and whose branches the
\* analysis can follow.
Agreed(p) ==
    /\ NoDeviceBranches(p) /\ NoRelativeLabels(p) /\ NoDefinedLabels(p)
    /\ ~HasDuplicates(p) /\ ~DynamicTarget(p)

\* A define whose value is no label is none in the table either.
LEMMA DefinedLine ==
    ASSUME NEW p, IsText(p), ~HasDuplicates(p), Complete(p),
           NEW x \in DOMAIN Compile(p).defines, NoDefinedLabels(p)
    PROVE  ~IsLabel(p, Compile(p).defines[x])
<1>1. /\ x \in DeclaredAs(p, "define")
      /\ Compile(p).defines[x] = LineAt(p, LastOf(p, x, {"define"})).args[2]
    <2> DEFINE q == Compile(p)
    <2>1. q.defines = [y \in DeclaredAs(p, "define") |-> LineAt(p, LastOf(p, y, {"define"})).args[2]]
        BY CompileFields
    <2>2. x \in DOMAIN q.defines
        OBVIOUS
    <2> HIDE DEF q
    <2>3. x \in DeclaredAs(p, "define") /\ q.defines[x] = LineAt(p, LastOf(p, x, {"define"})).args[2]
        BY <2>1, <2>2
    <2> QED BY <2>3 DEF q
<1>2. PICK n \in Lines(p) : DeclaresOn(p, n) /\ DeclaredKind(p, n) = "define" /\ LastOf(p, x, {"define"}) = n
    BY <1>1, DeclaredOnce
<1>3. LineAt(p, n).op = "define" /\ LineAt(p, n).kind = "instruction"
    BY <1>2 DEF DeclaredKind, DeclaresOn
<1>4. Len(LineAt(p, n).args) = 2
    BY <1>3 DEF Complete, Declarations
<1> QED BY <1>1, <1>2, <1>3, <1>4 DEF NoDefinedLabels

\* A branch without an edge the text tells has its target from the run.
LEMMA KnownTarget ==
    ASSUME NEW p, Lines(p) \subseteq Nat, ~DynamicTarget(p), NEW n \in Lines(p), IsBranchLine(p, n),
           NEW t, t = Target(LineAt(p, n)), ~IsLabel(p, t), ~ResolvesToNumber(p, t)
    PROVE  ~ResolvesToRegister(p, t) /\ ~(IsSymbol(p, t) /\ SymbolKind(p, t[2]) = "alias")
<1>1. BranchTarget(p, n) = -1
    BY DEF BranchTarget
<1>2. BranchTarget(p, n) \notin Lines(p)
    BY <1>1
<1> QED BY <1>2, Zenon DEF DynamicTarget

\* A branch the simulator takes leads where the analysis has an edge.
LEMMA BranchAgrees ==
    ASSUME NEW p \in Texts, Agreed(p), Complete(p), NEW q, q = Compile(p),
           NEW n \in DOMAIN q.operations, NEW o, o = q.operations[n], o.op \in BranchOps,
           NEW c, NEW v, v = Value(q, c, Target(o)), v # NoToken,
           NEW T, T = TargetLine(o, n, v[2]), ~(T < 0)
    PROVE  T \in Nat /\ T = BranchTarget(p, n) /\ IsBranchLine(p, n)
<1> DEFINE line == LineAt(p, n)
           t == Target(line)
<1>1. IsText(p) /\ Lines(p) \subseteq Nat /\ Tables(p, q)
    BY TextsAre, TablesAgree DEF Agreed
<1>2. n \in Lines(p) /\ line.kind = "instruction" /\ o = [op |-> line.op, args |-> line.args]
    <2>1. q.operations = [k \in {k \in Lines(p) : /\ LineAt(p, k).kind = "instruction"
                                                  /\ LineAt(p, k).op \notin Declarations}
                            |-> [op |-> LineAt(p, k).op, args |-> LineAt(p, k).args]]
        BY CompileFields
    <2> QED BY <2>1
<1>3. o.op = line.op /\ Target(o) = t
    BY <1>2 DEF Target
<1>4. IsBranchLine(p, n)
    <2>1. line.op \notin DeviceBranches
        BY <1>2 DEF Agreed, NoDeviceBranches
    <2> QED BY <1>2, <1>3, <2>1 DEF BranchOps, IsBranchLine, IsInstruction
<1>5. t \in Tokens \cup {NoToken}
    BY <1>2, TargetIsToken
<1> HIDE DEF line, t
<1>6. ASSUME ~IsLabel(p, t), ~ResolvesToNumber(p, t)
      PROVE  ~ResolvesToRegister(p, t) /\ ~(IsSymbol(p, t) /\ SymbolKind(p, t[2]) = "alias")
    BY <1>1, <1>2, <1>4, <1>6, KnownTarget DEF Agreed, t, line
<1>7. IsLabel(p, t) => Resolve(p, t) = NoToken
    BY <1>1, LabelResolves
<1>8. v = ResolveNumber(q, t)
    <2> SUFFICES ASSUME RegisterIndex(q, c, t) # NoRegister PROVE FALSE
        BY <1>3 DEF Value
    <2> DEFINE r == ResolveAlias(q, t)
    <2>1. r[1] = "reg" \/ r[1] = "ind"
        BY DEF RegisterIndex
    <2>2. ~IsName(r)
        BY <2>1 DEF IsName
    <2>3. Resolve(p, t) = r
        BY <1>1, <2>2, RegisterAgrees
    <2> HIDE DEF r
    <2>4. ~IsLabel(p, t) /\ ~ResolvesToNumber(p, t) /\ ResolvesToRegister(p, t)
        BY <1>7, <2>1, <2>3 DEF ResolvesToNumber, ResolvesToRegister, IsReg, NoToken
    <2> QED BY <1>6, <2>4
<1>9. PICK e : /\ ResolveNumber(q, t) = Numbered(q, e)
               /\ ~IsSymbol(p, e) => Resolve(p, t) = e
               /\ IsLabel(p, e) => Resolve(p, t) = NoToken
               /\ \/ e = t
                  \/ IsName(t) /\ t[2] \in DOMAIN q.aliases
                  \/ \E x \in DOMAIN q.defines : e = q.defines[x]
    BY <1>1, NumberAgrees
<1>10. CASE IsName(e) /\ e[2] \in DOMAIN q.labels
    <2>1. /\ e[2] \in Names(p) /\ SymbolKind(p, e[2]) = "label"
          /\ q.labels[e[2]] = DeclarationLine(p, e[2])
        BY <1>1, <1>10 DEF Tables
    <2>2. IsLabel(p, e)
        BY <1>10, <2>1 DEF IsLabel, IsSymbol
    <2>3. Resolve(p, t) = NoToken /\ ~ResolvesToNumber(p, t)
        BY <1>9, <2>2 DEF ResolvesToNumber, NoToken
    <2>4. v = Num(DeclarationLine(p, e[2]))
        BY <1>8, <1>9, <1>10, <2>1 DEF Numbered
    <2>5. v[2] = DeclarationLine(p, e[2])
        BY <2>4 DEF Num
    <2>6. DeclarationLine(p, e[2]) \in Nat
        BY <1>1, <2>1, DeclarationIn
    <2>7. e = t
        <3>1. ~(\E x \in DOMAIN q.defines : e = q.defines[x])
            BY <1>1, <2>2, DefinedLine DEF Agreed
        <3>2. ~(IsName(t) /\ t[2] \in DOMAIN q.aliases)
            <4> SUFFICES ASSUME IsName(t), t[2] \in DOMAIN q.aliases PROVE FALSE
                OBVIOUS
            <4>1. t[2] \in Names(p) /\ SymbolKind(p, t[2]) = "alias"
                BY <1>1 DEF Tables
            <4>2. IsSymbol(p, t) /\ ~IsLabel(p, t)
                BY <4>1 DEF IsSymbol, IsLabel
            <4> QED BY <1>6, <2>3, <4>1, <4>2
        <3> QED BY <1>9, <3>1, <3>2
    <2>8. o.op \notin RelativeBranches
        BY <1>2, <1>3, <2>2, <2>7 DEF Agreed, NoRelativeLabels, t, line
    <2>9. T = DeclarationLine(p, t[2])
        BY <2>5, <2>7, <2>8 DEF TargetLine
    <2>10. BranchTarget(p, n) = DeclarationLine(p, t[2])
        BY <2>2, <2>7 DEF BranchTarget, t, line
    <2> QED BY <1>4, <2>6, <2>7, <2>9, <2>10
<1>11. CASE ~(IsName(e) /\ e[2] \in DOMAIN q.labels)
    <2>1. e[1] = "num" /\ v = e
        BY <1>8, <1>9, <1>11 DEF Numbered
    <2>2. ~IsSymbol(p, e)
        BY <2>1 DEF IsSymbol, IsName
    <2>3. Resolve(p, t) = e /\ ResolvesToNumber(p, t) /\ NumberOf(p, t) = v[2]
        BY <1>9, <2>1, <2>2 DEF ResolvesToNumber, NumberOf
    <2>4. ~IsLabel(p, t)
        BY <1>7, <2>1, <2>3 DEF NoToken
    <2>5. e \in Tokens
        BY <1>5, <2>1, <2>3, ResolvedIsToken DEF NoToken
    <2>6. v[2] \in Int
        BY <2>1, <2>5 DEF Tokens, Plain, Base
    <2>7. n \in Nat
        BY <1>1, <1>2
    <2>8. T = IF line.op \in RelativeBranches THEN n + v[2] ELSE v[2]
        BY <1>3 DEF TargetLine
    <2>9. BranchTarget(p, n) = IF line.op \in RelativeBranches
                               THEN IF n + v[2] >= 0 THEN n + v[2] ELSE -1
                               ELSE IF v[2] >= 0 THEN v[2] ELSE -1
        BY <2>3, <2>4 DEF BranchTarget, t, line
    <2> QED BY <1>4, <2>6, <2>7, <2>8, <2>9
<1> QED BY <1>10, <1>11

\* So from a reachable operation the run comes to a reachable one, to the end,
\* or stops.
LEMMA StepReaches ==
    ASSUME NEW p \in Texts, Agreed(p), Complete(p), NEW q, q = Compile(p),
           NEW n \in DOMAIN q.operations, n \in Reachable(p),
           NEW c, NEW r, Leaves(q, n, c, r), r.cpu.state \notin {"Error", "Halted"}
    PROVE  OperationAtOrAfter(q, r.cpu.pc) \in Reachable(p) \cup {Len(p)}
<1> DEFINE o == q.operations[n]
           T == r.cpu.pc
<1>1. IsText(p) /\ Lines(p) \subseteq Nat
    BY TextsAre
<1>2. n \in Lines(p) /\ o.op = LineAt(p, n).op /\ n \in Nat
    <2>1. q.operations = [k \in {k \in Lines(p) : /\ LineAt(p, k).kind = "instruction"
                                                  /\ LineAt(p, k).op \notin Declarations}
                            |-> [op |-> LineAt(p, k).op, args |-> LineAt(p, k).args]]
        BY CompileFields
    <2> QED BY <1>1, <2>1
<1>3. T \in Nat /\ (T \in Lines(p) => T \in Edges(p, n))
    <2>1. CASE T = n + 1 /\ o.op \notin {"hcf"} \cup UnconditionalBranches
        <3>1. FallsThrough(p, n)
            BY <1>2, <2>1 DEF FallsThrough
        <3> QED BY <1>2, <2>1, <3>1 DEF Edges
    <2>2. CASE o.op \in BranchOps /\ BranchesTo(q, o, n, r)
        <3>0. PICK d : LET u == Value(q, d, Target(o))
                       IN  u # NoToken /\ ~(TargetLine(o, n, u[2]) < 0) /\ T = TargetLine(o, n, u[2])
            BY <2>2 DEF BranchesTo
        <3> DEFINE v == Value(q, d, Target(o))
        <3>1. v # NoToken /\ ~(TargetLine(o, n, v[2]) < 0) /\ T = TargetLine(o, n, v[2])
            BY <3>0
        <3> HIDE DEF v, o, T
        <3>2. v = Value(q, d, Target(o)) /\ o = q.operations[n]
            BY DEF v, o
        <3>3. T \in Nat /\ T = BranchTarget(p, n) /\ IsBranchLine(p, n)
            BY <2>2, <3>1, <3>2, BranchAgrees
        <3> QED BY <3>3 DEF Edges
    <2> QED BY <2>1, <2>2 DEF Leaves
<1> HIDE DEF T
<1>4. T \in Reachable(p) \/ T >= Len(p)
    <2>1. CASE T \in Lines(p)
        BY <1>1, <1>3, <2>1, ReachClosed
    <2>2. CASE T \notin Lines(p)
        BY <1>1, <1>3, <2>2 DEF Lines, IsText
    <2> QED BY <2>1, <2>2
<1>5. OperationAtOrAfter(Compile(p), T) \in Reachable(p) \cup {Len(p)}
    BY <1>1, <1>3, <1>4, FallsToOperation
<1> QED BY <1>5 DEF T

\* The operations of a program are on instruction lines of its text.
LEMMA OperationLines ==
    ASSUME NEW p \in Texts
    PROVE  /\ DOMAIN Compile(p).operations \subseteq Nat
           /\ \A n \in DOMAIN Compile(p).operations : /\ n \in Lines(p) /\ LineAt(p, n).kind = "instruction"
                                                      /\ n < Len(p)
           /\ Compile(p).length = Len(p) /\ Len(p) \in Nat
<1> DEFINE q == Compile(p)
<1>1. q.operations = [k \in {k \in Lines(p) : /\ LineAt(p, k).kind = "instruction"
                                              /\ LineAt(p, k).op \notin Declarations}
                        |-> [op |-> LineAt(p, k).op, args |-> LineAt(p, k).args]]
    BY CompileFields
<1>2. q.length = Len(p)
    BY CompileFields
<1>3. Lines(p) \subseteq Nat /\ Len(p) \in Nat /\ \A n \in Lines(p) : n < Len(p)
    BY TextsAre DEF IsText, Lines
<1> HIDE DEF q
<1>4. DOMAIN q.operations = {k \in Lines(p) : /\ LineAt(p, k).kind = "instruction"
                                              /\ LineAt(p, k).op \notin Declarations}
    BY <1>1
<1> QED BY <1>2, <1>3, <1>4 DEF q

-----------------------------------------------------------------------------
(* The runs of a source, as it stands or built at the level "none".        *)

Unchanged == level \in {"source", "none"}

Text == Document(source)

Itself == [lines |-> source, origin |-> [g \in Lines(source) |-> g]]

\* A run of the source is at a reachable operation and has executed reachable
\* lines only.
RunInv ==
    /\ artifact = Itself
    /\ prog = Compile(Text)
    /\ cpu.pc \in DOMAIN prog.operations \cup {prog.length}
    /\ Agreed(Text) => /\ executed \subseteq Reachable(Text)
                       /\ cpu.state \notin {"Error", "Halted"} => cpu.pc \in Reachable(Text) \cup {Len(Text)}

ReachInv ==
    /\ source \in Sources
    /\ diagnostics = Diagnostics(Text)
    /\ DOMAIN cpu = CpuFields
    /\ phase = "editing" => level = "source" /\ prog = Compile(Text) /\ cpu = StartCpu(prog)
    /\ phase # "running" => executed = {}
    /\ phase \in {"built", "running"} => NoErrors(diagnostics)
    /\ phase = "built" => level \in Levels /\ (level = "none" => artifact = Itself)
    /\ phase = "running" /\ Unchanged => RunInv

\* The document of a source is the source and an empty line.
LEMMA TextIs ==
    ASSUME source \in Sources
    PROVE  /\ Text \in Texts /\ IsText(Text) /\ Len(Text) = Len(source) + 1 /\ Len(source) \in Nat
           /\ \A n \in Lines(Text) : LineAt(Text, n).kind = "instruction" => n \in Lines(source)
<1>1. source \in Seq(TextLine)
    BY SourcesAssumption DEF Texts
<1>2. Empty \in TextLine
    <2>1. <<>> \in Seq(Tokens)
        OBVIOUS
    <2> HIDE DEF Tokens
    <2> QED BY <2>1 DEF Empty, NoOp, TextLine
<1> HIDE DEF TextLine
<1>3. /\ Text \in Seq(TextLine) /\ Len(Text) = Len(source) + 1 /\ Len(source) \in Nat
      /\ Text[Len(source) + 1] = Empty
    BY <1>1, <1>2 DEF Text, Document
<1>4. IsText(Text) /\ Text \in Texts
    BY <1>3, TextsAre DEF Texts
<1>5. ASSUME NEW n \in Lines(Text), LineAt(Text, n).kind = "instruction" PROVE n \in Lines(source)
    <2>1. n # Len(source)
        <3> SUFFICES ASSUME n = Len(source) PROVE FALSE
            OBVIOUS
        <3>1. LineAt(Text, n) = Empty
            BY <1>3 DEF LineAt
        <3> QED BY <1>5, <3>1 DEF Empty
    <2> QED BY <1>3, <2>1 DEF Lines
<1> QED BY <1>3, <1>4, <1>5

\* A program without errors has both operands on its declarations.
LEMMA NoErrorsComplete ==
    ASSUME NEW p \in Texts, NoErrors(Diagnostics(p))
    PROVE  Complete(p)
<1> SUFFICES ASSUME NEW n \in Lines(p), LineAt(p, n).kind = "instruction", LineAt(p, n).op \in Declarations
             PROVE  Len(LineAt(p, n).args) = 2
    BY DEF Complete
<1>1. Len(Signature(LineAt(p, n).op)) = 2 /\ LineAt(p, n).op \in Mnemonics
    <2>1. LineAt(p, n).op = "define" \/ LineAt(p, n).op = "alias"
        BY DEF Declarations
    <2>2. Len(Signature("define")) = 2 /\ Len(Signature("alias")) = 2
        BY DEF Signature
    <2> QED BY <2>1, <2>2 DEF Mnemonics, Declarations
<1> SUFFICES ASSUME Len(LineAt(p, n).args) # 2 PROVE FALSE
    OBVIOUS
<1>2. Diagnostic(n, "operand-count") \in OperandCounts(p)
    BY <1>1 DEF OperandCounts, InstructionLines, IsInstruction
<1>3. OperandCounts(p) \subseteq Diagnostics(p)
    BY Zenon DEF Diagnostics
<1>4. Diagnostic(n, "operand-count").code = "operand-count"
    BY DEF Diagnostic
<1> QED BY <1>2, <1>3, <1>4 DEF NoErrors, ErrorCodes

\* The counter is always at an operation or at the end.
LEMMA AtOperation ==
    ASSUME NEW q, DOMAIN q.operations \subseteq Nat, NEW m
    PROVE  OperationAtOrAfter(q, m) \in DOMAIN q.operations \cup {q.length}
<1> DEFINE later == {k \in DOMAIN q.operations : k >= m}
<1>1. later # {} => Min(later) \in later
    BY MinIn
<1> QED BY <1>1 DEF OperationAtOrAfter

\* A run of the source starts at a reachable operation.
LEMMA StartReaches ==
    ASSUME source \in Sources
    PROVE  LET c == StartCpu(Compile(Text))
           IN  /\ DOMAIN c = CpuFields
               /\ c.pc \in DOMAIN Compile(Text).operations \cup {Compile(Text).length}
               /\ c.pc \in Reachable(Text) \cup {Len(Text)}
<1> DEFINE q == Compile(Text)
<1>1. Text \in Texts /\ IsText(Text) /\ Len(Text) = Len(source) + 1 /\ Len(source) \in Nat
    BY TextIs
<1>2. 0 \in Lines(Text)
    BY <1>1 DEF Lines
<1>3. 0 \in Reachable(Text)
    BY <1>1, <1>2, ReachableLines
<1>4. OperationAtOrAfter(q, 0) \in Reachable(Text) \cup {Len(Text)}
    BY <1>1, <1>3, FallsToOperation
<1>5. DOMAIN q.operations \subseteq Nat
    BY <1>1, OperationLines
<1>6. OperationAtOrAfter(q, 0) \in DOMAIN q.operations \cup {q.length}
    <2> HIDE DEF q
    <2> QED BY <1>5, AtOperation
<1> HIDE DEF q
<1> QED BY <1>4, <1>6 DEF StartCpu, CpuFields, q

\* The invariant holds in the editor.
LEMMA ReachInit == ToolInit => ReachInv
<1> SUFFICES ASSUME ToolInit PROVE ReachInv
    OBVIOUS
<1>1. source \in Sources /\ phase = "editing" /\ level = "source" /\ executed = {}
    BY DEF ToolInit
<1>2. diagnostics = Diagnostics(Text) /\ prog = Compile(Text) /\ cpu = StartCpu(prog)
    BY DEF ToolInit, Init, Text
<1>3. DOMAIN cpu = CpuFields
    BY <1>1, <1>2, StartReaches
<1> QED BY <1>1, <1>2, <1>3 DEF ReachInv

\* What a step of a run does to the processor and to the lines executed.
LEMMA RunStepReaches ==
    ASSUME ReachInv, RunStep
    PROVE  ReachInv'
<1>1. /\ source \in Sources /\ diagnostics = Diagnostics(Text) /\ DOMAIN cpu = CpuFields
      /\ phase = "running" /\ NoErrors(diagnostics) /\ (Unchanged => RunInv)
    BY DEF ReachInv, RunStep
<1>2. /\ phase' = phase /\ source' = source /\ level' = level /\ artifact' = artifact
      /\ diagnostics' = diagnostics /\ prog' = prog
    BY DEF RunStep, Tool, Step
<1>3. PICK r : /\ r = Execute(prog, cpu.pc, cpu, Shown(world, "LineNumber", cpu.pc))
               /\ cpu' = [r.cpu EXCEPT !.pc = OperationAtOrAfter(prog, @)]
    BY DEF RunStep, Step
<1>4. cpu.state = "Ready" /\ cpu.pc < prog.length /\ executed' = executed \cup {SourceLine(cpu.pc)}
    BY DEF RunStep, Step
<1>5. Leaves(prog, cpu.pc, cpu, r)
    BY <1>1, <1>3, ExecuteLeaves
<1>6. /\ DOMAIN cpu' = CpuFields /\ cpu'.state = r.cpu.state
      /\ cpu'.pc = OperationAtOrAfter(prog, r.cpu.pc)
    BY <1>3, <1>5 DEF Leaves, CpuFields
<1>7. Text' = Text /\ Itself' = Itself /\ Unchanged' = Unchanged
    BY <1>2 DEF Text, Document, Itself, Lines, Unchanged
<1>8. ASSUME Unchanged PROVE RunInv'
    <2> DEFINE p == Text
    <2>1. /\ artifact = Itself /\ prog = Compile(p) /\ cpu.pc \in DOMAIN prog.operations \cup {prog.length}
          /\ Agreed(p) => /\ executed \subseteq Reachable(p)
                          /\ cpu.pc \in Reachable(p) \cup {Len(p)}
        BY <1>1, <1>4, <1>8 DEF RunInv
    <2>2. /\ p \in Texts /\ Len(p) \in Nat
          /\ \A n \in Lines(p) : LineAt(p, n).kind = "instruction" => n \in Lines(source)
        BY <1>1, TextIs
    <2>3. Complete(p)
        BY <1>1, <2>2, NoErrorsComplete
    <2> HIDE DEF p
    <2>4. /\ DOMAIN prog.operations \subseteq Nat /\ prog.length = Len(p)
          /\ \A n \in DOMAIN prog.operations : n \in Lines(p) /\ LineAt(p, n).kind = "instruction"
        BY <2>1, <2>2, OperationLines
    <2>5. cpu.pc \in DOMAIN prog.operations /\ cpu.pc # Len(p)
        BY <1>4, <2>1, <2>2, <2>4
    <2>6. SourceLine(cpu.pc) = cpu.pc
        <3>1. cpu.pc \in Lines(source)
            BY <2>2, <2>4, <2>5
        <3>2. artifact.origin = [g \in Lines(source) |-> g]
            BY <2>1 DEF Itself
        <3> QED BY <3>1, <3>2 DEF SourceLine
    <2>7. cpu'.pc \in DOMAIN prog.operations \cup {prog.length}
        BY <1>6, <2>4, AtOperation
    <2>8. ASSUME Agreed(p)
          PROVE  /\ executed' \subseteq Reachable(p)
                 /\ cpu'.state \notin {"Error", "Halted"} => cpu'.pc \in Reachable(p) \cup {Len(p)}
        <3>1. executed \subseteq Reachable(p) /\ cpu.pc \in Reachable(p)
            BY <2>1, <2>5, <2>8
        <3>2. executed' \subseteq Reachable(p)
            BY <1>4, <2>6, <3>1
        <3>3. ASSUME r.cpu.state \notin {"Error", "Halted"}
              PROVE  OperationAtOrAfter(prog, r.cpu.pc) \in Reachable(p) \cup {Len(p)}
            BY <1>5, <2>1, <2>2, <2>3, <2>5, <2>8, <3>1, <3>3, StepReaches
        <3> QED BY <1>6, <3>2, <3>3
    <2> QED BY <1>2, <1>7, <2>1, <2>7, <2>8 DEF RunInv, p
<1> QED BY <1>1, <1>2, <1>6, <1>7, <1>8 DEF ReachInv

\* Every action keeps it.
LEMMA ReachStep == ReachInv /\ [ToolNext]_toolVars => ReachInv'
<1> SUFFICES ASSUME ReachInv, [ToolNext]_toolVars PROVE ReachInv'
    OBVIOUS
<1>1. /\ source \in Sources /\ diagnostics = Diagnostics(Text) /\ DOMAIN cpu = CpuFields
      /\ phase = "editing" => level = "source" /\ prog = Compile(Text) /\ cpu = StartCpu(prog)
      /\ phase # "running" => executed = {}
      /\ phase \in {"built", "running"} => NoErrors(diagnostics)
      /\ phase = "built" => level \in Levels /\ (level = "none" => artifact = Itself)
      /\ phase = "running" /\ Unchanged => RunInv
    BY DEF ReachInv
<1>2. source' = source => Text' = Text /\ Itself' = Itself
    BY DEF Text, Document, Itself, Lines
<1>3. LET c == StartCpu(Compile(Text))
      IN  /\ DOMAIN c = CpuFields
          /\ c.pc \in DOMAIN Compile(Text).operations \cup {Compile(Text).length}
          /\ c.pc \in Reachable(Text) \cup {Len(Text)}
    BY <1>1, StartReaches
<1>4. CASE RunSource
    <2>1. /\ phase = "editing" /\ phase' = "running" /\ artifact' = Itself /\ NoErrors(diagnostics)
          /\ source' = source /\ level' = level /\ diagnostics' = diagnostics
          /\ prog' = prog /\ cpu' = cpu /\ executed' = executed
        BY <1>4 DEF RunSource, machineVars, History, Itself
    <2>2. RunInv'
        BY <1>1, <1>2, <1>3, <2>1 DEF RunInv
    <2> QED BY <1>1, <1>2, <2>1, <2>2 DEF ReachInv
<1>5. CASE Build
    <2>1. /\ phase = "editing" /\ phase' = "built" /\ NoErrors(diagnostics)
          /\ source' = source /\ diagnostics' = diagnostics
          /\ prog' = prog /\ cpu' = cpu /\ executed' = executed
        BY <1>5 DEF Build, machineVars, History
    <2>2. PICK l \in Levels : level' = l /\ \E output : artifact' = BuildOutput(source, l, output)
        BY <1>5 DEF Build
    <2>3. level' = "none" => artifact' = Itself
        BY <2>2 DEF BuildOutput, Itself
    <2> QED BY <1>1, <1>2, <2>1, <2>2, <2>3 DEF ReachInv
<1>6. CASE RefuseBuild
    <2>1. /\ phase = "editing" /\ phase' = "refused"
          /\ source' = source /\ diagnostics' = diagnostics
          /\ prog' = prog /\ cpu' = cpu /\ executed' = executed
        BY <1>6 DEF RefuseBuild, machineVars, History
    <2> QED BY <1>1, <1>2, <2>1 DEF ReachInv
<1>7. CASE RunArtifact
    <2>1. /\ phase = "built" /\ phase' \in {"unusable", "running"} /\ prog' = Compile(Document(artifact.lines))
          /\ cpu' = StartCpu(prog') /\ source' = source /\ level' = level /\ artifact' = artifact
          /\ diagnostics' = diagnostics /\ executed' = executed
        BY <1>7 DEF RunArtifact, Tool, History
    <2>2. DOMAIN cpu' = CpuFields
        BY <2>1 DEF StartCpu, CpuFields
    <2>4. ASSUME level = "none" PROVE RunInv'
        <3>1. artifact = Itself /\ artifact.lines = source
            BY <1>1, <2>1, <2>4 DEF Itself
        <3>2. prog' = Compile(Text)
            BY <2>1, <3>1 DEF Text
        <3>3. cpu' = StartCpu(Compile(Text))
            BY <2>1, <3>2
        <3> QED BY <1>1, <1>2, <1>3, <2>1, <3>1, <3>2, <3>3 DEF RunInv
    <2>5. level # "source"
        BY <1>1, <2>1 DEF Levels
    <2> QED BY <1>1, <1>2, <2>1, <2>2, <2>4, <2>5 DEF ReachInv, Unchanged
<1>8. CASE RunStep
    BY <1>8, RunStepReaches
<1>9. CASE RunEnd \/ RunWake \/ RunSensor
    <2>1. /\ phase = "running" /\ phase' = phase /\ source' = source /\ level' = level
          /\ artifact' = artifact /\ diagnostics' = diagnostics /\ executed' = executed /\ prog' = prog
        BY <1>9 DEF RunEnd, RunWake, RunSensor, RunOut, Wake, SetSensor, Tool, History
    <2>2. /\ DOMAIN cpu' = CpuFields /\ cpu'.pc = cpu.pc
          /\ cpu'.state \notin {"Error", "Halted"} => cpu.state \notin {"Error", "Halted"}
        BY <1>1, <1>9 DEF RunEnd, RunWake, RunSensor, RunOut, Wake, SetSensor, CpuFields
    <2>3. Unchanged' = Unchanged
        BY <2>1 DEF Unchanged
    <2>4. RunInv => RunInv'
        BY <1>2, <2>1, <2>2 DEF RunInv
    <2> QED BY <1>1, <1>2, <2>1, <2>2, <2>3, <2>4 DEF ReachInv
<1>10. CASE UNCHANGED toolVars
    <2>1. /\ phase' = phase /\ source' = source /\ level' = level /\ artifact' = artifact
          /\ diagnostics' = diagnostics /\ executed' = executed /\ prog' = prog /\ cpu' = cpu
        BY <1>10 DEF toolVars
    <2>2. Unchanged' = Unchanged
        BY <2>1 DEF Unchanged
    <2>3. RunInv => RunInv'
        BY <1>2, <2>1 DEF RunInv
    <2> QED BY <1>1, <1>2, <2>1, <2>2, <2>3 DEF ReachInv
<1> QED BY <1>4, <1>5, <1>6, <1>7, <1>8, <1>9, <1>10 DEF ToolNext

\* A line the editor greys out is not in the search, so it was not executed.
LEMMA ReachIsEnough == ReachInv => (level \in {"source", "none"} => UnreachableNeverRuns)
<1> SUFFICES ASSUME ReachInv, Unchanged PROVE UnreachableNeverRuns
    BY DEF Unchanged
<1> DEFINE p == Document(source)
<1> SUFFICES ASSUME NoDeviceBranches(p), NoRelativeLabels(p), NoDefinedLabels(p), ~HasDuplicates(p),
                    NEW d \in UnreachableCode(p), d.line \in executed
             PROVE  FALSE
    BY DEF UnreachableNeverRuns
<1>1. ~DynamicTarget(p)
    BY DEF UnreachableCode
<1>2. Agreed(Text)
    BY <1>1 DEF Agreed, Text
<1>3. executed \subseteq Reachable(Text)
    BY <1>2 DEF ReachInv, RunInv
<1>4. d.line \notin Reachable(Text)
    BY <1>1 DEF UnreachableCode, Diagnostic, Text
<1> QED BY <1>3, <1>4

\* A line reported as unreachable (analyze_control_flow) is executed by no run of
\* the source, nor of the program built from it at the level that changes nothing.
THEOREM UnreachableSourceNeverRuns ==
    ToolSpec => [](level \in {"source", "none"} => UnreachableNeverRuns)
<1>1. ToolInit => ReachInv
    BY ReachInit
<1>2. ReachInv /\ [ToolNext]_toolVars => ReachInv'
    BY ReachStep
<1>3. ReachInv => (level \in {"source", "none"} => UnreachableNeverRuns)
    BY ReachIsEnough
<1> QED BY <1>1, <1>2, <1>3, PTL DEF ToolSpec

-----------------------------------------------------------------------------
(* The count of the operations between two waits.                          *)

CountStates == [current : Nat, maximum : Nat, done : BOOLEAN]

CountStart == [current |-> 0, maximum |-> 0, done |-> FALSE]

IsOperation(line) == line.kind = "instruction" /\ line.op \notin Declarations

\* The larger of two naturals.
LEMMA MaxOfTwo ==
    ASSUME NEW a \in Nat, NEW b \in Nat
    PROVE  Max({a, b}) \in {a, b} /\ Max({a, b}) >= a /\ Max({a, b}) >= b
<1>1. \E x \in {a, b} : \A y \in {a, b} : x >= y
    <2>1. CASE a >= b
        BY <2>1
    <2>2. CASE ~(a >= b)
        BY <2>2
    <2> QED BY <2>1, <2>2
<1>2. Max({a, b}) = CHOOSE x \in {a, b} : \A y \in {a, b} : x >= y
    BY DEF Max
<1>3. Max({a, b}) \in {a, b} /\ \A y \in {a, b} : Max({a, b}) >= y
    BY <1>1, <1>2, Zenon
<1> QED BY <1>3

\* One line of the count.
LEMMA CountLineIs ==
    ASSUME NEW s \in CountStates, NEW line
    PROVE  /\ CountLine(s, line) \in CountStates
           /\ s.maximum <= CountLine(s, line).maximum
           /\ ~IsOperation(line) => CountLine(s, line) = s
           /\ IsOperation(line) /\ ~s.done =>
                /\ CountLine(s, line).current = IF line.op \in Waits THEN 0 ELSE s.current + 1
                /\ CountLine(s, line).maximum >= s.current + 1
                /\ line.op # "hcf" => ~CountLine(s, line).done
<1> DEFINE m == Max({s.maximum, s.current + 1})
<1>1. s.maximum \in Nat /\ s.current + 1 \in Nat /\ s.done \in BOOLEAN
    BY DEF CountStates
<1>2. m \in Nat /\ m >= s.maximum /\ m >= s.current + 1
    BY <1>1, MaxOfTwo
<1> HIDE DEF m
<1>3. CASE s.done \/ ~IsOperation(line)
    <2>1. CountLine(s, line) = s
        BY <1>3 DEF CountLine, IsOperation
    <2> QED BY <1>1, <1>3, <2>1
<1>4. CASE ~s.done /\ IsOperation(line)
    <2>1. CountLine(s, line) = [current |-> IF line.op \in Waits THEN 0 ELSE s.current + 1,
                                maximum |-> m, done |-> line.op = "hcf"]
        BY <1>4, Zenon DEF CountLine, IsOperation, Waits, m
    <2>2. (line.op = "hcf") \in BOOLEAN
        OBVIOUS
    <2> QED BY <1>1, <1>2, <1>4, <2>1, <2>2 DEF CountStates
<1> QED BY <1>3, <1>4

Counted(f, p) ==
    /\ f \in [0 .. Len(p) -> CountStates] /\ f[0] = CountStart
    /\ \A n \in Lines(p) : f[n + 1] = CountLine(f[n], LineAt(p, n))

\* Counts computes the count.
LEMMA CountsAre ==
    ASSUME NEW p \in Texts
    PROVE  Counted(Counts(p), p)
<1> DEFINE N == Len(p)
           S == (1 .. N) \X CountStates
           g == [z \in S |-> CountLine(z[2], LineAt(p, z[1] - 1))]
           Is(f) == f = [n \in 0 .. N |-> IF n = 0 THEN [current |-> 0, maximum |-> 0, done |-> FALSE]
                                          ELSE CountLine(f[n - 1], LineAt(p, n - 1))]
<1>1. N \in Nat /\ CountStart \in CountStates
    BY TextsAre DEF IsText, CountStart, CountStates
<1>2. g \in [S -> CountStates]
    <2>1. ASSUME NEW z \in S PROVE CountLine(z[2], LineAt(p, z[1] - 1)) \in CountStates
        <3>1. z[2] \in CountStates
            BY <2>1
        <3> QED BY <3>1, CountLineIs
    <2> HIDE DEF S
    <2> QED BY <2>1
<1>3. PICK f \in [0 .. N -> CountStates] : Stepped(f, CountStart, g, N)
    <2> HIDE DEF g, N
    <2> QED BY <1>1, <1>2, SteppedExists
<1>4. ASSUME NEW n \in 0 .. N
      PROVE  f[n] = IF n = 0 THEN CountStart ELSE CountLine(f[n - 1], LineAt(p, n - 1))
    <2>1. f[n] = IF n = 0 THEN CountStart ELSE g[<<n, f[n - 1]>>]
        <3> HIDE DEF g, N
        <3> QED BY <1>3, <1>4, Zenon DEF Stepped
    <2>2. ASSUME n # 0 PROVE g[<<n, f[n - 1]>>] = CountLine(f[n - 1], LineAt(p, n - 1))
        <3> HIDE DEF N
        <3>1. n \in 1 .. N /\ n - 1 \in 0 .. N
            BY <1>1, <1>4, <2>2
        <3>2. f[n - 1] \in CountStates
            BY <1>3, <3>1
        <3>3. <<n, f[n - 1]>> \in S
            BY <3>1, <3>2
        <3> HIDE DEF S
        <3>4. g[<<n, f[n - 1]>>] = CountLine(<<n, f[n - 1]>>[2], LineAt(p, <<n, f[n - 1]>>[1] - 1))
            BY <3>3, Zenon
        <3>5. <<n, f[n - 1]>>[2] = f[n - 1] /\ <<n, f[n - 1]>>[1] = n
            OBVIOUS
        <3> HIDE DEF g
        <3> QED BY <3>4, <3>5, Zenon
    <2> HIDE DEF g
    <2> QED BY <2>1, <2>2, Zenon
<1>5. Is(f)
    <2>1. f = [n \in 0 .. N |-> f[n]]
        <3> HIDE DEF N
        <3> QED BY <1>3
    <2> HIDE DEF N
    <2> QED BY <1>4, <2>1, Zenon DEF CountStart
<1> DEFINE h == CHOOSE e : Is(e)
<1>6. Is(h)
    <2> HIDE DEF Is
    <2> QED BY <1>5, Zenon
<1>7. Counts(p) = h
    BY Zenon DEF Counts
<1> HIDE DEF h
<1>8. \A n \in 0 .. N : h[n] = IF n = 0 THEN CountStart ELSE CountLine(h[n - 1], LineAt(p, n - 1))
    <2> HIDE DEF N
    <2> QED BY <1>6, Zenon DEF CountStart
<1>9. h = [n \in 0 .. N |-> h[n]]
    <2> HIDE DEF N
    <2> QED BY <1>6, Zenon
<1> HIDE DEF Is
<1>10. h[0] = CountStart /\ \A n \in Lines(p) : h[n + 1] = CountLine(h[n], LineAt(p, n))
    <2>1. h[0] = CountStart
        BY <1>1, <1>8
    <2>2. ASSUME NEW n \in Lines(p) PROVE h[n + 1] = CountLine(h[n], LineAt(p, n))
        <3>1. n + 1 \in 0 .. N /\ n + 1 # 0 /\ (n + 1) - 1 = n
            BY <1>1 DEF Lines
        <3> HIDE DEF N
        <3>2. h[n + 1] = CountLine(h[(n + 1) - 1], LineAt(p, (n + 1) - 1))
            BY <1>8, <3>1, Zenon
        <3> QED BY <3>1, <3>2
    <2> QED BY <2>1, <2>2
<1>11. \A n \in 0 .. N : h[n] \in CountStates
    <2> DEFINE X == {n \in 0 .. N : h[n] \in CountStates}
    <2>1. 0 \in X
        BY <1>1, <1>10
    <2>2. ASSUME NEW n \in 0 .. N, n \in X, n < N PROVE n + 1 \in X
        <3>1. n \in Lines(p) /\ n + 1 \in 0 .. N
            BY <1>1, <2>2 DEF Lines
        <3>2. h[n] \in CountStates
            BY <2>2
        <3>3. h[n + 1] \in CountStates
            BY <1>10, <3>1, <3>2, CountLineIs
        <3> QED BY <3>1, <3>3
    <2> HIDE DEF X
    <2>3. \A n \in 0 .. N : n \in X
        <3> HIDE DEF N
        <3> QED BY <1>1, <2>1, <2>2, UpTo
    <2> QED BY <2>3 DEF X
<1>12. h \in [0 .. N -> CountStates]
    <2> HIDE DEF N
    <2> QED BY <1>9, <1>11
<1> QED BY <1>7, <1>10, <1>12 DEF Counted

\* The maximum at the end is the largest.
LEMMA CountsGrow ==
    ASSUME NEW p \in Texts, NEW f, Counted(f, p), NEW n \in 0 .. Len(p)
    PROVE  f[n].maximum <= f[Len(p)].maximum
<1> DEFINE N == Len(p)
           X == {k \in 0 .. N : n <= k => f[n].maximum <= f[k].maximum}
<1>1. N \in Nat /\ \A k \in 0 .. N : f[k] \in CountStates
    BY TextsAre DEF IsText, Counted
<1>2. \A k \in 0 .. N : f[k].maximum \in Nat
    BY <1>1 DEF CountStates
<1>3. 0 \in X
    <2>1. n <= 0 => n = 0
        OBVIOUS
    <2> QED BY <1>1, <1>2, <2>1
<1>4. ASSUME NEW k \in 0 .. N, k \in X, k < N PROVE k + 1 \in X
    <2>1. k \in Lines(p) /\ k + 1 \in 0 .. N
        BY <1>1, <1>4 DEF Lines
    <2>2. f[k + 1] = CountLine(f[k], LineAt(p, k))
        BY <2>1 DEF Counted
    <2>3. f[k].maximum <= f[k + 1].maximum
        BY <1>1, <2>2, CountLineIs
    <2>4. n <= k => f[n].maximum <= f[k].maximum
        BY <1>4
    <2>5. n <= k + 1 => n <= k \/ n = k + 1
        BY <1>4
    <2> HIDE DEF N
    <2>6. n <= k + 1 => f[n].maximum <= f[k + 1].maximum
        BY <1>2, <1>4, <2>1, <2>3, <2>4, <2>5 DEF N
    <2> QED BY <2>1, <2>6
<1> HIDE DEF X
<1>5. N \in X
    <2>1. N \in 0 .. N
        BY <1>1
    <2> HIDE DEF N
    <2> QED BY <1>1, <1>3, <1>4, <2>1, UpTo
<1> QED BY <1>1, <1>5 DEF X

\* Lines that are no operations do not count.
LEMMA CountsFlat ==
    ASSUME NEW p \in Texts, NEW f, Counted(f, p), NEW m \in 0 .. Len(p)
    PROVE  /\ OperationAtOrAfter(Compile(p), m) \in 0 .. Len(p)
           /\ f[OperationAtOrAfter(Compile(p), m)] = f[m]
<1> DEFINE q == Compile(p)
           later == {k \in DOMAIN q.operations : k >= m}
           o == OperationAtOrAfter(q, m)
<1>1. q.length = Len(p) /\ Len(p) \in Nat /\ Lines(p) \subseteq Nat
    BY CompileFields, TextsAre DEF IsText
<1>2. DOMAIN q.operations = {k \in Lines(p) : IsOperation(LineAt(p, k))}
    <2>1. q.operations = [n \in {k \in Lines(p) : IsOperation(LineAt(p, k))}
                            |-> [op |-> LineAt(p, n).op, args |-> LineAt(p, n).args]]
        BY CompileFields DEF IsOperation
    <2> HIDE DEF q
    <2> QED BY <2>1
<1> HIDE DEF q
<1>3. later \subseteq Nat /\ \A k \in later : k < Len(p)
    BY <1>1, <1>2 DEF Lines
<1>4. o \in 0 .. Len(p) /\ m <= o /\ \A k \in later : o <= k
    <2>1. CASE later = {}
        BY <1>1, <2>1 DEF OperationAtOrAfter
    <2>2. CASE later # {}
        <3>1. o = Min(later)
            BY <2>2 DEF OperationAtOrAfter
        <3>2. o \in later /\ \A k \in later : o <= k
            <4> HIDE DEF later, o
            <4> QED BY <1>3, <2>2, <3>1, MinIn
        <3>3. o >= m /\ o \in Nat /\ o < Len(p)
            BY <1>3, <3>2
        <3> HIDE DEF o, later
        <3> QED BY <1>1, <3>2, <3>3
    <2> QED BY <2>1, <2>2
<1> HIDE DEF o
<1> DEFINE X == {k \in 0 .. (o - m) : f[m + k] = f[m]}
<1>5. 0 \in X
    BY <1>4
<1>6. ASSUME NEW k \in 0 .. (o - m), k \in X, k < o - m PROVE k + 1 \in X
    <2>1. /\ m + k \in Lines(p) /\ m + k < o /\ m + k >= m /\ m + (k + 1) \in 0 .. Len(p)
          /\ (m + k) + 1 = m + (k + 1) /\ k + 1 \in 0 .. (o - m) /\ m + k \in 0 .. Len(p)
        BY <1>1, <1>4, <1>6 DEF Lines
    <2>2. m + k \notin later
        <3> HIDE DEF later
        <3> QED BY <1>1, <1>4, <2>1
    <2>3. ~IsOperation(LineAt(p, m + k))
        BY <1>2, <2>1, <2>2
    <2>4. f[(m + k) + 1] = CountLine(f[m + k], LineAt(p, m + k)) /\ f[m + k] \in CountStates
        BY <2>1 DEF Counted
    <2>5. f[(m + k) + 1] = f[m + k]
        BY <2>3, <2>4, CountLineIs
    <2>6. f[m + k] = f[m]
        BY <1>6
    <2>7. f[m + (k + 1)] = f[m]
        BY <2>1, <2>5, <2>6
    <2> QED BY <2>1, <2>7
<1>7. o - m \in X
    <2> HIDE DEF X
    <2>1. o - m \in Nat /\ o - m \in 0 .. (o - m)
        BY <1>1, <1>4
    <2> QED BY <1>5, <1>6, <2>1, UpTo
<1>8. m + (o - m) = o
    BY <1>4
<1> QED BY <1>4, <1>7, <1>8 DEF o, q

-----------------------------------------------------------------------------
(* The ticks of a run of the source.                                       *)

\* No branch that the analysis or the simulator knows.
Branchless(p) ==
    /\ NoDeviceBranches(p)
    /\ \A n \in Lines(p) : ~IsBranchLine(p, n)

\* Where the run is, so many operations were counted since the last wait.
Ticks(p, c, n) ==
    LET f == Counts(p)
    IN  /\ n \in Nat /\ n <= f[Len(p)].maximum
        /\ c.state = "Ready" => ~f[c.pc].done /\ n = f[c.pc].current
        /\ c.state = "Waiting" => ~f[c.pc].done /\ f[c.pc].current = 0

TickRun == Ticks(Text, cpu, tickOps)

TickInv ==
    /\ phase # "running" => tickOps = 0
    /\ phase = "running" /\ Unchanged /\ Branchless(Text) => TickRun

\* A run starts with nothing counted.
LEMMA TickStarts ==
    ASSUME NEW p \in Texts
    PROVE  Ticks(p, StartCpu(Compile(p)), 0)
<1> DEFINE f == Counts(p)
           c == StartCpu(Compile(p))
<1>1. Len(p) \in Nat /\ Counted(f, p)
    BY TextsAre, CountsAre DEF IsText
<1>2. 0 \in 0 .. Len(p) /\ Len(p) \in 0 .. Len(p)
    BY <1>1
<1>3. c.pc = OperationAtOrAfter(Compile(p), 0) /\ c.state = "Ready"
    BY DEF StartCpu
<1> HIDE DEF f, c
<1>4. f[c.pc] = f[0] /\ f[0] = CountStart /\ f[Len(p)] \in CountStates
    BY <1>1, <1>2, <1>3, CountsFlat DEF Counted
<1>5. f[Len(p)].maximum \in Nat
    BY <1>4 DEF CountStates
<1> QED BY <1>3, <1>4, <1>5 DEF Ticks, CountStart, f, c

\* An operation that runs is counted, and a wait starts the count over.
LEMMA TickSteps ==
    ASSUME ReachInv, RunStep, Unchanged, Branchless(Text), TickRun
    PROVE  TickRun'
<1> DEFINE p == Text
           f == Counts(p)
           n == cpu.pc
<1>1. /\ source \in Sources /\ DOMAIN cpu = CpuFields /\ RunInv
    BY DEF ReachInv, RunStep
<1>2. source' = source /\ prog' = prog /\ tickOps' = tickOps + 1
    BY DEF RunStep, Tool, Step
<1>3. PICK r : /\ r = Execute(prog, cpu.pc, cpu, Shown(world, "LineNumber", cpu.pc))
               /\ cpu' = [r.cpu EXCEPT !.pc = OperationAtOrAfter(prog, @)]
    BY DEF RunStep, Step
<1>4. cpu.state = "Ready" /\ cpu.pc < prog.length
    BY DEF RunStep, Step
<1>5. Leaves(prog, n, cpu, r)
    BY <1>1, <1>3, ExecuteLeaves
<1>6. cpu'.state = r.cpu.state /\ cpu'.pc = OperationAtOrAfter(prog, r.cpu.pc)
    BY <1>3, <1>5 DEF Leaves, CpuFields
<1>7. p \in Texts /\ Len(p) \in Nat /\ Counted(f, p)
    BY <1>1, TextIs, CountsAre
<1>8. prog = Compile(p) /\ n \in DOMAIN prog.operations /\ prog.length = Len(p)
    <2>1. prog = Compile(p) /\ n \in DOMAIN prog.operations \cup {prog.length}
        BY <1>1 DEF RunInv
    <2> HIDE DEF p
    <2>2. prog.length = Len(p)
        BY <1>7, <2>1, OperationLines
    <2> QED BY <1>4, <1>7, <2>1, <2>2
<1>9. n \in Lines(p) /\ IsOperation(LineAt(p, n)) /\ prog.operations[n].op = LineAt(p, n).op
    <2> HIDE DEF p, n
    <2>1. prog.operations = [k \in {k \in Lines(p) : IsOperation(LineAt(p, k))}
                               |-> [op |-> LineAt(p, k).op, args |-> LineAt(p, k).args]]
        BY <1>8, CompileFields DEF IsOperation
    <2> QED BY <1>8, <2>1
<1>10. prog.operations[n].op \notin BranchOps
    <2>1. LineAt(p, n).op \notin DeviceBranches /\ ~IsBranchLine(p, n)
        BY <1>9 DEF Branchless, NoDeviceBranches
    <2> QED BY <1>9, <2>1 DEF BranchOps, IsBranchLine, IsInstruction, IsOperation
<1>11. Text' = Text
    BY <1>2 DEF Text, Document
<1>12. /\ tickOps \in Nat /\ tickOps <= f[Len(p)].maximum
       /\ ~f[n].done /\ tickOps = f[n].current
    BY <1>4 DEF TickRun, Ticks
<1> HIDE DEF p, f, n
<1>13. n \in 0 .. Len(p) /\ n + 1 \in 0 .. Len(p) /\ Len(p) \in 0 .. Len(p)
    BY <1>7, <1>9 DEF Lines
<1>14. f[n] \in CountStates /\ f[n + 1] \in CountStates /\ f[Len(p)] \in CountStates
       /\ f[n + 1] = CountLine(f[n], LineAt(p, n))
    BY <1>7, <1>9, <1>13 DEF Counted
<1>15. /\ f[n + 1].current = IF LineAt(p, n).op \in Waits THEN 0 ELSE tickOps + 1
       /\ f[n + 1].maximum >= tickOps + 1
       /\ LineAt(p, n).op # "hcf" => ~f[n + 1].done
    <2> DEFINE line == LineAt(p, n)
               s == f[n]
    <2>1. IsOperation(line) /\ ~s.done /\ s \in CountStates
        BY <1>9, <1>12, <1>14
    <2> HIDE DEF line, s
    <2>2. /\ CountLine(s, line).current = IF line.op \in Waits THEN 0 ELSE s.current + 1
          /\ CountLine(s, line).maximum >= s.current + 1
          /\ line.op # "hcf" => ~CountLine(s, line).done
        BY <2>1, CountLineIs
    <2> QED BY <1>12, <1>14, <2>2 DEF line, s
<1>16. tickOps' \in Nat /\ tickOps' <= f[Len(p)].maximum
    <2>1. f[n + 1].maximum <= f[Len(p)].maximum
        BY <1>7, <1>13, CountsGrow
    <2>2. f[n + 1].maximum \in Nat /\ f[Len(p)].maximum \in Nat
        BY <1>14 DEF CountStates
    <2> QED BY <1>2, <1>12, <1>15, <2>1, <2>2
<1>17. CASE r.cpu.state \in {"Error", "Halted"}
    <2>1. cpu'.state # "Ready" /\ cpu'.state # "Waiting"
        BY <1>6, <1>17
    <2> QED BY <1>11, <1>16, <2>1 DEF TickRun, Ticks, f, p
<1>18. CASE r.cpu.state \notin {"Error", "Halted"}
    <2>1. /\ r.cpu.pc = n + 1 /\ LineAt(p, n).op # "hcf"
          /\ r.cpu.state = IF LineAt(p, n).op \in Waits THEN "Waiting" ELSE "Ready"
        BY <1>4, <1>5, <1>9, <1>10, <1>18 DEF Leaves
    <2>2. f[cpu'.pc] = f[n + 1]
        BY <1>6, <1>7, <1>8, <1>13, <2>1, CountsFlat
    <2>3. ~f[cpu'.pc].done
        BY <1>15, <2>1, <2>2
    <2>4. cpu'.state = "Ready" => tickOps' = f[cpu'.pc].current
        BY <1>2, <1>6, <1>15, <2>1, <2>2
    <2>5. cpu'.state = "Waiting" => f[cpu'.pc].current = 0
        BY <1>6, <1>15, <2>1, <2>2
    <2> QED BY <1>11, <1>16, <2>3, <2>4, <2>5 DEF TickRun, Ticks, f, p
<1> QED BY <1>17, <1>18

\* The invariant holds in the editor.
LEMMA TickInit == ToolInit => TickInv
BY DEF ToolInit, TickInv

\* Every action keeps it.
LEMMA TickStep == ReachInv /\ TickInv /\ [ToolNext]_toolVars => TickInv'
<1> SUFFICES ASSUME ReachInv, TickInv, [ToolNext]_toolVars PROVE TickInv'
    OBVIOUS
<1>0. DOMAIN cpu = CpuFields
    BY DEF ReachInv
<1>1. /\ source \in Sources
      /\ phase = "editing" => level = "source" /\ prog = Compile(Text) /\ cpu = StartCpu(prog)
      /\ phase = "built" => level \in Levels /\ (level = "none" => artifact = Itself)
      /\ phase # "running" => tickOps = 0
      /\ phase = "running" /\ Unchanged /\ Branchless(Text) => TickRun
    BY DEF ReachInv, TickInv
<1>2. source' = source => Text' = Text
    BY DEF Text, Document
<1>3. source' = source /\ level' = level => Text' = Text /\ Unchanged' = Unchanged
    BY <1>2 DEF Unchanged
<1>4. source' = source => Branchless(Text)' = Branchless(Text)
    BY <1>2
<1>5. source' = source /\ cpu' = cpu /\ tickOps' = tickOps => TickRun' = TickRun
    BY <1>2 DEF TickRun
<1>6. CASE RunSource
    <2>1. /\ phase = "editing" /\ phase' = "running" /\ source' = source
          /\ cpu' = cpu /\ tickOps' = tickOps
        BY <1>6 DEF RunSource, machineVars, History
    <2>2. TickRun
        BY <1>1, <2>1, TextIs, TickStarts DEF TickRun
    <2> QED BY <1>5, <2>1, <2>2 DEF TickInv
<1>7. CASE Build \/ RefuseBuild
    <2>1. phase = "editing" /\ phase' # "running" /\ tickOps' = tickOps
        BY <1>7 DEF Build, RefuseBuild, History
    <2> QED BY <1>1, <2>1 DEF TickInv
<1>8. CASE RunArtifact
    <2>1. /\ phase = "built" /\ prog' = Compile(Document(artifact.lines)) /\ cpu' = StartCpu(prog')
          /\ source' = source /\ level' = level /\ tickOps' = tickOps
        BY <1>8 DEF RunArtifact, Tool, History
    <2>2. tickOps' = 0 /\ source' \in Sources
        BY <1>1, <2>1
    <2>3. ASSUME Unchanged' PROVE TickRun'
        <3>1. level = "none" /\ artifact = Itself
            BY <1>1, <1>3, <2>1, <2>3 DEF Unchanged, Levels
        <3>2. artifact.lines = source
            BY <3>1 DEF Itself
        <3>3. cpu' = StartCpu(Compile(Text))
            BY <2>1, <3>2 DEF Text
        <3>4. Ticks(Text, cpu', 0)
            BY <1>1, <3>3, TextIs, TickStarts
        <3> QED BY <1>2, <2>1, <2>2, <3>4 DEF TickRun
    <2> QED BY <2>2, <2>3 DEF TickInv
<1>9. CASE RunStep
    <2>1. phase = "running" /\ phase' = phase /\ source' = source /\ level' = level
        BY <1>9 DEF RunStep, Tool
    <2>2. Unchanged /\ Branchless(Text) => TickRun'
        BY <1>1, <1>9, <2>1, TickSteps
    <2> QED BY <1>3, <1>4, <2>1, <2>2 DEF TickInv
<1>10. CASE RunEnd
    <2>1. /\ phase = "running" /\ phase' = phase /\ source' = source /\ level' = level
          /\ tickOps' = tickOps
        BY <1>10 DEF RunEnd, RunOut, Tool, History
    <2>2. cpu'.state = "Halted"
        BY <1>0, <1>10 DEF RunEnd, RunOut, CpuFields
    <2>3. TickRun => TickRun'
        BY <1>2, <2>1, <2>2 DEF TickRun, Ticks
    <2> QED BY <1>1, <1>3, <1>4, <2>1, <2>3 DEF TickInv
<1>11. CASE RunWake
    <2>1. /\ phase = "running" /\ phase' = phase /\ source' = source /\ level' = level
          /\ tickOps' = 0 /\ cpu.state = "Waiting"
        BY <1>11 DEF RunWake, Wake, Tool
    <2>2. cpu'.state = "Ready" /\ cpu'.pc = cpu.pc
        BY <1>0, <1>11 DEF RunWake, Wake, CpuFields
    <2>3. TickRun => TickRun'
        <3> SUFFICES ASSUME TickRun PROVE TickRun'
            OBVIOUS
        <3> DEFINE f == Counts(Text)
        <3>1. ~f[cpu.pc].done /\ f[cpu.pc].current = 0 /\ tickOps \in Nat /\ tickOps <= f[Len(Text)].maximum
            BY <2>1 DEF TickRun, Ticks
        <3>2. f[Len(Text)].maximum \in Nat
            <4>1. Text \in Texts /\ Len(Text) \in 0 .. Len(Text)
                BY <1>1, TextIs
            <4>2. f[Len(Text)] \in CountStates
                BY <4>1, CountsAre DEF Counted
            <4> QED BY <4>2 DEF CountStates
        <3> HIDE DEF f
        <3> QED BY <1>2, <2>1, <2>2, <3>1, <3>2 DEF TickRun, Ticks, f
    <2> QED BY <1>1, <1>3, <1>4, <2>1, <2>3 DEF TickInv
<1>12. CASE RunSensor \/ UNCHANGED toolVars
    <2>1. /\ phase' = phase /\ source' = source /\ level' = level
          /\ tickOps' = tickOps /\ cpu' = cpu
        BY <1>12 DEF RunSensor, SetSensor, Tool, History, toolVars
    <2> QED BY <1>1, <1>3, <1>4, <1>5, <2>1 DEF TickInv
<1> QED BY <1>6, <1>7, <1>8, <1>9, <1>10, <1>11, <1>12 DEF ToolNext

\* The largest count is what estimate_operations returns.
LEMMA TickIsEnough ==
    ReachInv /\ TickInv => (level \in {"source", "none"} => TickWithinEstimate)
<1> SUFFICES ASSUME ReachInv, TickInv, Unchanged PROVE TickWithinEstimate
    BY DEF Unchanged
<1> DEFINE p == Document(source)
<1> SUFFICES ASSUME NoDeviceBranches(p), EstimateOperations(p) # -1
             PROVE  tickOps <= EstimateOperations(p)
    BY DEF TickWithinEstimate
<1>1. \A n \in Lines(p) : ~IsBranchLine(p, n)
    BY DEF EstimateOperations
<1>2. EstimateOperations(p) = Counts(p)[Len(p)].maximum
    BY <1>1 DEF EstimateOperations
<1>3. Branchless(Text) /\ p = Text
    BY <1>1 DEF Branchless, Text
<1>4. CASE phase = "running"
    BY <1>2, <1>3, <1>4 DEF TickInv, TickRun, Ticks
<1>5. CASE phase # "running"
    <2>1. p \in Texts /\ Len(p) \in 0 .. Len(p)
        BY <1>3, TextIs DEF ReachInv
    <2>2. Counts(p)[Len(p)] \in CountStates
        BY <2>1, CountsAre DEF Counted
    <2>3. Counts(p)[Len(p)].maximum \in Nat
        BY <2>2 DEF CountStates
    <2>4. tickOps = 0
        BY <1>5 DEF TickInv
    <2> QED BY <1>2, <2>3, <2>4
<1> QED BY <1>4, <1>5

\* The budget the editor shows (estimate_operations) bounds the operations of every
\* tick of such a run.
THEOREM SourceTicksWithinEstimate ==
    ToolSpec => [](level \in {"source", "none"} => TickWithinEstimate)
<1>1. ToolInit => ReachInv /\ TickInv
    BY ReachInit, TickInit
<1>2. (ReachInv /\ TickInv) /\ [ToolNext]_toolVars => (ReachInv /\ TickInv)'
    BY ReachStep, TickStep
<1>3. ReachInv /\ TickInv => (level \in {"source", "none"} => TickWithinEstimate)
    BY TickIsEnough
<1> QED BY <1>1, <1>2, <1>3, PTL DEF ToolSpec

-----------------------------------------------------------------------------
(* Where a chain of names ends.                                            *)

\* The end of a chase is the end of the chase one hop on.
LEMMA ChaseTail ==
    ASSUME NEW p, IsText(p), NEW x, ~IsSymbol(p, Chase(p, x))
    PROVE  Chase(p, Hop(p, x)) = Chase(p, x)
<1> DEFINE N == Cardinality(Names(p))
           y == Hop(p, x)
<1>1. N \in Nat
    BY NamesFinite
<1>2. PICK c : ChaseRun(c, p, x, N)
    BY <1>1, ChaseIs
<1>3. PICK d : ChaseRun(d, p, y, N)
    BY <1>1, ChaseIs
<1>4. c[0] = x /\ Chased(c, p, N) /\ Chase(p, x) = c[N]
    BY <1>2 DEF ChaseRun
<1>5. d[0] = y /\ Chased(d, p, N) /\ Chase(p, y) = d[N]
    BY <1>3 DEF ChaseRun
<1> HIDE DEF N
<1>6. CASE ~IsSymbol(p, x)
    BY <1>6 DEF Hop
<1>7. CASE IsSymbol(p, x)
    <2>1. N # 0
        BY <1>4, <1>7
    <2>2. N - 1 \in Nat /\ N - 1 \in 0 .. (N - 1) /\ N - 1 \in 0 .. N /\ N - 1 + 1 = N
        BY <1>1, <2>1
    <2> DEFINE X == {k \in 0 .. (N - 1) : d[k] = c[k + 1]}
    <2>3. 0 \in X
        <3>1. 1 \in 1 .. N /\ 1 - 1 = 0 /\ 0 \in 0 .. (N - 1) /\ 0 + 1 = 1
            BY <1>1, <2>1
        <3>2. c[1] = Hop(p, c[0])
            BY <1>4, <3>1 DEF Chased
        <3> QED BY <1>4, <1>5, <3>1, <3>2
    <2>4. ASSUME NEW k \in 0 .. (N - 1), k \in X, k < N - 1 PROVE k + 1 \in X
        <3>1. /\ k + 1 \in 1 .. N /\ k + 1 - 1 = k /\ k + 1 \in 0 .. (N - 1)
              /\ k + 1 + 1 \in 1 .. N /\ k + 1 + 1 - 1 = k + 1
            BY <1>1, <2>1, <2>4
        <3>2. d[k + 1] = Hop(p, d[k]) /\ c[k + 1 + 1] = Hop(p, c[k + 1])
            BY <1>4, <1>5, <3>1 DEF Chased
        <3> QED BY <2>4, <3>1, <3>2
    <2>5. N - 1 \in X
        <3> HIDE DEF X
        <3> QED BY <2>2, <2>3, <2>4, UpTo
    <2>6. d[N - 1] = c[N]
        BY <2>2, <2>5
    <2>7. d[N] = d[N - 1]
        BY <1>1, <1>4, <1>5, <2>2, <2>6, ChaseStays
    <2> QED BY <1>4, <1>5, <2>6, <2>7
<1> QED BY <1>6, <1>7

\* So every token a chase passes leads to its end.
LEMMA ChaseFrom ==
    ASSUME NEW p, IsText(p), NEW t, NEW N \in Nat, NEW c, ChaseRun(c, p, t, N), ~IsSymbol(p, c[N])
    PROVE  \A k \in 0 .. N : Chase(p, c[k]) = c[N]
<1> DEFINE X == {k \in 0 .. N : Chase(p, c[k]) = c[N]}
<1>1. 0 \in X
    BY DEF ChaseRun
<1>2. ASSUME NEW k \in 0 .. N, k \in X, k < N PROVE k + 1 \in X
    <2>1. k + 1 \in 1 .. N /\ k + 1 - 1 = k /\ k + 1 \in 0 .. N
        BY <1>2
    <2>2. c[k + 1] = Hop(p, c[k])
        BY <2>1 DEF ChaseRun, Chased
    <2>3. Chase(p, c[k]) = c[N]
        BY <1>2
    <2>4. Chase(p, Hop(p, c[k])) = c[N]
        BY <2>3, ChaseTail
    <2> QED BY <2>1, <2>2, <2>4
<1> HIDE DEF X
<1>3. \A k \in 0 .. N : k \in X
    BY <1>1, <1>2, UpTo
<1> QED BY <1>3 DEF X

\* The symbols a chase passes are all in a table of the simulator.
Within(c, p, N, table) == \A k \in 0 .. N : IsSymbol(p, c[k]) => c[k][2] \in DOMAIN table

\* A chase that ends has ended after as many hops as the table has names: it
\* passes no name twice.
LEMMA ChaseShort ==
    ASSUME NEW p, NEW N \in Nat, NEW c, Chased(c, p, N), ~IsSymbol(p, c[N]),
           NEW table, Within(c, p, N, table), IsFiniteSet(DOMAIN table),
           NEW n \in 0 .. N, Cardinality(DOMAIN table) <= n
    PROVE  c[n] = c[N]
<1> DEFINE S == 0 .. n
           g == [k \in S |-> c[k][2]]
<1> SUFFICES ASSUME c[n] # c[N] PROVE FALSE
    OBVIOUS
<1>1. \A k \in 0 .. n : IsSymbol(p, c[k])
    <2> SUFFICES ASSUME NEW k \in 0 .. n, ~IsSymbol(p, c[k]) PROVE FALSE
        OBVIOUS
    <2>1. k \in 0 .. N /\ Chased(c, p, n)
        BY DEF Chased
    <2>2. c[N] = c[k]
        BY <2>1, ChaseStays
    <2>3. c[n] = c[k]
        BY <2>1, ChaseStays
    <2> QED BY <2>2, <2>3
<1>2. g \in [S -> DOMAIN table]
    BY <1>1 DEF Within
<1>3. IsFiniteSet(S) /\ Cardinality(S) = n + 1
    <2>1. n \in Int /\ 0 \in Int
        OBVIOUS
    <2>2. IsFiniteSet(0 .. n) /\ Cardinality(0 .. n) = IF 0 > n THEN 0 ELSE n - 0 + 1
        BY <2>1, FS_Interval
    <2> QED BY <2>2
<1>4. Cardinality(DOMAIN table) \in Nat
    BY FS_CardinalityType
<1>5. \E i, j \in S : i # j /\ g[i] = g[j]
    <2> HIDE DEF S, g
    <2>1. Cardinality(DOMAIN table) < Cardinality(S)
        BY <1>3, <1>4
    <2> QED BY <1>2, <1>3, <2>1, FS_PigeonHole
<1>6. PICK i \in S, j \in S : i < j /\ g[i] = g[j]
    <2>1. PICK i \in S, j \in S : i # j /\ g[i] = g[j]
        BY <1>5
    <2>2. i < j \/ j < i
        BY <2>1
    <2> QED BY <2>1, <2>2
<1>7. c[i][2] = c[j][2] /\ i \in Nat /\ j \in Nat /\ i < j /\ j <= n
    BY <1>6
<1> HIDE DEF g
<1>8. c[i + 1] = c[j + 1] /\ j + 1 <= N
    <2>1. j < N
        BY <1>1, <1>7
    <2>2. i + 1 \in 1 .. N /\ j + 1 \in 1 .. N /\ i + 1 - 1 = i /\ j + 1 - 1 = j
        BY <1>7, <2>1
    <2>3. c[i + 1] = Hop(p, c[i]) /\ c[j + 1] = Hop(p, c[j])
        BY <2>2 DEF Chased
    <2>4. IsSymbol(p, c[i]) /\ IsSymbol(p, c[j])
        BY <1>1, <1>7
    <2> QED BY <1>7, <2>1, <2>3, <2>4 DEF Hop
<1> DEFINE L == N - (j + 1)
           X == {k \in 0 .. L : c[i + 1 + k] = c[j + 1 + k]}
<1>9. L \in Nat /\ L \in 0 .. L
    BY <1>7, <1>8
<1>10. 0 \in X
    BY <1>7, <1>8, <1>9
<1>11. ASSUME NEW k \in 0 .. L, k \in X, k < L PROVE k + 1 \in X
    <2>1. /\ i + 1 + (k + 1) \in 1 .. N /\ i + 1 + (k + 1) - 1 = i + 1 + k
          /\ j + 1 + (k + 1) \in 1 .. N /\ j + 1 + (k + 1) - 1 = j + 1 + k /\ k + 1 \in 0 .. L
        BY <1>7, <1>8, <1>9, <1>11
    <2>2. /\ c[i + 1 + (k + 1)] = Hop(p, c[i + 1 + k])
          /\ c[j + 1 + (k + 1)] = Hop(p, c[j + 1 + k])
        BY <2>1 DEF Chased
    <2> QED BY <1>11, <2>1, <2>2
<1>12. L \in X
    <2> HIDE DEF X, L
    <2> QED BY <1>9, <1>10, <1>11, UpTo
\* The least line without a symbol is behind j, and the one as far behind i is
\* without one too.
<1> DEFINE E == {k \in 0 .. N : ~IsSymbol(p, c[k])}
           m == Min(E)
<1>13. m \in E /\ \A k \in E : m <= k
    <2>1. N \in E /\ E \subseteq Nat
        OBVIOUS
    <2> HIDE DEF E
    <2> QED BY <2>1, MinIn
<1> HIDE DEF m
<1>14. m \in 0 .. N /\ m > j
    BY <1>1, <1>7, <1>13
<1>15. m - (j + 1) \in 0 .. L /\ m - (j + 1) \in Nat
    BY <1>7, <1>14
<1>16. m - (j + 1) \in X
    <2>1. \A k \in 0 .. L : k \in X
        <3> HIDE DEF X, L
        <3> QED BY <1>9, <1>10, <1>11, UpTo
    <2> HIDE DEF X
    <2> QED BY <1>15, <2>1
<1>17. i + 1 + (m - (j + 1)) \in E
    <2>1. j + 1 + (m - (j + 1)) = m /\ i + 1 + (m - (j + 1)) \in 0 .. N
        BY <1>7, <1>14
    <2> QED BY <1>13, <1>16, <2>1
<1> HIDE DEF E
<1>18. i + 1 + (m - (j + 1)) < m
    BY <1>7, <1>14
<1> QED BY <1>7, <1>13, <1>14, <1>17, <1>18

-----------------------------------------------------------------------------
(* The tables of the compiled program, kind by kind.                       *)

\* One hop through the declarations of one kind.
KindHop(p, kind, x) == IF IsSymbol(p, x) /\ SymbolKind(p, x[2]) = kind THEN SymbolValue(p, x[2]) ELSE x

FollowRun(f, p, t, kind, n) ==
    /\ f[0] = t
    /\ \A k \in 1 .. n : f[k] = KindHop(p, kind, f[k - 1])
    /\ Follow(p, t, kind) = f[n]

\* resolve_alias and resolve_integer of the editor take one hop per name.
LEMMA FollowIs ==
    ASSUME NEW p, NEW t, NEW kind, NEW n \in Nat, n = Cardinality(Names(p))
    PROVE  \E f : FollowRun(f, p, t, kind, n)
<1> DEFINE T == {t, NoToken} \cup {SymbolValue(p, x) : x \in Names(p)}
           g == [x \in T |-> KindHop(p, kind, x)]
           Is(f) == f = [k \in 0 .. n |->
                           IF k = 0 THEN t
                           ELSE IF IsSymbol(p, f[k - 1]) /\ SymbolKind(p, f[k - 1][2]) = kind
                                THEN SymbolValue(p, f[k - 1][2])
                           ELSE f[k - 1]]
<1>1. g \in [T -> T]
    BY Zenon DEF KindHop, IsSymbol
<1>2. PICK f \in [0 .. n -> T] : Iterated(f, t, g, n)
    <2> HIDE DEF g
    <2>1. t \in T
        OBVIOUS
    <2> HIDE DEF T
    <2> QED BY <1>1, <2>1, IterationExists
<1>3. f[0] = t
    BY <1>2 DEF Iterated
<1>4. ASSUME NEW k \in 0 .. n, k # 0 PROVE f[k] = KindHop(p, kind, f[k - 1])
    <2>1. k - 1 \in 0 .. n
        BY <1>4
    <2>2. f[k] = g[f[k - 1]]
        <3> HIDE DEF g, T
        <3> QED BY <1>2, <1>4, Zenon DEF Iterated
    <2>3. f[k - 1] \in T
        <3> HIDE DEF T
        <3> QED BY <1>2, <2>1
    <2> QED BY <2>2, <2>3, Zenon
<1>5. Is(f)
    <2>1. f = [k \in 0 .. n |-> f[k]]
        <3> HIDE DEF T
        <3> QED BY <1>2
    <2>2. \A k \in 0 .. n :
             f[k] = IF k = 0 THEN t
                    ELSE IF IsSymbol(p, f[k - 1]) /\ SymbolKind(p, f[k - 1][2]) = kind
                         THEN SymbolValue(p, f[k - 1][2])
                    ELSE f[k - 1]
        BY <1>3, <1>4, Zenon DEF KindHop
    <2> QED BY <2>1, <2>2, Zenon
<1> DEFINE h == CHOOSE e : Is(e)
<1>6. Is(h)
    <2> HIDE DEF Is
    <2> QED BY <1>5, Zenon
<1>7. Follow(p, t, kind) = h[n]
    BY Zenon DEF Follow
<1> HIDE DEF h
<1>8. h[0] = t
    <2>1. 0 \in 0 .. n
        OBVIOUS
    <2> QED BY <1>6, <2>1, Zenon
<1>9. ASSUME NEW k \in 1 .. n PROVE h[k] = KindHop(p, kind, h[k - 1])
    <2>1. k \in 0 .. n /\ k # 0
        OBVIOUS
    <2> QED BY <1>6, <2>1, Zenon DEF KindHop
<1> QED BY <1>7, <1>8, <1>9 DEF FollowRun

\* The programs of which the analysis and the simulator read every operand alike.
Readily(p) == p \in Texts /\ Complete(p) /\ Fitting(p)

\* What a chain through a symbol of each kind comes to.
KindsOf(kind, r) ==
    /\ kind = "label" => r = NoToken
    /\ kind = "define" => r[1] = "num"
    /\ kind = "alias" => IsReg(r) \/ IsDevice(r)
    /\ kind \in {"label", "define", "alias"}

\* A define comes to a number, an alias to a register or a device.
LEMMA ResolvedKind ==
    ASSUME NEW p, Readily(p), NEW x, IsSymbol(p, x), ~IsSymbol(p, Chase(p, x))
    PROVE  KindsOf(SymbolKind(p, x[2]), Resolve(p, x))
<1> DEFINE n == DeclarationLine(p, x[2])
           line == LineAt(p, n)
           k == SymbolKind(p, x[2])
<1>1. IsText(p) /\ x[2] \in Names(p) /\ Fitting(p) /\ Complete(p)
    BY TextsAre DEF Readily, IsSymbol
<1>2. n \in Lines(p) /\ DeclaresOn(p, n)
    BY <1>1, DeclarationIn
<1>3. k = IF line.kind = "label" THEN "label" ELSE line.op
    BY DEF SymbolKind
<1>4. line.kind = "label" \/ (line.kind = "instruction" /\ line.op \in Declarations)
    BY <1>2 DEF DeclaresOn
<1>5. SymbolValue(p, x[2]) = IF line.kind = "label" \/ Len(line.args) < 2 THEN NoToken ELSE line.args[2]
    BY DEF SymbolValue
<1>6. Hop(p, x) = SymbolValue(p, x[2])
    BY DEF Hop
<1>7. Resolve(p, x) = Resolve(p, Hop(p, x))
    BY <1>1, ChaseTail DEF Resolve
<1>8. CASE line.kind = "label"
    <2>1. IsLabel(p, x)
        BY <1>3, <1>8 DEF IsLabel
    <2>2. Resolve(p, x) = NoToken
        BY <1>1, <2>1, LabelResolves
    <2> QED BY <1>3, <1>8, <2>2 DEF KindsOf
<1>9. CASE line.kind # "label"
    <2>1. line.kind = "instruction" /\ line.op \in Declarations /\ k = line.op
        BY <1>3, <1>4, <1>9
    <2>2. line.args \in Seq(Tokens) /\ Len(line.args) = 2
        BY <1>1, <1>2, <2>1, TextsAre DEF Readily, Complete
    <2>3. n \in InstructionLines(p)
        BY <1>2, <2>1 DEF InstructionLines, IsInstruction
    <2> HIDE DEF line, k, n
    <2>4. 2 \in DOMAIN line.args
        <3> HIDE DEF Tokens
        <3> QED BY <2>2
    <2>5. Resolve(p, x) = Resolve(p, line.args[2])
        BY <1>5, <1>6, <1>7, <1>9, <2>2
    <2>6. CASE line.op = "define"
        <3>1. ResolvesToNumber(p, line.args[2])
            BY <1>1, <2>3, <2>6 DEF Fitting, DefinesAreNumbers, line
        <3> QED BY <2>1, <2>5, <2>6, <3>1 DEF KindsOf, ResolvesToNumber, k
    <2>7. CASE line.op = "alias"
        <3>1. Signature("alias") = <<"name", "registerOrDevice">>
            BY DEF Signature
        <3>2. 2 \in DOMAIN Signature(line.op) /\ Signature(line.op)[2] = "registerOrDevice"
            BY <2>7, <3>1
        <3>3. OperandIsValid(p, line.args[2], "registerOrDevice")
            BY <1>1, <2>3, <2>4, <3>2 DEF Fitting, OperandsFit, line
        <3>4. IsReg(Resolve(p, line.args[2])) \/ IsDevice(Resolve(p, line.args[2]))
            BY <3>3 DEF OperandIsValid
        <3> QED BY <2>1, <2>5, <2>7, <3>4 DEF KindsOf, k
    <2> QED BY <2>1, <2>6, <2>7 DEF Declarations
<1> QED BY <1>8, <1>9

\* A table of the compiler holds every symbol of its kind.
LEMMA TableHolds ==
    ASSUME NEW p, IsText(p), NEW q, q = Compile(p), NEW x \in Names(p)
    PROVE  /\ SymbolKind(p, x) = "alias" => x \in DOMAIN q.aliases
           /\ SymbolKind(p, x) = "define" => x \in DOMAIN q.defines
           /\ SymbolKind(p, x) = "label" => x \in DOMAIN q.labels
<1> DEFINE n == DeclarationLine(p, x)
<1>1. n \in Lines(p) /\ DeclaresOn(p, n) /\ NameOn(p, n) = x
    <2> DEFINE D == DeclarationsOf(p, x)
    <2>1. D # {} /\ D \subseteq Lines(p)
        BY Zenon DEF Names, DeclarationsOf
    <2>2. Lines(p) \subseteq Nat
        BY DEF Lines, IsText
    <2>3. Min(D) \in D
        BY <2>1, <2>2, MinIn
    <2> QED BY <2>3 DEF DeclarationsOf, DeclarationLine
<1>2. SymbolKind(p, x) = DeclaredKind(p, n)
    BY DEF SymbolKind, DeclaredKind
<1>3. \A kind : SymbolKind(p, x) = kind => x \in DeclaredAs(p, kind)
    BY <1>1, <1>2, Zenon DEF DeclaredAs, DeclaredKind
<1>4. /\ q.labels = [y \in DeclaredAs(p, "label") |-> LastOf(p, y, {"label"})]
      /\ q.defines = [y \in DeclaredAs(p, "define") |-> LineAt(p, LastOf(p, y, {"define"})).args[2]]
      /\ q.aliases = [y \in DeclaredAs(p, "alias") |-> LineAt(p, LastOf(p, y, {"alias"})).args[2]]
    BY CompileFields
<1>5. /\ DOMAIN q.labels = DeclaredAs(p, "label") /\ DOMAIN q.defines = DeclaredAs(p, "define")
      /\ DOMAIN q.aliases = DeclaredAs(p, "alias")
    BY <1>4
<1> QED BY <1>3, <1>5

\* Its tables are short enough to be followed to the end.
LEMMA TablesShort ==
    ASSUME NEW p, Readily(p), NEW q, q = Compile(p)
    PROVE  /\ IsFiniteSet(DOMAIN q.aliases) /\ Hops(q.aliases) = Cardinality(DOMAIN q.aliases)
           /\ IsFiniteSet(DOMAIN q.defines) /\ Hops(q.defines) = Cardinality(DOMAIN q.defines)
<1>1. IsText(p) /\ Fitting(p)
    BY TextsAre DEF Readily
<1>2. DOMAIN q.defines = DeclaredAs(p, "define") /\ DOMAIN q.aliases = DeclaredAs(p, "alias")
    <2>1. /\ q.defines = [y \in DeclaredAs(p, "define") |-> LineAt(p, LastOf(p, y, {"define"})).args[2]]
          /\ q.aliases = [y \in DeclaredAs(p, "alias") |-> LineAt(p, LastOf(p, y, {"alias"})).args[2]]
        BY CompileFields
    <2> QED BY <2>1
<1>3. /\ Cardinality(DeclaredAs(p, "define")) <= MaximumHops
      /\ Cardinality(DeclaredAs(p, "alias")) <= MaximumHops
    BY <1>1 DEF Fitting, ChainsFollowed, Declarations
<1>4. Tables(p, q)
    BY <1>1, TablesAgree DEF Readily, Fitting
<1>5. DOMAIN q.defines \subseteq Names(p) /\ DOMAIN q.aliases \subseteq Names(p)
    BY <1>4 DEF Tables
<1>6. IsFiniteSet(DOMAIN q.aliases) /\ IsFiniteSet(DOMAIN q.defines)
    BY <1>1, <1>5, NamesFinite, FS_Subset
<1> QED BY <1>2, <1>3, <1>6 DEF Hops

-----------------------------------------------------------------------------
(* A name comes to the same thing in the analysis and in the program.      *)

\* A token that has no declaration of the kind is followed nowhere.
LEMMA FollowStays ==
    ASSUME NEW p, IsText(p), NEW t, NEW kind, ~(IsSymbol(p, t) /\ SymbolKind(p, t[2]) = kind)
    PROVE  Follow(p, t, kind) = t
<1> DEFINE N == Cardinality(Names(p))
<1>1. N \in Nat /\ N \in 0 .. N
    BY NamesFinite
<1>2. PICK f : FollowRun(f, p, t, kind, N)
    BY <1>1, FollowIs
<1> HIDE DEF N
<1> DEFINE X == {k \in 0 .. N : f[k] = t}
<1>3. 0 \in X
    BY <1>1, <1>2 DEF FollowRun
<1>4. ASSUME NEW k \in 0 .. N, k \in X, k < N PROVE k + 1 \in X
    <2>1. k + 1 \in 1 .. N /\ k + 1 - 1 = k /\ k + 1 \in 0 .. N
        BY <1>1, <1>4
    <2>2. f[k + 1] = KindHop(p, kind, f[k])
        BY <1>2, <2>1 DEF FollowRun
    <2> QED BY <1>4, <2>1, <2>2 DEF KindHop
<1>5. N \in X
    <2> HIDE DEF X
    <2> QED BY <1>1, <1>3, <1>4, UpTo
<1> QED BY <1>2, <1>5 DEF FollowRun

\* All symbols a chase passes are of one kind.
OfKind(c, p, N, kind) == \A k \in 0 .. N : IsSymbol(p, c[k]) => SymbolKind(p, c[k][2]) = kind

\* Then following that kind is chasing.
LEMMA FollowChases ==
    ASSUME NEW p, IsText(p), NEW t, NEW kind, NEW N \in Nat, N = Cardinality(Names(p)),
           NEW c, ChaseRun(c, p, t, N), OfKind(c, p, N, kind)
    PROVE  Follow(p, t, kind) = c[N]
<1>1. PICK f : FollowRun(f, p, t, kind, N)
    BY FollowIs
<1> DEFINE X == {k \in 0 .. N : f[k] = c[k]}
<1>2. 0 \in X
    BY <1>1 DEF FollowRun, ChaseRun
<1>3. ASSUME NEW k \in 0 .. N, k \in X, k < N PROVE k + 1 \in X
    <2>1. k + 1 \in 1 .. N /\ k + 1 - 1 = k /\ k + 1 \in 0 .. N
        BY <1>3
    <2>2. f[k + 1] = KindHop(p, kind, f[k])
        BY <1>1, <2>1 DEF FollowRun
    <2>3. c[k + 1] = Hop(p, c[k])
        BY <2>1 DEF ChaseRun, Chased
    <2>4. KindHop(p, kind, c[k]) = Hop(p, c[k])
        BY DEF OfKind, KindHop, Hop
    <2>5. f[k] = c[k]
        BY <1>3
    <2> QED BY <2>1, <2>2, <2>3, <2>4, <2>5
<1>4. N \in X
    <2> HIDE DEF X
    <2>1. N \in 0 .. N
        OBVIOUS
    <2> QED BY <1>2, <1>3, <2>1, UpTo
<1> QED BY <1>1, <1>4 DEF FollowRun

\* And following their table to its length comes to the end of the chase.
LEMMA ChainEnds ==
    ASSUME NEW p, NEW N \in Nat, NEW c, Chased(c, p, N), ~IsSymbol(p, c[N]),
           NEW table, Subtable(p, table), Within(c, p, N, table), IsFiniteSet(DOMAIN table),
           NEW n \in 0 .. N, n = Cardinality(DOMAIN table),
           NEW f, Followed(f, table, n), f[0] = c[0]
    PROVE  f[n] = c[N]
<1> DEFINE X == {k \in 0 .. n : f[k] = c[k]}
<1>1. n \in Nat /\ 0 \in X /\ n \in 0 .. n
    OBVIOUS
<1>2. ASSUME NEW k \in 0 .. n, k \in X, k < n PROVE k + 1 \in X
    <2>1. k + 1 \in 1 .. n /\ k + 1 - 1 = k /\ k + 1 \in 0 .. n /\ k + 1 \in 1 .. N /\ k \in 0 .. N
        BY <1>2
    <2>2. f[k + 1] = Through(table, f[k]) /\ f[k] = c[k]
        BY <1>2, <2>1 DEF Followed
    <2>3. c[k + 1] = Hop(p, c[k])
        BY <2>1 DEF Chased
    <2>4. Through(table, c[k]) = Hop(p, c[k])
        <3>1. CASE IsSymbol(p, c[k])
            <4>1. IsName(c[k]) /\ c[k][2] \in DOMAIN table
                BY <2>1, <3>1 DEF Within, IsSymbol
            <4> QED BY <3>1, <4>1 DEF Through, Hop, Subtable
        <3>2. CASE ~IsSymbol(p, c[k])
            BY <3>2 DEF Through, Hop, Subtable, IsSymbol
        <3> QED BY <3>1, <3>2
    <2> QED BY <2>1, <2>2, <2>3, <2>4
<1>3. n \in X
    <2> HIDE DEF X
    <2> QED BY <1>1, <1>2, UpTo
<1>4. c[n] = c[N]
    <2>1. n <= n
        BY <1>1
    <2>2. Cardinality(DOMAIN table) <= n
        BY <2>1
    <2> QED BY <2>2, ChaseShort
<1> QED BY <1>3, <1>4

\* A token without a place in a table is followed nowhere.
LEMMA ThroughStays ==
    ASSUME NEW table, NEW n \in Nat, NEW f, Followed(f, table, n),
           ~(IsName(f[0]) /\ f[0][2] \in DOMAIN table)
    PROVE  f[n] = f[0]
<1> DEFINE X == {k \in 0 .. n : f[k] = f[0]}
<1>1. 0 \in X /\ n \in 0 .. n
    OBVIOUS
<1>2. ASSUME NEW k \in 0 .. n, k \in X, k < n PROVE k + 1 \in X
    <2>1. k + 1 \in 1 .. n /\ k + 1 - 1 = k /\ k + 1 \in 0 .. n
        BY <1>2
    <2>2. f[k + 1] = Through(table, f[k])
        BY <2>1 DEF Followed
    <2> QED BY <1>2, <2>1, <2>2 DEF Through
<1>3. n \in X
    <2> HIDE DEF X
    <2> QED BY <1>1, <1>2, UpTo
<1> QED BY <1>3

\* The symbols on the way to an operand's value are all of the kind of the value.
LEMMA OneKind ==
    ASSUME NEW p, Readily(p), NEW t, Resolve(p, t) # NoToken,
           NEW N \in Nat, N = Cardinality(Names(p)), NEW c, ChaseRun(c, p, t, N)
    PROVE  /\ ~IsSymbol(p, c[N]) /\ c[N] = Resolve(p, t)
           /\ Resolve(p, t)[1] = "num" => OfKind(c, p, N, "define")
           /\ IsReg(Resolve(p, t)) \/ IsDevice(Resolve(p, t)) => OfKind(c, p, N, "alias")
<1> DEFINE r == Resolve(p, t)
<1>1. ~IsSymbol(p, c[N]) /\ c[N] = r
    BY DEF ChaseRun, Resolve, Settled
<1>2. IsText(p)
    BY TextsAre DEF Readily
<1>3. \A k \in 0 .. N : Chase(p, c[k]) = c[N]
    BY <1>1, <1>2, ChaseFrom
<1> HIDE DEF r
<1>4. \A k \in 0 .. N : Resolve(p, c[k]) = r
    BY <1>1, <1>3 DEF Resolve, Settled
<1>5. \A k \in 0 .. N : IsSymbol(p, c[k]) => KindsOf(SymbolKind(p, c[k][2]), r)
    BY <1>1, <1>3, <1>4, ResolvedKind
<1>6. r # NoToken
    BY DEF r
<1>7. r[1] = "num" => ~IsReg(r) /\ ~IsDevice(r)
    BY DEF IsReg, IsDevice
<1>8. r[1] = "num" => OfKind(c, p, N, "define")
    BY <1>5, <1>6, <1>7 DEF OfKind, KindsOf
<1>9. IsReg(r) \/ IsDevice(r) => OfKind(c, p, N, "alias")
    BY <1>5, <1>6, <1>7 DEF OfKind, KindsOf
<1> QED BY <1>1, <1>8, <1>9 DEF r

\* A register or a device behind an operand is found by both.
LEMMA AliasAgrees ==
    ASSUME NEW p, Readily(p), NEW q, q = Compile(p), NEW t, NEW r, r = Resolve(p, t),
           IsReg(r) \/ IsDevice(r)
    PROVE  ResolveAlias(q, t) = r /\ AliasOf(p, t) = r /\ IntegerOf(p, t) = NoToken
<1> DEFINE N == Cardinality(Names(p))
           A == Hops(q.aliases)
<1>1. IsText(p) /\ ~HasDuplicates(p) /\ Complete(p)
    BY TextsAre DEF Readily, Fitting
<1>2. Tables(p, q)
    BY <1>1, TablesAgree
<1>3. N \in Nat /\ A \in Nat /\ A \in 0 .. N
    BY <1>1, <1>2, HopsEnough
<1>4. IsFiniteSet(DOMAIN q.aliases) /\ A = Cardinality(DOMAIN q.aliases)
    BY TablesShort
<1>5. PICK c : ChaseRun(c, p, t, N)
    BY <1>3, ChaseIs
<1>6. PICK f : AliasRun(f, q, t, A)
    BY <1>3, AliasIs
<1> HIDE DEF A
<1>7. r # NoToken
    BY DEF NoToken, IsReg, IsDevice
<1>8. ~IsSymbol(p, c[N]) /\ c[N] = r /\ OfKind(c, p, N, "alias")
    BY <1>3, <1>5, <1>7, OneKind
<1>9. Within(c, p, N, q.aliases)
    <2> SUFFICES ASSUME NEW k \in 0 .. N, IsSymbol(p, c[k]) PROVE c[k][2] \in DOMAIN q.aliases
        BY DEF Within
    <2>1. c[k][2] \in Names(p) /\ SymbolKind(p, c[k][2]) = "alias"
        BY <1>8 DEF OfKind, IsSymbol
    <2> QED BY <1>1, <2>1, TableHolds
<1>10. Subtable(p, q.aliases)
    BY <1>2 DEF Tables, Subtable
<1>11. f[0] = c[0] /\ Followed(f, q.aliases, A) /\ ResolveAlias(q, t) = f[A] /\ Chased(c, p, N)
    BY <1>5, <1>6 DEF AliasRun, ChaseRun
<1> HIDE DEF N
<1>12. ResolveAlias(q, t) = r
    <2>1. f[A] = c[N]
        BY <1>3, <1>4, <1>8, <1>9, <1>10, <1>11, ChainEnds
    <2> QED BY <1>8, <1>11, <2>1
<1>13. AliasOf(p, t) = r
    <2>1. Follow(p, t, "alias") = c[N]
        BY <1>1, <1>3, <1>5, <1>8, FollowChases DEF N
    <2> QED BY <1>8, <2>1 DEF AliasOf
<1>14. Follow(p, r, "define") = r
    BY <1>1, <1>8, FollowStays
<1>15. IntegerOf(p, t) = NoToken
    BY <1>13, <1>14 DEF IntegerOf, IsReg, IsDevice
<1> QED BY <1>12, <1>13, <1>15

\* So is a number, which no alias leads to.
LEMMA DefineAgrees ==
    ASSUME NEW p, Readily(p), NEW q, q = Compile(p), NEW t, NEW r, r = Resolve(p, t), r[1] = "num"
    PROVE  /\ ResolveAlias(q, t) = t /\ AliasOf(p, t) = t /\ t[1] \in {"name", "num"}
           /\ ResolveNumber(q, t) = r /\ IntegerOf(p, t) = r
<1> DEFINE N == Cardinality(Names(p))
           A == Hops(q.aliases)
           D == Hops(q.defines)
<1>1. IsText(p) /\ ~HasDuplicates(p) /\ Complete(p)
    BY TextsAre DEF Readily, Fitting
<1>2. Tables(p, q)
    BY <1>1, TablesAgree
<1>3. N \in Nat /\ A \in Nat /\ D \in Nat /\ D \in 0 .. N
    BY <1>1, <1>2, HopsEnough
<1>4. IsFiniteSet(DOMAIN q.defines) /\ D = Cardinality(DOMAIN q.defines)
    BY TablesShort
<1>5. PICK c : ChaseRun(c, p, t, N)
    BY <1>3, ChaseIs
<1>6. PICK f : AliasRun(f, q, t, A)
    BY <1>3, AliasIs
<1>7. PICK g : NumberRun(g, q, t, D)
    BY <1>3, NumberIs
<1> HIDE DEF A, D
<1>8. r # NoToken
    BY DEF NoToken
<1>9. ~IsSymbol(p, c[N]) /\ c[N] = r /\ OfKind(c, p, N, "define")
    BY <1>3, <1>5, <1>8, OneKind
<1>10. Within(c, p, N, q.defines)
    <2> SUFFICES ASSUME NEW k \in 0 .. N, IsSymbol(p, c[k]) PROVE c[k][2] \in DOMAIN q.defines
        BY DEF Within
    <2>1. c[k][2] \in Names(p) /\ SymbolKind(p, c[k][2]) = "define"
        BY <1>9 DEF OfKind, IsSymbol
    <2> QED BY <1>1, <2>1, TableHolds
<1>11. Subtable(p, q.defines)
    BY <1>2 DEF Tables, Subtable
<1>12. c[0] = t /\ Chased(c, p, N) /\ 0 \in 0 .. N
    BY <1>3, <1>5 DEF ChaseRun
<1> HIDE DEF N
<1>13. IsSymbol(p, t) => SymbolKind(p, t[2]) = "define"
    BY <1>9, <1>12 DEF OfKind
<1>14. ResolveAlias(q, t) = t
    <2>1. ~(IsName(t) /\ t[2] \in DOMAIN q.aliases)
        BY <1>2, <1>13 DEF Tables, IsSymbol
    <2>2. f[0] = t /\ Followed(f, q.aliases, A) /\ ResolveAlias(q, t) = f[A]
        BY <1>6 DEF AliasRun
    <2> QED BY <1>3, <2>1, <2>2, ThroughStays
<1>15. AliasOf(p, t) = t
    BY <1>1, <1>13, FollowStays DEF AliasOf
<1>16. t[1] \in {"name", "num"}
    <2>1. CASE IsSymbol(p, t)
        BY <2>1 DEF IsSymbol, IsName
    <2>2. CASE ~IsSymbol(p, t)
        <3>1. c[N] = t
            BY <1>3, <1>12, <2>2, ChaseStays
        <3> QED BY <1>9, <3>1
    <2> QED BY <2>1, <2>2
<1>17. g[D] = c[N]
    <2>1. g[0] = c[0] /\ Followed(g, q.defines, D)
        BY <1>7, <1>12, <1>14 DEF NumberRun
    <2> QED BY <1>3, <1>4, <1>9, <1>10, <1>11, <1>12, <2>1, ChainEnds
<1>18. ResolveNumber(q, t) = r
    BY <1>7, <1>9, <1>17 DEF NumberRun, Numbered, IsName
<1>19. Follow(p, t, "define") = c[N]
    BY <1>1, <1>3, <1>5, <1>9, FollowChases DEF N
<1>20. IntegerOf(p, t) = r
    BY <1>9, <1>15, <1>19 DEF IntegerOf
<1> QED BY <1>14, <1>15, <1>16, <1>18, <1>20

-----------------------------------------------------------------------------
(* Operands of a line that fits.                                           *)

\* What the instruction data says of the operands of the instructions below.
LEMMA Signatures ==
    /\ Signature("sb") = <<"hash", "logicType", "number">>
    /\ Signature("sbn") = <<"hash", "hash", "logicType", "number">>
    /\ Signature("sbs") = <<"hash", "slotIndex", "logicType", "number">>
    /\ Signature("l") = <<"register", "device", "logicType">>
    /\ Signature("s") = <<"device", "logicType", "number">>
    /\ Signature("ls") = <<"register", "device", "slotIndex", "logicType">>
    /\ Signature("ss") = <<"device", "slotIndex", "logicType", "number">>
    /\ Signature("ld") = <<"register", "number", "logicType">>
    /\ Signature("sd") = <<"number", "logicType", "number">>
    /\ Signature("get") = <<"register", "device", "address">>
    /\ Signature("put") = <<"device", "address", "number">>
    /\ Signature("push") = <<"number">>
    /\ Signature("pop") = <<"register">>
    /\ Signature("peek") = <<"register">>
    /\ Signature("move") = <<"register", "number">>
BY DEF Signature

\* The operands of a line are as many as, and of the kinds, its instruction has.
Fits(p, line) ==
    /\ line.op \in Mnemonics
    /\ line.args \in Seq(Tokens)
    /\ Len(line.args) = Len(Signature(line.op))
    /\ \A i \in 1 .. Len(line.args) :
          /\ i \in DOMAIN line.args /\ line.args[i] \in Tokens
          /\ OperandIsValid(p, line.args[i], Signature(line.op)[i])
          /\ Signature(line.op)[i] = "logicType"
                => \E f \in Fields : line.args[i] = Field(f) /\ (line.op \in {"ls", "ss"} => f # Channel)

\* Every signature is a sequence.
LEMMA SignatureIsSeq == \A op \in Mnemonics : DOMAIN Signature(op) = 1 .. Len(Signature(op))
<1> SUFFICES ASSUME NEW op \in Mnemonics PROVE DOMAIN Signature(op) = 1 .. Len(Signature(op))
    OBVIOUS
<1>1. \E a, b, c, d, e, f :
         Signature(op) \in {<<>>, <<a>>, <<a, b>>, <<a, b, c>>, <<a, b, c, d>>, <<a, b, c, d, e>>, <<a, b, c, d, e, f>>}
    BY SMTT(60) DEF Signature
<1> QED BY <1>1

\* The lines of a program without errors whose names fit.
LEMMA LineFits ==
    ASSUME NEW p, Readily(p), NoErrors(Diagnostics(p)), NEW n \in DOMAIN Compile(p).operations
    PROVE  /\ Fits(p, LineAt(p, n)) /\ n \in InstructionLines(p)
           /\ Compile(p).operations[n].op = LineAt(p, n).op
           /\ Compile(p).operations[n].args = LineAt(p, n).args
<1> DEFINE q == Compile(p)
           line == LineAt(p, n)
<1>1. p \in Texts /\ OperandsFit(p) /\ FieldsNamed(p)
    BY DEF Readily, Fitting
<1>2. n \in Lines(p) /\ line.kind = "instruction"
    BY <1>1, OperationLines
<1>3. n \in InstructionLines(p)
    BY <1>2 DEF InstructionLines, IsInstruction
<1>4. q.operations[n] = [op |-> line.op, args |-> line.args]
    <2>1. q.operations = [k \in {k \in Lines(p) : /\ LineAt(p, k).kind = "instruction"
                                                  /\ LineAt(p, k).op \notin Declarations}
                            |-> [op |-> LineAt(p, k).op, args |-> LineAt(p, k).args]]
        BY CompileFields
    <2>2. n \in DOMAIN q.operations
        OBVIOUS
    <2> HIDE DEF q
    <2> QED BY <2>1, <2>2
<1>5. line.args \in Seq(Tokens)
    BY <1>1, <1>2, TextsAre
<1>6. line.op \in Mnemonics
    <2> SUFFICES ASSUME line.op \notin Mnemonics PROVE FALSE
        OBVIOUS
    <2>1. Diagnostic(n, "unknown-instruction") \in UnknownInstructions(p)
        BY <1>3 DEF UnknownInstructions
    <2>2. UnknownInstructions(p) \subseteq Diagnostics(p)
        BY Zenon DEF Diagnostics
    <2>3. Diagnostic(n, "unknown-instruction").code = "unknown-instruction"
        BY DEF Diagnostic
    <2> QED BY <2>1, <2>2, <2>3 DEF NoErrors, ErrorCodes
<1>7. Len(line.args) = Len(Signature(line.op))
    <2> SUFFICES ASSUME Len(line.args) # Len(Signature(line.op)) PROVE FALSE
        OBVIOUS
    <2>1. Diagnostic(n, "operand-count") \in OperandCounts(p)
        BY <1>3, <1>6 DEF OperandCounts
    <2>2. OperandCounts(p) \subseteq Diagnostics(p)
        BY Zenon DEF Diagnostics
    <2>3. Diagnostic(n, "operand-count").code = "operand-count"
        BY DEF Diagnostic
    <2> QED BY <2>1, <2>2, <2>3 DEF NoErrors, ErrorCodes
<1>8. DOMAIN Signature(line.op) = 1 .. Len(Signature(line.op))
    BY <1>6, SignatureIsSeq
<1>9. ASSUME NEW i \in 1 .. Len(line.args)
      PROVE  /\ i \in DOMAIN line.args /\ line.args[i] \in Tokens
             /\ OperandIsValid(p, line.args[i], Signature(line.op)[i])
             /\ Signature(line.op)[i] = "logicType"
                   => \E f \in Fields : line.args[i] = Field(f) /\ (line.op \in {"ls", "ss"} => f # Channel)
    <2> HIDE DEF line, Tokens
    <2>1. i \in DOMAIN line.args /\ line.args[i] \in Tokens
        BY <1>5
    <2>2. i \in DOMAIN line.args \cap DOMAIN Signature(line.op)
        BY <1>7, <1>8, <2>1
    <2> QED BY <1>1, <1>3, <2>1, <2>2 DEF OperandsFit, FieldsNamed, line
<1> HIDE DEF line
<1>10. Fits(p, line)
    BY <1>5, <1>6, <1>7, <1>9 DEF Fits
<1> QED BY <1>3, <1>4, <1>10 DEF line

\* What a run makes of an operand that comes to a number or a register.
Runs(q, c, t, r) ==
    /\ r[1] = "num" => RegisterIndex(q, c, t) = NoRegister /\ Value(q, c, t) = r
    /\ r[1] = "reg" => /\ RegisterIndex(q, c, t) = r[2] /\ r[2] \in RegisterSet
                       /\ Value(q, c, t) = Num(c.regs[r[2]])
    /\ r[1] \in {"num", "reg"} => Value(q, c, t) # NoToken

\* A number is itself, a register what it holds.
LEMMA OperandRuns ==
    ASSUME NEW p, Readily(p), NEW q, q = Compile(p), NEW c, NEW t \in Tokens, NEW r, r = Resolve(p, t)
    PROVE  Runs(q, c, t, r) /\ r \in Tokens \cup {NoToken}
<1>0. r \in Tokens \cup {NoToken}
    BY ResolvedIsToken DEF Readily
<1>1. CASE r[1] = "num"
    <2>1. ResolveAlias(q, t) = t /\ t[1] \in {"name", "num"} /\ ResolveNumber(q, t) = r
        BY <1>1, DefineAgrees
    <2>2. RegisterIndex(q, c, t) = NoRegister
        BY <2>1 DEF RegisterIndex
    <2>3. Value(q, c, t) = r
        BY <2>1, <2>2 DEF Value
    <2>4. r # NoToken
        BY <1>1 DEF NoToken
    <2> QED BY <1>0, <1>1, <2>2, <2>3, <2>4 DEF Runs
<1>2. CASE r[1] = "reg"
    <2>1. ResolveAlias(q, t) = r
        BY <1>2, AliasAgrees DEF IsReg
    <2>2. RegisterIndex(q, c, t) = r[2]
        BY <1>2, <2>1 DEF RegisterIndex
    <2>3. r[2] \in RegisterSet
        BY <1>0, <1>2 DEF Tokens, Plain, Base, NoToken, RegisterSet
    <2>4. r[2] # NoRegister
        BY <2>3, RegsAssumption DEF RegisterSet, NoRegister
    <2>5. Value(q, c, t) = Num(c.regs[r[2]])
        BY <2>2, <2>4 DEF Value
    <2>6. Num(c.regs[r[2]]) # NoToken
        BY DEF Num, NoToken
    <2> QED BY <1>0, <1>2, <2>2, <2>3, <2>5, <2>6 DEF Runs
<1>3. CASE r[1] \notin {"num", "reg"}
    BY <1>0, <1>3 DEF Runs
<1> QED BY <1>1, <1>2, <1>3

\* Writing a register an operand comes to does not fail.
LEMMA WriteSucceeds ==
    ASSUME NEW q, NEW c, "state" \in DOMAIN c, NEW w, NEW t, NEW v, v # NoToken, NEW r, Runs(q, c, t, r), r[1] = "reg"
    PROVE  /\ WriteRegister(q, c, w, t, v) = Result([c EXCEPT !.regs[r[2]] = v[2]], w)
           /\ WriteRegister(q, c, w, t, v).cpu.state = c.state
<1>1. RegisterIndex(q, c, t) = r[2] /\ r[2] \in RegisterSet
    BY DEF Runs
<1>2. r[2] # NoRegister
    BY <1>1, RegsAssumption DEF RegisterSet, NoRegister
<1>3. WriteRegister(q, c, w, t, v) = Result([c EXCEPT !.regs[r[2]] = v[2]], w)
    BY <1>1, <1>2 DEF WriteRegister
<1>4. Result([c EXCEPT !.regs[r[2]] = v[2]], w).cpu.state = c.state
    BY DEF Result
<1> QED BY <1>3, <1>4

\* The operand kinds.
LEMMA KindsAre ==
    ASSUME NEW p, NEW t, NEW r, r = Resolve(p, t)
    PROVE  /\ OperandIsValid(p, t, "register") => IsReg(r)
           /\ OperandIsValid(p, t, "number") => IsReg(r) \/ r[1] = "num"
           /\ OperandIsValid(p, t, "address") => IsReg(r) \/ r[1] = "num"
           /\ OperandIsValid(p, t, "device") => IsDevice(r) \/ IsReg(r) \/ r[1] = "num"
           /\ OperandIsValid(p, t, "hash") => r[1] = "num"
           /\ OperandIsValid(p, t, "slotIndex") => IsReg(r) \/ (r[1] = "num" /\ r[2] >= 0)
BY DEF OperandIsValid

-----------------------------------------------------------------------------
(* Batch stores.                                                           *)

\* No operand of a line is a register used through another.
Direct(p, line) == \A i \in DOMAIN line.args : Resolve(p, line.args[i])[1] # "ind"

\* An operand of a line that fits, at a place for numbers or registers.
Holds(p, q, c, line, i) ==
    LET t == line.args[i]
        r == Resolve(p, t)
        k == Signature(line.op)[i]
    IN  /\ i \in DOMAIN line.args /\ t \in Tokens
        /\ Runs(q, c, t, r)
        /\ k \in {"hash", "number", "address", "slotIndex", "register"} => r[1] \in {"num", "reg"} /\ Value(q, c, t) # NoToken
        /\ k = "register" => r[1] = "reg"
        /\ k = "hash" => r[1] = "num"
        /\ r[1] = "num" => Value(q, c, t) = r
        /\ k = "slotIndex" /\ r[1] = "num" => r[2] >= 0
        /\ k = "logicType" => \E f \in Fields : t = Field(f)

\* Every operand of a line that fits and uses no register through another is held.
LEMMA OperandsHold ==
    ASSUME NEW p, Readily(p), NEW q, q = Compile(p), NEW c, NEW line, Fits(p, line), Direct(p, line),
           NEW i \in 1 .. Len(line.args)
    PROVE  Holds(p, q, c, line, i)
<1> DEFINE t == line.args[i]
           r == Resolve(p, t)
           k == Signature(line.op)[i]
<1>1. /\ i \in DOMAIN line.args /\ t \in Tokens /\ OperandIsValid(p, t, k)
      /\ k = "logicType" => \E f \in Fields : t = Field(f)
    BY DEF Fits
<1>2. r[1] # "ind"
    BY <1>1 DEF Direct
<1>3. Runs(q, c, t, r)
    BY <1>1, OperandRuns
<1>4. /\ k \in {"hash", "number", "address", "slotIndex", "register"} => r[1] \in {"num", "reg"}
      /\ k = "register" => r[1] = "reg"
      /\ k = "hash" => r[1] = "num"
      /\ k = "slotIndex" /\ r[1] = "num" => r[2] >= 0
    <2>1. IsReg(r) => r[1] = "reg"
        BY <1>2 DEF IsReg
    <2>2. r[1] = "reg" => ~(r[1] = "num")
        OBVIOUS
    <2>3. /\ OperandIsValid(p, t, "register") => IsReg(r)
          /\ OperandIsValid(p, t, "number") => IsReg(r) \/ r[1] = "num"
          /\ OperandIsValid(p, t, "address") => IsReg(r) \/ r[1] = "num"
          /\ OperandIsValid(p, t, "hash") => r[1] = "num"
          /\ OperandIsValid(p, t, "slotIndex") => IsReg(r) \/ (r[1] = "num" /\ r[2] >= 0)
        BY KindsAre
    <2> HIDE DEF r, t, k
    <2> QED BY <1>1, <2>1, <2>2, <2>3
<1>5. r[1] \in {"num", "reg"} => Value(q, c, t) # NoToken
    BY <1>3 DEF Runs
<1>6. r[1] = "num" => Value(q, c, t) = r
    BY <1>3 DEF Runs
<1> HIDE DEF r, t, k
<1> QED BY <1>1, <1>3, <1>4, <1>5, <1>6 DEF Holds, r, t, k

\* Where a batch store has its operands.
LEMMA StorePlaces ==
    ASSUME NEW op \in BatchStores
    PROVE  LET s == Signature(op)
           IN  /\ HashAt(op) = 1 /\ s[1] = "hash"
               /\ FieldAt(op) \in 2 .. 3 /\ FieldAt(op) + 1 = Len(s)
               /\ s[FieldAt(op)] = "logicType" /\ s[FieldAt(op) + 1] = "number"
               /\ IsNamed(op) => NameAt(op) = 2 /\ s[2] = "hash"
               /\ IsSlotted(op) => SlotAt(op) = 2 /\ s[2] = "slotIndex"
<1>1. CASE op = "sb"
    <2>1. HashAt(op) = 1 /\ FieldAt(op) = 2 /\ ~IsNamed(op) /\ ~IsSlotted(op)
        BY <1>1 DEF HashAt, FieldAt, SlotAt, IsNamed, IsSlotted, BatchLoads
    <2>2. Signature(op) = <<"hash", "logicType", "number">>
        BY <1>1, Signatures
    <2> QED BY <2>1, <2>2
<1>2. CASE op = "sbn"
    <2>1. HashAt(op) = 1 /\ FieldAt(op) = 3 /\ NameAt(op) = 2 /\ ~IsSlotted(op)
        BY <1>2 DEF HashAt, FieldAt, SlotAt, NameAt, IsSlotted, BatchLoads
    <2>2. Signature(op) = <<"hash", "hash", "logicType", "number">>
        BY <1>2, Signatures
    <2> QED BY <2>1, <2>2
<1>3. CASE op = "sbs"
    <2>1. HashAt(op) = 1 /\ FieldAt(op) = 3 /\ SlotAt(op) = 2 /\ ~IsNamed(op)
        BY <1>3 DEF HashAt, FieldAt, SlotAt, IsNamed, BatchLoads
    <2>2. Signature(op) = <<"hash", "slotIndex", "logicType", "number">>
        BY <1>3, Signatures
    <2> QED BY <2>1, <2>2
<1> QED BY <1>1, <1>2, <1>3 DEF BatchStores

\* The prefab of a batch store without a diagnostic takes the field.
LEMMA BatchAccessSaid ==
    ASSUME NEW p, NoErrors(Diagnostics(p)), NEW n \in InstructionLines(p),
           NEW line, line = LineAt(p, n), line.op \in BatchStores, ~IsSlotted(line.op),
           Len(line.args) >= FieldAt(line.op),
           NEW f, line.args[FieldAt(line.op)] = Field(f),
           NEW h, line.args[HashAt(line.op)] = h, ResolvesToNumber(p, h), NumberOf(p, h) \in Catalog
    PROVE  NumberOf(p, h) \in Writable[f]
<1> SUFFICES ASSUME NumberOf(p, h) \notin Writable[f] PROVE FALSE
    OBVIOUS
<1>1. line.op \in BatchOps
    BY DEF BatchOps
<1>2. line.args[FieldAt(line.op)][1] = "field" /\ line.args[FieldAt(line.op)][2] = f
    BY DEF Field
<1> DEFINE codes == AccessCodes(line.op \in BatchStores, Readable[f], Writable[f], NumberOf(p, h))
<1>3. \E x \in {"unsupported", "read-only"} : x \in codes
    BY DEF AccessCodes
<1>4. PICK x \in {"unsupported", "read-only"} : x \in codes
    BY <1>3
<1> HIDE DEF codes
<1>5. Diagnostic(n, x) \in BatchAccessErrors(p)
    <2>1. \E k \in {k \in InstructionLines(p) :
                      /\ LineAt(p, k).op \in BatchOps /\ Len(LineAt(p, k).args) >= FieldAt(LineAt(p, k).op)
                      /\ ResolvesToNumber(p, LineAt(p, k).args[HashAt(LineAt(p, k).op)])
                      /\ NumberOf(p, LineAt(p, k).args[HashAt(LineAt(p, k).op)]) \in Catalog
                      /\ LineAt(p, k).args[FieldAt(LineAt(p, k).op)][1] = "field"} : k = n
        BY <1>1, <1>2
    <2> QED BY <1>2, <1>4, <2>1 DEF BatchAccessErrors, codes
<1>6. BatchAccessErrors(p) \subseteq Diagnostics(p)
    BY Zenon DEF Diagnostics
<1>7. Diagnostic(n, x).code = x
    BY DEF Diagnostic
<1> QED BY <1>5, <1>6, <1>7 DEF NoErrors, ErrorCodes

\* A batch store that passed validation does not fail.
LEMMA BatchStoreRuns ==
    ASSUME NEW p, Readily(p), NoErrors(Diagnostics(p)), NEW q, q = Compile(p), NEW n \in DOMAIN q.operations,
           NEW line, line = LineAt(p, n), line.op \in BatchStores, Direct(p, line), Networked,
           ResolvesToNumber(p, line.args[1]), NumberOf(p, line.args[1]) \in Catalog,
           NEW c, DOMAIN c = CpuFields, NEW w
    PROVE  Execute(q, n, c, w).cpu.state = c.state
<1> DEFINE o == q.operations[n]
           d == [c EXCEPT !.pc = n + 1]
           at == FieldAt(line.op)
<1>1. Fits(p, line) /\ n \in InstructionLines(p) /\ o.op = line.op /\ o.args = line.args
    BY LineFits
<1>2. Execute(q, n, c, w) = ExecuteBatchStore(q, o, d, w)
    <2>1. o.op \in DeviceOps
        BY <1>1 DEF DeviceOps, BatchOps
    <2>2. Execute(q, n, c, w) = ExecuteDevice(q, o, d, w)
        BY <2>1, ExecuteIs
    <2>3. o.op \notin BatchLoads /\ o.op \in BatchStores
        BY <1>1 DEF BatchLoads, BatchStores
    <2>4. o.op \notin {"ls", "ss"} /\ o.op # "sdse"
        BY <2>3 DEF BatchStores
    <2> QED BY <2>2, <2>3, <2>4 DEF ExecuteDevice
<1>3. /\ HashAt(line.op) = 1 /\ at \in 2 .. 3 /\ at + 1 = Len(line.args)
      /\ Signature(line.op)[at] = "logicType" /\ Signature(line.op)[at + 1] = "number"
      /\ Signature(line.op)[1] = "hash"
      /\ IsNamed(line.op) => NameAt(line.op) = 2 /\ Signature(line.op)[2] = "hash"
      /\ IsSlotted(line.op) => SlotAt(line.op) = 2 /\ Signature(line.op)[2] = "slotIndex"
    BY <1>1, StorePlaces DEF Fits
<1>4. \A i \in 1 .. Len(line.args) : Holds(p, q, d, line, i)
    BY <1>1, OperandsHold
<1>5. Holds(p, q, d, line, 1) /\ Holds(p, q, d, line, 2) /\ Holds(p, q, d, line, at) /\ Holds(p, q, d, line, at + 1)
    BY <1>3, <1>4
<1>6. ~BatchUnresolved(q, d, o)
    <2> HIDE DEF d, o, at
    <2>1. Value(q, d, line.args[1]) # NoToken
        BY <1>3, <1>5 DEF Holds
    <2>2. IsNamed(line.op) \/ IsSlotted(line.op) => Value(q, d, line.args[2]) # NoToken
        BY <1>3, <1>5 DEF Holds
    <2> QED BY <1>1, <1>3, <2>1, <2>2 DEF BatchUnresolved
<1>7. Value(q, d, o.args[FieldAt(o.op) + 1]) # NoToken
    BY <1>1, <1>3, <1>5 DEF Holds
<1>8. PICK f \in Fields : line.args[at] = Field(f)
    BY <1>3, <1>5 DEF Holds
<1>9. LogicName(o.args[FieldAt(o.op)]) = f
    BY <1>1, <1>8 DEF LogicName, Field
<1>10. ASSUME ~IsSlotted(o.op), NEW e \in Batch(q, d, o)
       PROVE  CanWrite(e, -1, f)
    <2>1. NumberOf(p, line.args[1]) \in Writable[f]
        BY <1>1, <1>3, <1>8, <1>10, BatchAccessSaid
    <2>2. Prefab[e] = NumberOf(p, line.args[1])
        <3>1. Value(q, d, line.args[1]) = Resolve(p, line.args[1])
            BY <1>3, <1>5 DEF Holds, ResolvesToNumber
        <3>2. Prefab[e] = Value(q, d, o.args[HashAt(o.op)])[2]
            BY <1>10 DEF Batch
        <3> QED BY <1>1, <1>3, <3>1, <3>2 DEF NumberOf
    <2>3. e \in Devices
        <3>1. PICK i \in DOMAIN OnNetwork : e = OnNetwork[i]
            BY <1>10 DEF Batch
        <3> QED BY <3>1, AccessAssumption
    <2>4. f # Channel
        BY <1>8, <2>1, AccessAssumption
    <2> QED BY <1>8, <2>1, <2>2, <2>3, <2>4 DEF CanWrite
<1>11. \E z : ExecuteBatchStore(q, o, d, w) = Result(d, z)
    <2> HIDE DEF d, o, at
    <2> QED BY <1>6, <1>7, <1>9, <1>10 DEF ExecuteBatchStore
<1>12. d.state = c.state
    BY DEF CpuFields
<1> HIDE DEF d, o
<1> QED BY <1>2, <1>11, <1>12 DEF Result

-----------------------------------------------------------------------------
(* Devices the editor knows.                                               *)

\* What the environment says of a line, against how the operation ended.
Fate(p, line, state) ==
    /\ state = "Error" /\ StaticAccess(p, line) => ContextCodes(p, line) # {}
    /\ state # "Error" /\ ~UsesHousingMemory(p, line) => ContextCodes(p, line) \cap Impossible(line) = {}

\* A line names its device itself, by a pin or as db.
NamesDevice(a) == DeviceToken(a)[1] \in {"pin", "base"}

\* The cases of validate_context on an access.
LEMMA ContextIs ==
    ASSUME NEW p, NEW line, line.op \in ContextOps, NEW t, t = line.args[ContextDeviceAt(line.op)],
           NEW d, d = ContextDevice(p, line)
    PROVE  /\ d # NoDevice /\ d # Housing /\ d \notin ReachableDevices
                => ContextCodes(p, line) = {"unreachable-device"}
           /\ d # NoDevice /\ (d = Housing \/ d \in ReachableDevices)
                => ContextCodes(p, line) = DirectCodes(p, line, d)
           /\ d = NoDevice /\ NamesDevice(AliasOf(p, t)) => ContextCodes(p, line) = {"unassigned-device"}
           /\ d = NoDevice /\ ~NamesDevice(AliasOf(p, t)) /\ ByReferenceId(line.op) /\ IntegerOf(p, t) # NoToken
                => ContextCodes(p, line) = {"unknown-reference-id"}
           /\ d = NoDevice /\ ~NamesDevice(AliasOf(p, t)) /\ ~(ByReferenceId(line.op) /\ IntegerOf(p, t) # NoToken)
                => ContextCodes(p, line) = {}
<1>1. line.op \notin BatchOps
    BY DEF ContextOps, BatchOps, BatchLoads, BatchStores
<1> HIDE DEF ContextOps, BatchOps
<1> QED BY <1>1 DEF ContextCodes, NamesDevice

\* The cases of validate_direct_operation.
LEMMA DirectIs ==
    ASSUME NEW p, NEW line, NEW d, NEW at, at = ContextDeviceAt(line.op)
    PROVE  /\ line.op \in {"get", "put"} => DirectCodes(p, line, d) = ConnectionCodes(p, line, d) \cup MemoryCodes(p, line, d)
           /\ line.op \in {"ls", "ss"} => DirectCodes(p, line, d) = ConnectionCodes(p, line, d) \cup SlotCodes(p, line, line.args[at + 2][2])
           /\ line.op \in {"l", "s", "ld", "sd"} => DirectCodes(p, line, d) = ConnectionCodes(p, line, d) \cup FieldCodes(p, line, d, line.args[at + 1][2])
           /\ ConnectionCodes(p, line, d) \cap Impossible(line) = {}
<1>1. ConnectionCodes(p, line, d) \subseteq {"invalid-connection", "unattached-connection"}
    BY DEF ConnectionCodes
<1>2. ConnectionCodes(p, line, d) \cap Impossible(line) = {}
    BY <1>1 DEF Impossible
<1> HIDE DEF ContextDeviceAt
<1> QED BY <1>2 DEF DirectCodes

\* The device an operand names is the same for the editor and for a run.
LEMMA DeviceAgrees ==
    ASSUME NEW p, Readily(p), NEW q, q = Compile(p), NEW c, NEW t \in Tokens,
           NEW r, r = Resolve(p, t), IsDevice(r) \/ IsReg(r) \/ r[1] = "num",
           NEW a, a = AliasOf(p, t)
    PROVE  /\ ResolveAlias(q, t) = a /\ a \in Tokens
           /\ NamesDevice(a) =>
                /\ DeviceToken(a) \in Plain
                /\ DeviceReference(q, c, t) =
                     IF DeviceToken(a) = Base THEN Housing
                     ELSE IF DeviceToken(a)[1] = "pin" /\ DeviceToken(a)[2] \in DOMAIN PinOfDevice
                          THEN PinOfDevice[DeviceToken(a)[2]] ELSE NoDevice
           /\ Connection(a) \in Nat \cup {-1}
           /\ ~IsDevice(r) => ~NamesDevice(a) /\ Connection(a) = -1
<1>0. r \in Tokens \cup {NoToken}
    BY ResolvedIsToken DEF Readily
<1>1. /\ IsDevice(r) \/ IsReg(r) => ResolveAlias(q, t) = r /\ a = r
      /\ r[1] = "num" => ResolveAlias(q, t) = t /\ a = t /\ t[1] \in {"name", "num"}
    BY AliasAgrees, DefineAgrees
<1>2. ResolveAlias(q, t) = a /\ a \in Tokens
    <2>1. r # NoToken
        BY DEF NoToken, IsDevice, IsReg
    <2> HIDE DEF Tokens
    <2> QED BY <1>0, <1>1, <2>1
<1>3. ~IsDevice(r) => a[1] \in {"reg", "ind", "name", "num"}
    BY <1>1 DEF IsReg
<1>4. ~IsDevice(r) => ~NamesDevice(a) /\ Connection(a) = -1
    BY <1>3 DEF NamesDevice, DeviceToken, Connection
<1>5. Connection(a) \in Nat \cup {-1}
    BY <1>2 DEF Connection, Tokens, Plain, Base
<1>6. ASSUME NamesDevice(a)
      PROVE  DeviceToken(a) \in Plain
    <2>1. DeviceToken(a) \in Plain \cup {a}
        BY <1>2 DEF DeviceToken, Tokens, Plain, Base
    <2> QED BY <1>2, <1>6, <2>1 DEF NamesDevice, Tokens, Plain, Base
<1>7. ASSUME NamesDevice(a)
      PROVE  DeviceReference(q, c, t) =
                IF DeviceToken(a) = Base THEN Housing
                ELSE IF DeviceToken(a)[1] = "pin" /\ DeviceToken(a)[2] \in DOMAIN PinOfDevice
                     THEN PinOfDevice[DeviceToken(a)[2]] ELSE NoDevice
    <2> DEFINE b == DeviceToken(a)
    <2>1. b \in Plain
        BY <1>6, <1>7
    <2>2. \/ b = Base /\ b[1] = "base" /\ b[1] # "pin"
          \/ b # Base /\ b[1] = "pin" /\ b[1] # "base"
        BY <2>1 DEF Plain, Base
    <2>3. DeviceToken(ResolveAlias(q, t)) = b
        BY <1>2
    <2> HIDE DEF b
    <2>4. DeviceReference(q, c, t) =
             CASE b[1] = "base" -> Housing
               [] b[1] = "pin" -> IF b[2] \in DOMAIN PinOfDevice THEN PinOfDevice[b[2]] ELSE NoDevice
               [] OTHER -> DeviceReference(q, c, t)
        BY <2>2, <2>3 DEF DeviceReference
    <2>5. CASE b = Base /\ b[1] = "base" /\ b[1] # "pin"
        BY <2>4, <2>5 DEF b
    <2>6. CASE b # Base /\ b[1] = "pin" /\ b[1] # "base"
        BY <2>4, <2>6 DEF b
    <2> QED BY <2>2, <2>5, <2>6
<1> QED BY <1>2, <1>4, <1>5, <1>6, <1>7

\* For l, s, ls, ss, get and put the editor and a run mean the same device.
LEMMA ContextDeviceAgrees ==
    ASSUME NEW p, Readily(p), NEW q, q = Compile(p), NEW c, NEW line, ~ByReferenceId(line.op),
           NEW t \in Tokens, t = line.args[ContextDeviceAt(line.op)],
           NEW r, r = Resolve(p, t), IsDevice(r) \/ IsReg(r) \/ r[1] = "num"
    PROVE  /\ NamesDevice(AliasOf(p, t)) => DeviceReference(q, c, t) = ContextDevice(p, line)
           /\ ContextDevice(p, line) # NoDevice => NamesDevice(AliasOf(p, t))
           /\ ContextDevice(p, line) \in Devices \cup {NoDevice}
<1> DEFINE a == AliasOf(p, t)
           b == DeviceToken(a)
<1>1. NamesDevice(a) =>
        /\ b \in Plain
        /\ DeviceReference(q, c, t) = IF b = Base THEN Housing
                                      ELSE IF b[1] = "pin" /\ b[2] \in DOMAIN PinOfDevice
                                           THEN PinOfDevice[b[2]] ELSE NoDevice
    BY DeviceAgrees
<1>2. ContextDevice(p, line) = IF b = Base THEN Housing
                               ELSE IF b[1] = "pin" /\ b[2] \in DOMAIN PinOfDevice
                                    THEN PinOfDevice[b[2]] ELSE NoDevice
    BY DEF ContextDevice
<1>3. Housing \in Devices /\ \A i \in DOMAIN PinOfDevice : PinOfDevice[i] \in Devices
    BY WorldAssumption
<1>4. ContextDevice(p, line) # NoDevice => NamesDevice(a)
    BY <1>2 DEF NamesDevice, Base
<1> HIDE DEF a, b
<1> QED BY <1>1, <1>2, <1>3, <1>4 DEF a, b

\* An access written in the program uses no register through another.
LEMMA StaticIsDirect ==
    ASSUME NEW p, Readily(p), NEW line, StaticAccess(p, line)
    PROVE  Direct(p, line)
<1> SUFFICES ASSUME NEW i \in DOMAIN line.args, Resolve(p, line.args[i])[1] = "ind"
             PROVE  FALSE
    BY DEF Direct
<1>1. AliasOf(p, line.args[i]) = Resolve(p, line.args[i])
    BY AliasAgrees DEF IsReg
<1> QED BY <1>1 DEF StaticAccess

-----------------------------------------------------------------------------
(* Fields of a device.                                                     *)

\* What an access to a field needs.
CanAccess(op, d, k, f) == IF op \in Stores THEN CanWrite(d, k, f) ELSE CanRead(d, k, f)

\* The editor's codes for a field are there when the access fails, and the
\* codes that call it impossible only then.
LEMMA FieldSaid ==
    ASSUME NEW p, NEW line, line.op \in {"l", "s", "ld", "sd"}, NEW d \in Devices,
           NEW t, t = line.args[ContextDeviceAt(line.op)],
           NEW k \in Nat \cup {-1}, k = Connection(AliasOf(p, t)),
           NEW f \in Fields, line.args[ContextDeviceAt(line.op) + 1] = Field(f)
    PROVE  /\ ~CanAccess(line.op, d, k, f) => DirectCodes(p, line, d) # {}
           /\ CanAccess(line.op, d, k, f) => DirectCodes(p, line, d) \cap Impossible(line) = {}
<1> DEFINE read == Readable[f]
           write == Writable[f]
           conn == ConnectionCodes(p, line, d)
           code == FieldCodes(p, line, d, f)
<1>1. DirectCodes(p, line, d) = conn \cup code /\ conn \cap Impossible(line) = {}
    BY DirectIs DEF Field
<1>2. Attached[d] \subseteq Nat
    BY AccessAssumption
<1>3. ASSUME f = Channel
      PROVE  /\ CanAccess(line.op, d, k, f) <=> k \in Attached[d]
             /\ k = -1 => code = {"channel-needs-connection"}
             /\ k # -1 => code = {}
    BY <1>3 DEF CanAccess, CanRead, CanWrite, FieldCodes, ChannelCodes
<1>4. k # -1 /\ k \notin Attached[d] => conn # {}
    BY DEF ConnectionCodes
<1>5. ASSUME f # Channel
      PROVE  /\ CanAccess(line.op, d, k, f) <=> Prefab[d] \in (IF line.op \in Stores THEN write ELSE read)
             /\ code = AccessCodes(line.op \in Stores, read, write, Prefab[d])
    BY <1>5 DEF CanAccess, CanRead, CanWrite, FieldCodes
<1>6. ASSUME f # Channel
      PROVE  /\ ~CanAccess(line.op, d, k, f) => code # {}
             /\ CanAccess(line.op, d, k, f) => code = {}
    BY <1>5, <1>6 DEF AccessCodes
<1> HIDE DEF conn, code
<1>7. CASE f = Channel
    <2>1. CASE k = -1
        BY <1>1, <1>2, <1>3, <1>7, <2>1
    <2>2. CASE k # -1
        BY <1>1, <1>3, <1>4, <1>7, <2>2
    <2> QED BY <2>1, <2>2
<1>8. CASE f # Channel
    BY <1>1, <1>6, <1>8
<1> QED BY <1>7, <1>8

\* How an access to a field ends: d is the device, k the connection.
LEMMA FieldEnds ==
    ASSUME NEW q, NEW o, o.op \in {"l", "s", "ld", "sd"}, NEW c, "state" \in DOMAIN c, c.state # "Error", NEW w,
           NEW at, at = ContextDeviceAt(o.op), NEW id, id = Value(q, c, o.args[at]),
           NEW d, d = IF o.op \in {"l", "s"} THEN DeviceReference(q, c, o.args[at])
                      ELSE IF id # NoToken /\ HasReference(id[2]) THEN DeviceByReference(id[2])
                      ELSE NoDevice,
           NEW k, k = IF o.op \in {"l", "s"} THEN Connection(ResolveAlias(q, o.args[at])) ELSE -1,
           NEW f, o.args[at + 1] = Field(f), NEW r, r = ExecuteField(q, o, c, w)
    PROVE  /\ r.cpu.state = "Error" /\ CanAccess(o.op, d, k, f)
                => IF o.op \in {"l", "ld"} THEN RegisterIndex(q, c, o.args[1]) = NoRegister
                   ELSE Value(q, c, o.args[3]) = NoToken
           /\ ~CanAccess(o.op, d, k, f) => r.cpu.state = "Error"
<1>1. LogicName(o.args[at + 1]) = f
    BY DEF LogicName, Field
<1>2. CASE o.op \in {"l", "ld"}
    <2>1. at = 2 /\ o.op \notin Stores /\ o.op \notin {"s", "sd"}
        BY <1>2 DEF ContextDeviceAt, Stores
    <2>2. r = IF CanRead(d, k, f) THEN WriteRegister(q, c, w, o.args[1], Num(ReadField(w, d, f))) ELSE Fail(c, w)
        BY <1>1, <1>2, <2>1 DEF ExecuteField
    <2>3. Num(ReadField(w, d, f)) # NoToken
        BY DEF Num, NoToken
    <2>4. Fail(c, w).cpu.state = "Error"
        BY DEF Fail, Result
    <2>5. RegisterIndex(q, c, o.args[1]) # NoRegister
            => WriteRegister(q, c, w, o.args[1], Num(ReadField(w, d, f))).cpu.state # "Error"
        BY <2>3 DEF WriteRegister, Result
    <2>6. CanAccess(o.op, d, k, f) = CanRead(d, k, f)
        BY <2>1 DEF CanAccess
    <2> QED BY <1>2, <2>2, <2>4, <2>5, <2>6
<1>3. CASE o.op \in {"s", "sd"}
    <2>1. at = 1 /\ o.op \in Stores /\ o.op \notin {"l", "ld"}
        BY <1>3 DEF ContextDeviceAt, Stores
    <2> DEFINE v == Value(q, c, o.args[3])
    <2>2. r = IF v # NoToken /\ CanWrite(d, k, f) THEN Result(c, WriteField(w, d, f, v[2])) ELSE Fail(c, w)
        BY <1>1, <1>3, <2>1 DEF ExecuteField
    <2>4. Fail(c, w).cpu.state = "Error" /\ Result(c, WriteField(w, d, f, v[2])).cpu.state = c.state
        BY DEF Fail, Result
    <2>6. CanAccess(o.op, d, k, f) = CanWrite(d, k, f)
        BY <2>1 DEF CanAccess
    <2> HIDE DEF v
    <2>7. CASE v # NoToken /\ CanWrite(d, k, f)
        BY <2>1, <2>2, <2>4, <2>6, <2>7
    <2>8. CASE ~CanWrite(d, k, f)
        BY <2>1, <2>2, <2>4, <2>6, <2>8
    <2>9. CASE v = NoToken
        BY <2>1, <2>2, <2>4, <2>6, <2>9 DEF v
    <2> QED BY <2>7, <2>8, <2>9
<1> QED BY <1>2, <1>3

\* Where an access to a field has its operands.
LEMMA FieldPlaces ==
    ASSUME NEW p, NEW line, Fits(p, line), line.op \in {"l", "s", "ld", "sd"},
           NEW at, at = ContextDeviceAt(line.op)
    PROVE  /\ at \in 1 .. 2 /\ Len(line.args) = 3
           /\ Signature(line.op)[at] = IF ByReferenceId(line.op) THEN "number" ELSE "device"
           /\ Signature(line.op)[at + 1] = "logicType"
           /\ line.op \in {"l", "ld"} => Signature(line.op)[1] = "register"
           /\ line.op \in {"s", "sd"} => Signature(line.op)[3] = "number"
<1>1. CASE line.op = "l"
    <2>1. Signature(line.op) = <<"register", "device", "logicType">> /\ at = 2 /\ ~ByReferenceId(line.op)
        BY <1>1, Signatures DEF ContextDeviceAt, ByReferenceId
    <2> QED BY <1>1, <2>1 DEF Fits
<1>2. CASE line.op = "s"
    <2>1. Signature(line.op) = <<"device", "logicType", "number">> /\ at = 1 /\ ~ByReferenceId(line.op)
        BY <1>2, Signatures DEF ContextDeviceAt, ByReferenceId
    <2> QED BY <1>2, <2>1 DEF Fits
<1>3. CASE line.op = "ld"
    <2>1. Signature(line.op) = <<"register", "number", "logicType">> /\ at = 2 /\ ByReferenceId(line.op)
        BY <1>3, Signatures DEF ContextDeviceAt, ByReferenceId
    <2> QED BY <1>3, <2>1 DEF Fits
<1>4. CASE line.op = "sd"
    <2>1. Signature(line.op) = <<"number", "logicType", "number">> /\ at = 1 /\ ByReferenceId(line.op)
        BY <1>4, Signatures DEF ContextDeviceAt, ByReferenceId
    <2> QED BY <1>4, <2>1 DEF Fits
<1> QED BY <1>1, <1>2, <1>3, <1>4

\* The editor and a run agree on an access to a field.
LEMMA FieldAgrees ==
    ASSUME NEW p, Readily(p), NEW q, q = Compile(p), NEW line, Fits(p, line), line.op \in {"l", "s", "ld", "sd"},
           NEW o, o.op = line.op, o.args = line.args, NEW c, "state" \in DOMAIN c, c.state # "Error", NEW w
    PROVE  Fate(p, line, ExecuteField(q, o, c, w).cpu.state)
<1> DEFINE at == ContextDeviceAt(line.op)
           t == line.args[at]
           id == Value(q, c, t)
           D == IF line.op \in {"l", "s"} THEN DeviceReference(q, c, t)
                ELSE IF id # NoToken /\ HasReference(id[2]) THEN DeviceByReference(id[2])
                ELSE NoDevice
           k == IF line.op \in {"l", "s"} THEN Connection(ResolveAlias(q, t)) ELSE -1
           d == ContextDevice(p, line)
           s == ExecuteField(q, o, c, w).cpu.state
<1>1. /\ at \in 1 .. 2 /\ Len(line.args) = 3
      /\ Signature(line.op)[at] = IF ByReferenceId(line.op) THEN "number" ELSE "device"
      /\ Signature(line.op)[at + 1] = "logicType"
      /\ line.op \in {"l", "ld"} => Signature(line.op)[1] = "register"
      /\ line.op \in {"s", "sd"} => Signature(line.op)[3] = "number"
    BY FieldPlaces
<1>2. PICK f \in Fields : line.args[at + 1] = Field(f)
    BY <1>1 DEF Fits
<1>3. t \in Tokens /\ OperandIsValid(p, t, Signature(line.op)[at])
    BY <1>1 DEF Fits
<1>4. IsDevice(Resolve(p, t)) \/ IsReg(Resolve(p, t)) \/ Resolve(p, t)[1] = "num"
    BY <1>1, <1>3, KindsAre
<1>5. ResolveAlias(q, t) = AliasOf(p, t) /\ Connection(AliasOf(p, t)) \in Nat \cup {-1}
    BY <1>3, <1>4, DeviceAgrees
<1>6. ByReferenceId(line.op) <=> line.op \in {"ld", "sd"}
    BY DEF ByReferenceId
\* The device of the context is the device of the run, and the connection too.
<1>7. /\ d # NoDevice => D = d /\ d \in Devices
      /\ k = Connection(AliasOf(p, t)) /\ k \in Nat \cup {-1}
      /\ d = NoDevice /\ NamesDevice(AliasOf(p, t)) => D = NoDevice
      /\ ByReferenceId(line.op) => ~NamesDevice(AliasOf(p, t))
    <2>1. CASE ~ByReferenceId(line.op)
        <3>1. /\ NamesDevice(AliasOf(p, t)) => DeviceReference(q, c, t) = d
              /\ d # NoDevice => NamesDevice(AliasOf(p, t))
              /\ d \in Devices \cup {NoDevice}
            BY <1>3, <1>4, <2>1, ContextDeviceAgrees
        <3> QED BY <1>5, <1>6, <2>1, <3>1
    <2>2. CASE ByReferenceId(line.op)
        <3>1. IsReg(Resolve(p, t)) \/ Resolve(p, t)[1] = "num"
            BY <1>1, <1>3, <2>2, KindsAre
        <3>2. ~IsDevice(Resolve(p, t))
            BY <3>1 DEF IsDevice, IsReg
        <3>3. ~NamesDevice(AliasOf(p, t)) /\ Connection(AliasOf(p, t)) = -1
            BY <1>3, <1>4, <3>2, DeviceAgrees
        <3>4. IntegerOf(p, t) # NoToken => id = IntegerOf(p, t)
            <4>1. IsReg(Resolve(p, t)) => IntegerOf(p, t) = NoToken
                BY AliasAgrees
            <4>2. Resolve(p, t)[1] = "num" => IntegerOf(p, t) = Resolve(p, t)
                BY DefineAgrees
            <4>3. Runs(q, c, t, Resolve(p, t))
                BY <1>3, OperandRuns
            <4>4. Resolve(p, t)[1] = "num" => id = Resolve(p, t)
                BY <4>3 DEF Runs
            <4> HIDE DEF id, t
            <4> QED BY <3>1, <4>1, <4>2, <4>4
        <3>5. d = IF IntegerOf(p, t) # NoToken /\ IntegerOf(p, t)[2] \in ExplicitIds /\ HasReference(IntegerOf(p, t)[2])
                  THEN DeviceByReference(IntegerOf(p, t)[2]) ELSE NoDevice
            BY <2>2 DEF ContextDevice
        <3>6. \A i : HasReference(i) => DeviceByReference(i) \in Devices
            BY ReferenceAssumption DEF HasReference, DeviceByReference
        <3>7. D = IF id # NoToken /\ HasReference(id[2]) THEN DeviceByReference(id[2]) ELSE NoDevice
            BY <1>6, <2>2
        <3>8. k = -1
            BY <1>6, <2>2
        <3> HIDE DEF d, D, id, k
        <3>9. d # NoDevice => D = d /\ d \in Devices
            BY <3>4, <3>5, <3>6, <3>7
        <3> QED BY <3>3, <3>8, <3>9
    <2> QED BY <2>1, <2>2
<1>8. /\ s = "Error" /\ CanAccess(line.op, D, k, f)
            => IF line.op \in {"l", "ld"} THEN RegisterIndex(q, c, line.args[1]) = NoRegister
               ELSE Value(q, c, line.args[3]) = NoToken
      /\ ~CanAccess(line.op, D, k, f) => s = "Error"
    BY <1>2, FieldEnds
<1>9. NoDevice \notin Devices
    BY AccessAssumption
<1>10. ~CanAccess(line.op, NoDevice, k, f)
    BY <1>9 DEF CanAccess, CanRead, CanWrite
<1>11. d # NoDevice => /\ ~CanAccess(line.op, d, k, f) => DirectCodes(p, line, d) # {}
                       /\ CanAccess(line.op, d, k, f) => DirectCodes(p, line, d) \cap Impossible(line) = {}
    BY <1>2, <1>7, FieldSaid
<1>12. line.op \in ContextOps
    BY DEF ContextOps
<1>13. ASSUME s = "Error", StaticAccess(p, line)
       PROVE  ContextCodes(p, line) # {}
    <2>1. Direct(p, line)
        BY <1>13, StaticIsDirect
    <2>2. Holds(p, q, c, line, 1) /\ Holds(p, q, c, line, 3)
        <3>1. 1 \in 1 .. Len(line.args) /\ 3 \in 1 .. Len(line.args)
            BY <1>1
        <3>2. Holds(p, q, c, line, 1)
            BY <2>1, <3>1, OperandsHold
        <3>3. Holds(p, q, c, line, 3)
            BY <2>1, <3>1, OperandsHold
        <3> QED BY <3>2, <3>3
    <2>3. ~CanAccess(line.op, D, k, f)
        <3> SUFFICES ASSUME CanAccess(line.op, D, k, f) PROVE FALSE
            OBVIOUS
        <3>1. CASE line.op \in {"l", "ld"}
            <4>1. RegisterIndex(q, c, line.args[1]) = NoRegister
                BY <1>8, <1>13, <3>1
            <4>2. Resolve(p, line.args[1])[1] = "reg" /\ Runs(q, c, line.args[1], Resolve(p, line.args[1]))
                BY <1>1, <2>2, <3>1 DEF Holds
            <4>3. NoRegister \notin RegisterSet
                BY RegsAssumption DEF NoRegister, RegisterSet
            <4> QED BY <4>1, <4>2, <4>3 DEF Runs
        <3>2. CASE line.op \in {"s", "sd"}
            BY <1>1, <1>8, <1>13, <2>2, <3>2 DEF Holds
        <3> QED BY <3>1, <3>2
    <2>4. IF ByReferenceId(line.op) THEN IntegerOf(p, t) # NoToken ELSE NamesDevice(AliasOf(p, t))
        BY <1>13 DEF StaticAccess, NamesDevice
    <2> HIDE DEF d, t, D, k
    <2>5. CASE d # NoDevice
        <3>1. DirectCodes(p, line, d) # {}
            BY <1>7, <1>11, <2>3, <2>5
        <3> QED BY <1>12, <2>5, <3>1, ContextIs DEF d
    <2>6. CASE d = NoDevice
        BY <1>7, <1>12, <2>4, <2>6, ContextIs DEF d, t
    <2> QED BY <2>5, <2>6
<1>14. ASSUME s # "Error"
       PROVE  ContextCodes(p, line) \cap Impossible(line) = {}
    <2> HIDE DEF d, t, D, k, s
    <2>0. CanAccess(line.op, D, k, f)
        BY <1>8, <1>14
    <2>1. CASE d # NoDevice
        <3>1. DirectCodes(p, line, d) \cap Impossible(line) = {}
            BY <1>7, <1>11, <2>0, <2>1
        <3>2. "unreachable-device" \notin Impossible(line)
            BY DEF Impossible
        <3> QED BY <1>12, <2>1, <3>1, <3>2, ContextIs DEF d
    <2>2. CASE d = NoDevice
        <3>1. ~NamesDevice(AliasOf(p, t))
            BY <1>7, <1>10, <2>0, <2>2
        <3>2. ContextCodes(p, line) \in {{}, {"unknown-reference-id"}}
            BY <1>12, <2>2, <3>1, ContextIs DEF d, t
        <3> QED BY <3>2 DEF Impossible
    <2> QED BY <2>1, <2>2
<1> HIDE DEF s
<1> QED BY <1>13, <1>14 DEF Fate, s

-----------------------------------------------------------------------------
(* Slots and memory of a device.                                           *)

\* In particular it leaves the state of the processor alone.
LEMMA WriteGoesOn ==
    ASSUME NEW q, NEW c, "state" \in DOMAIN c, NEW w, NEW t, NEW v, v # NoToken, NEW r, Runs(q, c, t, r), r[1] = "reg"
    PROVE  WriteRegister(q, c, w, t, v).cpu.state = c.state
<1>1. RegisterIndex(q, c, t) = r[2] /\ r[2] \in RegisterSet
    BY DEF Runs
<1>2. r[2] # NoRegister
    BY <1>1, RegsAssumption DEF RegisterSet, NoRegister
<1> QED BY <1>1, <1>2 DEF WriteRegister, Result

\* A number the editor knows is the number of the run.
LEMMA IntegerRuns ==
    ASSUME NEW p, Readily(p), NEW q, q = Compile(p), NEW c, NEW t \in Tokens,
           NEW r, r = Resolve(p, t), IsReg(r) \/ r[1] = "num"
    PROVE  IntegerOf(p, t) # NoToken => IntegerOf(p, t) = r /\ Value(q, c, t) = r /\ r[1] = "num" /\ r[2] \in Int
<1>1. IsReg(r) => IntegerOf(p, t) = NoToken
    BY AliasAgrees
<1>2. r[1] = "num" => IntegerOf(p, t) = r
    BY DefineAgrees
<1>3. Runs(q, c, t, r) /\ r \in Tokens \cup {NoToken}
    BY OperandRuns
<1>4. r[1] = "num" => Value(q, c, t) = r
    BY <1>3 DEF Runs
<1>5. r[1] = "num" => r[2] \in Int
    BY <1>3 DEF Tokens, Plain, Base, NoToken
<1> QED BY <1>1, <1>2, <1>4, <1>5

\* Where ls, ss, get and put have their operands.
LEMMA PlaceOperands ==
    ASSUME NEW p, NEW line, Fits(p, line), line.op \in {"ls", "ss", "get", "put"},
           NEW at, at = ContextDeviceAt(line.op)
    PROVE  /\ at \in 1 .. 2 /\ Len(line.args) \in 3 .. 4 /\ ~ByReferenceId(line.op)
           /\ Signature(line.op)[at] = "device"
           /\ line.op \in {"ls", "ss"} => /\ Signature(line.op)[at + 1] = "slotIndex" /\ Len(line.args) = 4
                                          /\ Signature(line.op)[at + 2] = "logicType"
           /\ line.op \in {"get", "put"} => Signature(line.op)[at + 1] = "address"
           /\ line.op \in {"ls", "get"} => Signature(line.op)[1] = "register" /\ at = 2
           /\ line.op = "ss" => Signature(line.op)[4] = "number" /\ at = 1
           /\ line.op = "put" => Signature(line.op)[3] = "number" /\ at = 1
<1>1. CASE line.op = "ls"
    <2>1. Signature(line.op) = <<"register", "device", "slotIndex", "logicType">> /\ at = 2 /\ ~ByReferenceId(line.op)
        BY <1>1, Signatures DEF ContextDeviceAt, ByReferenceId
    <2> QED BY <1>1, <2>1 DEF Fits
<1>2. CASE line.op = "ss"
    <2>1. Signature(line.op) = <<"device", "slotIndex", "logicType", "number">> /\ at = 1 /\ ~ByReferenceId(line.op)
        BY <1>2, Signatures DEF ContextDeviceAt, ByReferenceId
    <2> QED BY <1>2, <2>1 DEF Fits
<1>3. CASE line.op = "get"
    <2>1. Signature(line.op) = <<"register", "device", "address">> /\ at = 2 /\ ~ByReferenceId(line.op)
        BY <1>3, Signatures DEF ContextDeviceAt, ByReferenceId
    <2> QED BY <1>3, <2>1 DEF Fits
<1>4. CASE line.op = "put"
    <2>1. Signature(line.op) = <<"device", "address", "number">> /\ at = 1 /\ ~ByReferenceId(line.op)
        BY <1>4, Signatures DEF ContextDeviceAt, ByReferenceId
    <2> QED BY <1>4, <2>1 DEF Fits
<1> QED BY <1>1, <1>2, <1>3, <1>4

\* The device of ls, ss, get or put, for the editor and for a run.
LEMMA PlaceDevice ==
    ASSUME NEW p, Readily(p), NEW q, q = Compile(p), NEW c, NEW line, Fits(p, line),
           line.op \in {"ls", "ss", "get", "put"},
           NEW t, t = line.args[ContextDeviceAt(line.op)], NEW d, d = ContextDevice(p, line)
    PROVE  /\ NamesDevice(AliasOf(p, t)) => DeviceReference(q, c, t) = d
           /\ d # NoDevice => NamesDevice(AliasOf(p, t)) /\ d \in Devices
           /\ ResolveAlias(q, t) = AliasOf(p, t)
           /\ DeviceToken(AliasOf(p, t)) = Base => d = Housing
           /\ d = NoDevice => ContextCodes(p, line) = IF NamesDevice(AliasOf(p, t)) THEN {"unassigned-device"} ELSE {}
<1> DEFINE at == ContextDeviceAt(line.op)
<1>1. at \in 1 .. 2 /\ Len(line.args) \in 3 .. 4 /\ ~ByReferenceId(line.op) /\ Signature(line.op)[at] = "device"
    BY PlaceOperands
<1>2. t \in Tokens /\ OperandIsValid(p, t, "device")
    BY <1>1 DEF Fits
<1>3. IsDevice(Resolve(p, t)) \/ IsReg(Resolve(p, t)) \/ Resolve(p, t)[1] = "num"
    BY <1>2, KindsAre
<1>4. /\ NamesDevice(AliasOf(p, t)) => DeviceReference(q, c, t) = d
      /\ d # NoDevice => NamesDevice(AliasOf(p, t))
      /\ d \in Devices \cup {NoDevice}
    BY <1>1, <1>2, <1>3, ContextDeviceAgrees
<1>5. ResolveAlias(q, t) = AliasOf(p, t)
    BY <1>2, <1>3, DeviceAgrees
<1>6. DeviceToken(AliasOf(p, t)) = Base => d = Housing
    BY <1>1 DEF ContextDevice
<1>7. line.op \in ContextOps
    BY DEF ContextOps
<1>8. d = NoDevice => ContextCodes(p, line) = IF NamesDevice(AliasOf(p, t)) THEN {"unassigned-device"} ELSE {}
    BY <1>1, <1>7, ContextIs
<1> QED BY <1>4, <1>5, <1>6, <1>8

\* Every slot has its fields.
SlotsFull(w) == \A d \in Devices, s \in SlotIds : SlotFields \subseteq DOMAIN w.slots[d][s]

\* The editor and a run agree on an access to a slot.
LEMMA SlotAgrees ==
    ASSUME NEW p, Readily(p), NEW q, q = Compile(p), NEW line, Fits(p, line), line.op \in {"ls", "ss"},
           NEW o, o.op = line.op, o.args = line.args, NEW c, "state" \in DOMAIN c, c.state # "Error",
           NEW w, SlotsFull(w)
    PROVE  Fate(p, line, ExecuteSlot(q, o, c, w).cpu.state)
<1> DEFINE at == ContextDeviceAt(line.op)
           t == line.args[at]
           a == AliasOf(p, t)
           x == line.args[at + 1]
           s == Value(q, c, x)
           slot == SlotOf(s[2])
           D == DeviceReference(q, c, t)
           d == ContextDevice(p, line)
           v == Value(q, c, line.args[4])
           e == ExecuteSlot(q, o, c, w)
<1>1. /\ at \in 1 .. 2 /\ Len(line.args) = 4 /\ ~ByReferenceId(line.op)
      /\ Signature(line.op)[at] = "device" /\ Signature(line.op)[at + 1] = "slotIndex"
      /\ Signature(line.op)[at + 2] = "logicType"
      /\ line.op = "ls" => Signature(line.op)[1] = "register" /\ at = 2
      /\ line.op = "ss" => Signature(line.op)[4] = "number" /\ at = 1
    BY PlaceOperands
<1>2. PICK f \in Fields : line.args[at + 2] = Field(f) /\ f # Channel
    BY <1>1 DEF Fits
<1>3. x \in Tokens /\ OperandIsValid(p, x, "slotIndex")
    BY <1>1 DEF Fits
<1>4. /\ NamesDevice(a) => D = d
      /\ d # NoDevice => NamesDevice(a) /\ d \in Devices
      /\ d = NoDevice => ContextCodes(p, line) = IF NamesDevice(a) THEN {"unassigned-device"} ELSE {}
    BY PlaceDevice
<1>5. IntegerOf(p, x) # NoToken => IntegerOf(p, x) = s /\ slot = s[2] /\ s # NoToken
    <2>1. IsReg(Resolve(p, x)) \/ (Resolve(p, x)[1] = "num" /\ Resolve(p, x)[2] >= 0)
        BY <1>3, KindsAre
    <2>2. IntegerOf(p, x) # NoToken => IntegerOf(p, x) = Resolve(p, x) /\ s = Resolve(p, x)
                                         /\ Resolve(p, x)[1] = "num" /\ Resolve(p, x)[2] \in Int
        <3>1. IsReg(Resolve(p, x)) \/ Resolve(p, x)[1] = "num"
            BY <2>1
        <3> QED BY <1>3, <3>1, IntegerRuns
    <2>3. ASSUME IntegerOf(p, x) # NoToken
          PROVE  s[2] \in Int /\ s[2] >= 0
        <3>1. s[1] = "num" /\ ~IsReg(s)
            BY <2>2, <2>3 DEF IsReg
        <3> QED BY <2>1, <2>2, <2>3, <3>1
    <2> HIDE DEF s, x
    <2> QED BY <2>2, <2>3 DEF SlotOf
<1>6. LogicName(line.args[at + 2]) = f /\ line.args[at + 2][2] = f
    BY <1>2 DEF LogicName, Field
<1>7. e = IF D = NoDevice \/ s = NoToken THEN Fail(c, w)
          ELSE IF line.op = "ls"
               THEN IF slot \in SlotIds /\ f \in DOMAIN w.slots[D][slot]
                    THEN WriteRegister(q, c, w, line.args[1], Num(w.slots[D][slot][f]))
                    ELSE Fail(c, w)
          ELSE IF v = NoToken \/ slot \notin SlotIds THEN Fail(c, w)
          ELSE Result(c, WriteSlot(w, D, slot, f, v[2]))
    <2>1. at = IF o.op = "ls" THEN 2 ELSE 1
        BY <1>1
    <2> HIDE DEF at
    <2> QED BY <1>6, <2>1 DEF ExecuteSlot
<1>8. Fail(c, w).cpu.state = "Error" /\ \A z : Result(c, z).cpu.state = c.state
    BY DEF Fail, Result
<1>9. ContextCodes(p, line) = IF d # NoDevice
                              THEN IF d # Housing /\ d \notin ReachableDevices THEN {"unreachable-device"}
                                   ELSE ConnectionCodes(p, line, d) \cup SlotCodes(p, line, f)
                              ELSE IF NamesDevice(a) THEN {"unassigned-device"} ELSE {}
    <2>1. line.op \in ContextOps
        BY DEF ContextOps
    <2>2. DirectCodes(p, line, d) = ConnectionCodes(p, line, d) \cup SlotCodes(p, line, f)
        BY <1>6, DirectIs
    <2> QED BY <1>4, <2>1, <2>2, ContextIs
<1>10. SlotCodes(p, line, f) = IF IntegerOf(p, x) = NoToken THEN {}
                               ELSE IF IntegerOf(p, x)[2] \notin SlotIds THEN {"invalid-slot"}
                               ELSE AccessCodes(line.op \in Stores, SlotFields, SlotFields, f)
    BY <1>2 DEF SlotCodes
<1> HIDE DEF at, t, a, x, s, slot, D, d, v, e
<1>11. ASSUME e.cpu.state = "Error", StaticAccess(p, line)
       PROVE  ContextCodes(p, line) # {}
    <2>1. NamesDevice(a) /\ IntegerOf(p, x) # NoToken
        BY <1>1, <1>11 DEF StaticAccess, NamesDevice, a, t, x, at
    <2>2. CASE d = NoDevice
        BY <1>9, <2>1, <2>2
    <2>3. CASE d # NoDevice
        <3>1. D = d /\ d \in Devices /\ s # NoToken /\ slot = IntegerOf(p, x)[2]
            BY <1>4, <1>5, <2>1, <2>3
        <3>2. Holds(p, q, c, line, 1) /\ Holds(p, q, c, line, 4)
            <4>1. Direct(p, line)
                BY <1>11, StaticIsDirect
            <4>2. 1 \in 1 .. Len(line.args) /\ 4 \in 1 .. Len(line.args)
                BY <1>1
            <4> QED BY <4>1, <4>2, OperandsHold
        <3>3. ~(slot \in SlotIds /\ (line.op = "ls" => f \in SlotFields))
            <4> SUFFICES ASSUME slot \in SlotIds, line.op = "ls" => f \in SlotFields PROVE FALSE
                OBVIOUS
            <4>1. CASE line.op = "ls"
                <5>1. f \in DOMAIN w.slots[D][slot]
                    BY <3>1, <4>1 DEF SlotsFull
                <5>2. e = WriteRegister(q, c, w, line.args[1], Num(w.slots[D][slot][f]))
                    BY <1>7, <2>3, <3>1, <4>1, <5>1
                <5>3. Runs(q, c, line.args[1], Resolve(p, line.args[1])) /\ Resolve(p, line.args[1])[1] = "reg"
                    BY <1>1, <3>2, <4>1 DEF Holds
                <5>4. Num(w.slots[D][slot][f]) # NoToken
                    BY DEF Num, NoToken
                <5>5. WriteRegister(q, c, w, line.args[1], Num(w.slots[D][slot][f])).cpu.state = c.state
                    <6> DEFINE y == Num(w.slots[D][slot][f])
                               r == Resolve(p, line.args[1])
                    <6> HIDE DEF y, r
                    <6>1. y # NoToken /\ Runs(q, c, line.args[1], r) /\ r[1] = "reg"
                        BY <5>3, <5>4 DEF y, r
                    <6>2. WriteRegister(q, c, w, line.args[1], y).cpu.state = c.state
                        BY <6>1, WriteGoesOn
                    <6> QED BY <6>2 DEF y
                <5> QED BY <1>11, <5>2, <5>5
            <4>2. CASE line.op = "ss"
                <5>1. v # NoToken
                    BY <1>1, <3>2, <4>2 DEF Holds, v
                <5>2. e = Result(c, WriteSlot(w, D, slot, f, v[2]))
                    BY <1>7, <2>3, <3>1, <4>2, <5>1
                <5> QED BY <1>8, <1>11, <5>2
            <4> QED BY <4>1, <4>2
        <3>4. SlotCodes(p, line, f) # {}
            <4>1. slot \notin SlotIds => SlotCodes(p, line, f) = {"invalid-slot"}
                BY <1>10, <2>1, <3>1
            <4>2. f \notin SlotFields => AccessCodes(line.op \in Stores, SlotFields, SlotFields, f) # {}
                BY DEF AccessCodes
            <4> QED BY <1>10, <2>1, <3>1, <3>3, <4>1, <4>2
        <3> QED BY <1>9, <2>3, <3>4
    <2> QED BY <2>2, <2>3
<1>12. ASSUME e.cpu.state # "Error"
       PROVE  ContextCodes(p, line) \cap Impossible(line) = {}
    <2>1. D # NoDevice /\ s # NoToken /\ slot \in SlotIds
        BY <1>7, <1>8, <1>12
    <2>2. Impossible(line) = {"unassigned-device", "invalid-memory-address", "channel-needs-connection", "invalid-slot"}
        BY DEF Impossible
    <2>3. CASE d = NoDevice
        BY <1>4, <1>9, <2>1, <2>3
    <2>4. CASE d # NoDevice
        <3>1. SlotCodes(p, line, f) \subseteq {"unsupported", "read-only", "write-only"}
            BY <1>5, <1>10, <2>1 DEF AccessCodes
        <3>2. ConnectionCodes(p, line, d) \cap Impossible(line) = {}
            BY DirectIs
        <3> QED BY <1>9, <2>2, <2>4, <3>1, <3>2
    <2> QED BY <2>3, <2>4
<1> QED BY <1>11, <1>12 DEF Fate, e

\* The editor and a run agree on an access to memory.
LEMMA MemoryAgrees ==
    ASSUME NEW p, Readily(p), NEW q, q = Compile(p), NEW line, Fits(p, line), line.op \in {"get", "put"},
           NEW o, o.op = line.op, o.args = line.args, NEW c, "state" \in DOMAIN c, c.state # "Error", NEW w
    PROVE  Fate(p, line, ExecuteMemory(q, o, c, w).cpu.state)
<1> DEFINE at == ContextDeviceAt(line.op)
           t == line.args[at]
           a == AliasOf(p, t)
           x == line.args[at + 1]
           s == Value(q, c, x)
           D == DeviceReference(q, c, t)
           d == ContextDevice(p, line)
           v == Value(q, c, line.args[3])
           isBase == DeviceToken(ResolveAlias(q, t)) = Base
           size == IF isBase THEN StackSize ELSE MemoryOf(D)
           e == ExecuteMemory(q, o, c, w)
<1>1. /\ at \in 1 .. 2 /\ Len(line.args) = 3 /\ ~ByReferenceId(line.op)
      /\ Signature(line.op)[at] = "device" /\ Signature(line.op)[at + 1] = "address"
      /\ line.op = "get" => Signature(line.op)[1] = "register" /\ at = 2
      /\ line.op = "put" => Signature(line.op)[3] = "number" /\ at = 1
    <2>1. Len(Signature(line.op)) = 3
        BY Signatures
    <2>2. /\ at \in 1 .. 2 /\ ~ByReferenceId(line.op)
          /\ Signature(line.op)[at] = "device" /\ Signature(line.op)[at + 1] = "address"
          /\ line.op = "get" => Signature(line.op)[1] = "register" /\ at = 2
          /\ line.op = "put" => Signature(line.op)[3] = "number" /\ at = 1
        BY PlaceOperands
    <2> HIDE DEF at
    <2> QED BY <2>1, <2>2 DEF Fits
<1>3. x \in Tokens /\ OperandIsValid(p, x, "address")
    BY <1>1 DEF Fits
<1>4. /\ NamesDevice(a) => D = d
      /\ d # NoDevice => NamesDevice(a) /\ d \in Devices
      /\ isBase => d = Housing
      /\ d = NoDevice => ContextCodes(p, line) = IF NamesDevice(a) THEN {"unassigned-device"} ELSE {}
    BY PlaceDevice
<1>5. IntegerOf(p, x) # NoToken => IntegerOf(p, x) = s /\ s # NoToken
    <2>1. IsReg(Resolve(p, x)) \/ Resolve(p, x)[1] = "num"
        BY <1>3, KindsAre
    <2>2. IntegerOf(p, x) # NoToken => IntegerOf(p, x) = Resolve(p, x) /\ s = Resolve(p, x)
        BY <1>3, <2>1, IntegerRuns
    <2> QED BY <2>2
<1>7. e = IF D = NoDevice THEN Fail(c, w)
          ELSE IF s = NoToken THEN Fail(c, w)
          ELSE IF s[2] \notin 0 .. (size - 1) THEN Fail(c, w)
          ELSE IF line.op = "get"
               THEN WriteRegister(q, c, w, line.args[1], Num(IF isBase THEN c.stack[s[2]] ELSE w.memory[D][s[2]]))
          ELSE IF v = NoToken THEN Fail(c, w)
          ELSE IF isBase THEN Result([c EXCEPT !.stack[s[2]] = v[2]], w)
          ELSE Result(c, [w EXCEPT !.memory[D][s[2]] = v[2]])
    <2>1. at = IF o.op = "get" THEN 2 ELSE 1
        BY <1>1
    <2>2. o.op # "clr"
        OBVIOUS
    <2> HIDE DEF at
    <2> QED BY <2>1, <2>2 DEF ExecuteMemory
<1>8. /\ Fail(c, w).cpu.state = "Error" /\ \A z : Result(c, z).cpu.state = c.state
      /\ \A i, y : Result([c EXCEPT !.stack[i] = y], w).cpu.state = c.state
    BY DEF Fail, Result
<1>9. ContextCodes(p, line) = IF d # NoDevice
                              THEN IF d # Housing /\ d \notin ReachableDevices THEN {"unreachable-device"}
                                   ELSE ConnectionCodes(p, line, d) \cup MemoryCodes(p, line, d)
                              ELSE IF NamesDevice(a) THEN {"unassigned-device"} ELSE {}
    <2>1. line.op \in ContextOps
        BY DEF ContextOps
    <2>2. DirectCodes(p, line, d) = ConnectionCodes(p, line, d) \cup MemoryCodes(p, line, d)
        BY DirectIs
    <2> QED BY <1>4, <2>1, <2>2, ContextIs
<1>10. /\ MemoryCodes(p, line, d) \subseteq {"read-only-memory", "write-only-memory", "invalid-memory-address"}
       /\ "invalid-memory-address" \in MemoryCodes(p, line, d)
            <=> IntegerOf(p, x) # NoToken /\ IntegerOf(p, x)[2] \notin 0 .. (MemoryOf(d) - 1)
    BY DEF MemoryCodes
<1> HIDE DEF at, t, a, x, s, D, d, v, e, isBase
<1>11. ASSUME e.cpu.state = "Error", StaticAccess(p, line)
       PROVE  ContextCodes(p, line) # {}
    <2>1. NamesDevice(a) /\ IntegerOf(p, x) # NoToken
        BY <1>1, <1>11 DEF StaticAccess, NamesDevice, a, t, x, at
    <2>2. CASE d = NoDevice
        BY <1>9, <2>1, <2>2
    <2>3. CASE d # NoDevice
        <3>1. D = d /\ s # NoToken /\ s = IntegerOf(p, x)
            BY <1>4, <1>5, <2>1, <2>3
        <3>2. Holds(p, q, c, line, 1) /\ Holds(p, q, c, line, 3)
            <4>1. Direct(p, line)
                BY <1>11, StaticIsDirect
            <4>2. 1 \in 1 .. Len(line.args) /\ 3 \in 1 .. Len(line.args)
                BY <1>1
            <4> QED BY <4>1, <4>2, OperandsHold
        <3>3. s[2] \notin 0 .. (MemoryOf(d) - 1)
            <4>1. CASE d = Housing
                BY <4>1 DEF MemoryOf
            <4>2. CASE d # Housing
                <5> SUFFICES ASSUME s[2] \in 0 .. (MemoryOf(d) - 1) PROVE FALSE
                    OBVIOUS
                <5>1. ~isBase /\ size = MemoryOf(d)
                    BY <1>4, <3>1, <4>2
                <5>2. CASE line.op = "get"
                    <6>2. e = WriteRegister(q, c, w, line.args[1], Num(w.memory[D][s[2]]))
                        BY <1>7, <2>3, <3>1, <5>1, <5>2
                    <6>3. Runs(q, c, line.args[1], Resolve(p, line.args[1])) /\ Resolve(p, line.args[1])[1] = "reg"
                        BY <1>1, <3>2, <5>2 DEF Holds
                    <6>4. Num(w.memory[D][s[2]]) # NoToken
                        BY DEF Num, NoToken
                    <6>5. WriteRegister(q, c, w, line.args[1], Num(w.memory[D][s[2]])).cpu.state = c.state
                        <7> DEFINE y == Num(w.memory[D][s[2]])
                                   r == Resolve(p, line.args[1])
                        <7> HIDE DEF y, r
                        <7>1. y # NoToken /\ Runs(q, c, line.args[1], r) /\ r[1] = "reg"
                            BY <6>3, <6>4 DEF y, r
                        <7>2. WriteRegister(q, c, w, line.args[1], y).cpu.state = c.state
                            BY <7>1, WriteGoesOn
                        <7> QED BY <7>2 DEF y
                    <6> QED BY <1>11, <6>2, <6>5
                <5>3. CASE line.op = "put"
                    <6>1. v # NoToken
                        BY <1>1, <3>2, <5>3 DEF Holds, v
                    <6>2. e = Result(c, [w EXCEPT !.memory[D][s[2]] = v[2]])
                        BY <1>7, <2>3, <3>1, <5>1, <5>3, <6>1
                    <6> QED BY <1>8, <1>11, <6>2
                <5> QED BY <5>2, <5>3
            <4> QED BY <4>1, <4>2
        <3>4. MemoryCodes(p, line, d) # {}
            BY <1>10, <2>1, <3>1, <3>3
        <3> QED BY <1>9, <2>3, <3>4
    <2> QED BY <2>2, <2>3
<1>12. ASSUME e.cpu.state # "Error", ~UsesHousingMemory(p, line)
       PROVE  ContextCodes(p, line) \cap Impossible(line) = {}
    <2>1. D # NoDevice /\ s # NoToken /\ s[2] \in 0 .. (size - 1)
        BY <1>7, <1>8, <1>12
    <2>2. Impossible(line) = {"unassigned-device", "invalid-memory-address", "channel-needs-connection", "unsupported"}
        BY DEF Impossible
    <2>3. CASE d = NoDevice
        BY <1>4, <1>9, <2>1, <2>3
    <2>4. CASE d # NoDevice
        <3>0. d # Housing
            BY <1>12 DEF UsesHousingMemory, d
        <3>1. D = d /\ size = MemoryOf(d)
            BY <1>4, <2>4, <3>0
        <3>2. "invalid-memory-address" \notin MemoryCodes(p, line, d)
            BY <1>5, <1>10, <2>1, <3>1
        <3>3. ConnectionCodes(p, line, d) \cap Impossible(line) = {}
            BY DirectIs
        <3> HIDE DEF size
        <3> QED BY <1>9, <1>10, <2>2, <2>4, <3>2, <3>3
    <2> QED BY <2>3, <2>4
<1> QED BY <1>11, <1>12 DEF Fate, e

-----------------------------------------------------------------------------
(* The operands of a line in the straight-line scan.                       *)

\* What the scan can find, and what it keeps.
ScanCodes == {"unused-register-write", "register-before-write", "division-by-zero", "invalid-address",
              "stack-overflow", "stack-underflow"}
Findings == [line : Int, code : ScanCodes]
ScanStates == [n : Nat, pointer : SUBSET Int, entry : BOOLEAN, written : SUBSET RegisterSet,
               unread : [RegisterSet -> Int], found : SUBSET Findings]

\* A scan that knows no less of faults, and the same of the stack pointer.
Follows(s) == {z \in ScanStates : z.n = s.n /\ z.pointer = s.pointer /\ s.found \subseteq z.found}

\* A token that is no name resolves to itself.
LEMMA PlainResolves ==
    ASSUME NEW p, IsText(p), NEW t, ~IsName(t)
    PROVE  Resolve(p, t) = t
<1> DEFINE N == Cardinality(Names(p))
<1>1. N \in Nat
    BY NamesFinite
<1>2. PICK c : ChaseRun(c, p, t, N)
    <2> HIDE DEF N
    <2> QED BY <1>1, ChaseIs DEF N
<1>3. c[0] = t /\ Chased(c, p, N) /\ Chase(p, t) = c[N]
    BY <1>2 DEF ChaseRun
<1>4. ~IsSymbol(p, c[0])
    BY <1>3 DEF IsSymbol
<1>5. c[N] = c[0]
    <2>1. 0 \in 0 .. N
        BY <1>1
    <2> HIDE DEF N
    <2> QED BY <1>1, <1>3, <1>4, <2>1, ChaseStays
<1> QED BY <1>3, <1>4, <1>5 DEF Resolve, Settled

\* A finding of the scan.
LEMMA Found ==
    ASSUME NEW n \in Int, NEW x \in ScanCodes
    PROVE  Diagnostic(n, x) \in Findings
BY DEF Diagnostic, Findings

\* A register operand changes neither the place nor the stack pointer.
LEMMA ScanRegisterIs ==
    ASSUME NEW s \in ScanStates, NEW r \in RegisterSet, NEW w \in BOOLEAN
    PROVE  ScanRegister(s, r, w) \in Follows(s)
<1> DEFINE over == IF w /\ s.unread[r] # -1 THEN {Diagnostic(s.unread[r], "unused-register-write")} ELSE {}
           early == IF ~ w /\ s.entry /\ r \notin {SP, RA} \cup s.written
                    THEN {Diagnostic(s.n, "register-before-write")} ELSE {}
           u == [s.unread EXCEPT ![r] = IF w THEN s.n ELSE -1]
           x == IF w \/ early # {} THEN s.written \cup {r} ELSE s.written
           z == [s EXCEPT !.unread = u, !.written = x, !.found = (s.found \cup over) \cup early]
<1>1. ScanRegister(s, r, w) = z
    BY DEF ScanRegister
<1>2. s.n \in Nat /\ s.unread \in [RegisterSet -> Int] /\ s.written \in SUBSET RegisterSet /\ s.found \in SUBSET Findings
    BY DEF ScanStates
<1>3. over \in SUBSET Findings /\ early \in SUBSET Findings
    <2>1. s.unread[r] \in Int
        BY <1>2
    <2>2. Diagnostic(s.unread[r], "unused-register-write") \in Findings
        BY <2>1, Found DEF ScanCodes
    <2>3. Diagnostic(s.n, "register-before-write") \in Findings
        BY <1>2, Found DEF ScanCodes
    <2> QED BY <2>2, <2>3
<1>4. u \in [RegisterSet -> Int] /\ x \in SUBSET RegisterSet
    BY <1>2
<1> HIDE DEF over, early, u, x
<1> QED BY <1>1, <1>2, <1>3, <1>4 DEF Follows, ScanStates

\* The register of an operand.
LEMMA DirectRegisterIs ==
    ASSUME NEW p \in Texts, NEW t \in Tokens
    PROVE  DirectRegister(p, t) \in RegisterSet \cup {-1}
<1>1. Resolve(p, t) \in Tokens \cup {NoToken}
    BY ResolvedIsToken
<1> QED BY <1>1 DEF DirectRegister, Tokens, Plain, Base, NoToken, RegisterSet

\* One operand of the scan.
ScanOperand(p, line, i, s) ==
    LET r == DirectRegister(p, line.args[i])
        kinds == Signature(line.op)
    IN  IF r = -1 THEN s ELSE ScanRegister(s, r, i <= Len(kinds) /\ kinds[i] = "register")

\* Following is transitive.
LEMMA FollowsOn ==
    ASSUME NEW s, NEW z \in Follows(s), NEW y \in Follows(z)
    PROVE  y \in Follows(s)
BY DEF Follows

\* One operand changes neither the place nor the stack pointer.
LEMMA ScanOperandIs ==
    ASSUME NEW p \in Texts, NEW line, line.args \in Seq(Tokens), NEW i \in DOMAIN line.args, NEW s \in ScanStates
    PROVE  ScanOperand(p, line, i, s) \in Follows(s)
<1> DEFINE r == DirectRegister(p, line.args[i])
           kinds == Signature(line.op)
           w == i <= Len(kinds) /\ kinds[i] = "register"
<1>1. r \in RegisterSet \cup {-1}
    <2>1. line.args[i] \in Tokens
        <3> HIDE DEF Tokens
        <3> QED OBVIOUS
    <2> QED BY <2>1, DirectRegisterIs
<1>2. w \in BOOLEAN
    OBVIOUS
<1>3. s \in Follows(s)
    BY DEF Follows
<1>4. ScanOperand(p, line, i, s) = IF r = -1 THEN s ELSE ScanRegister(s, r, w)
    BY Zenon DEF ScanOperand
<1> HIDE DEF r, w
<1> QED BY <1>1, <1>2, <1>3, <1>4, ScanRegisterIs

\* The operands of a line change neither the place nor the stack pointer.
LEMMA ScanOperandsIs ==
    ASSUME NEW p \in Texts, NEW line, line.args \in Seq(Tokens), NEW s \in ScanStates
    PROVE  ScanOperands(p, s, line) \in Follows(s)
<1> DEFINE N == Len(line.args)
           T == Follows(s)
           S == (1 .. N) \X T
           g == [z \in S |-> ScanOperand(p, line, z[1], z[2])]
           Is(f) == f = [i \in 0 .. N |->
                            IF i = 0 THEN s
                            ELSE LET r == DirectRegister(p, line.args[i])
                                 IN  IF r = -1 THEN f[i - 1]
                                     ELSE ScanRegister(f[i - 1], r,
                                              i <= Len(Signature(line.op)) /\ Signature(line.op)[i] = "register")]
<1>1. N \in Nat /\ s \in T
    <2>1. N \in Nat
        <3> HIDE DEF Tokens
        <3> QED OBVIOUS
    <2> QED BY <2>1 DEF Follows
<1>0. \A i \in 1 .. N : i \in DOMAIN line.args
    <2> HIDE DEF Tokens
    <2> QED OBVIOUS
<1>2. g \in [S -> T]
    <2>1. ASSUME NEW z \in S PROVE ScanOperand(p, line, z[1], z[2]) \in T
        <3>1. z[2] \in T /\ z[1] \in DOMAIN line.args
            BY <1>0, <2>1
        <3>2. z[2] \in ScanStates
            BY <3>1 DEF Follows
        <3>3. ScanOperand(p, line, z[1], z[2]) \in Follows(z[2])
            BY <3>1, <3>2, ScanOperandIs
        <3> QED BY <3>1, <3>3, FollowsOn
    <2> HIDE DEF S, T
    <2> QED BY <2>1
<1>3. PICK f \in [0 .. N -> T] : Stepped(f, s, g, N)
    <2> HIDE DEF g, N, T
    <2> QED BY <1>1, <1>2, SteppedExists DEF S
<1>4. ASSUME NEW n \in 0 .. N
      PROVE  f[n] = IF n = 0 THEN s ELSE ScanOperand(p, line, n, f[n - 1])
    <2>1. f[n] = IF n = 0 THEN s ELSE g[<<n, f[n - 1]>>]
        <3> HIDE DEF g, N, T
        <3> QED BY <1>3, <1>4, Zenon DEF Stepped
    <2>2. ASSUME n # 0 PROVE g[<<n, f[n - 1]>>] = ScanOperand(p, line, n, f[n - 1])
        <3> HIDE DEF N, T
        <3>1. n \in 1 .. N /\ n - 1 \in 0 .. N
            BY <1>1, <1>4, <2>2
        <3>2. f[n - 1] \in T
            BY <1>3, <3>1
        <3>3. <<n, f[n - 1]>> \in S
            BY <3>1, <3>2
        <3> HIDE DEF S
        <3>4. g[<<n, f[n - 1]>>] = ScanOperand(p, line, <<n, f[n - 1]>>[1], <<n, f[n - 1]>>[2])
            BY <3>3, Zenon
        <3>5. <<n, f[n - 1]>>[2] = f[n - 1] /\ <<n, f[n - 1]>>[1] = n
            OBVIOUS
        <3> HIDE DEF g
        <3> QED BY <3>4, <3>5, Zenon
    <2> HIDE DEF g
    <2> QED BY <2>1, <2>2, Zenon
<1>5. Is(f)
    <2>1. f = [n \in 0 .. N |-> f[n]]
        <3> HIDE DEF N, T
        <3> QED BY <1>3
    <2> HIDE DEF N, T
    <2> QED BY <1>4, <2>1, Zenon DEF ScanOperand
<1> DEFINE h == CHOOSE e : Is(e)
<1>6. Is(h)
    <2> HIDE DEF Is
    <2> QED BY <1>5, Zenon
<1>7. ScanOperands(p, s, line) = h[N]
    BY Zenon DEF ScanOperands
<1> HIDE DEF h
<1>8. \A n \in 0 .. N : h[n] = IF n = 0 THEN s ELSE ScanOperand(p, line, n, h[n - 1])
    <2> HIDE DEF N
    <2> QED BY <1>6, Zenon DEF ScanOperand
<1> HIDE DEF Is
<1>9. N \in 0 .. N
    BY <1>1
<1>10. \A n \in 0 .. N : h[n] \in T
    <2> DEFINE X == {n \in 0 .. N : h[n] \in T}
    <2> HIDE DEF N, T
    <2>1. 0 \in X
        BY <1>1, <1>8
    <2>2. ASSUME NEW n \in 0 .. N, n \in X, n < N PROVE n + 1 \in X
        <3>1. n + 1 \in 0 .. N /\ n + 1 # 0 /\ (n + 1) - 1 = n /\ n + 1 \in 1 .. N
            BY <1>1, <2>2
        <3>2. h[n + 1] = ScanOperand(p, line, n + 1, h[n])
            <4>1. h[n + 1] = ScanOperand(p, line, n + 1, h[(n + 1) - 1])
                BY <1>8, <3>1, Zenon
            <4> QED BY <3>1, <4>1
        <3>3. h[n] \in T
            BY <2>2
        <3>4. h[n] \in ScanStates /\ h[n] \in Follows(s)
            BY <3>3 DEF T, Follows
        <3>5. h[n + 1] \in Follows(h[n])
            BY <1>0, <3>1, <3>2, <3>4, ScanOperandIs
        <3>6. h[n + 1] \in T
            BY <3>4, <3>5, FollowsOn DEF T
        <3> QED BY <3>1, <3>6
    <2> HIDE DEF X
    <2>3. \A n \in 0 .. N : n \in X
        BY <1>1, <2>1, <2>2, UpTo
    <2> QED BY <2>3 DEF X
<1> QED BY <1>7, <1>9, <1>10

-----------------------------------------------------------------------------
(* One line of the scan.                                                   *)

\* What the scan makes of a stack operation, the pointer being known.
PointerMoves(s, line, z) ==
    /\ \A v \in Int : s.pointer = {v} =>
          /\ line.op = "push" => IF v >= StackSize THEN Diagnostic(s.n, "stack-overflow") \in z.found
                                 ELSE z.pointer = {v + 1}
          /\ line.op = "pop" => IF v <= 0 THEN Diagnostic(s.n, "stack-underflow") \in z.found
                                ELSE z.pointer = {v - 1}
          /\ line.op = "peek" /\ v = 0 => Diagnostic(s.n, "stack-underflow") \in z.found
    /\ \A v \in Int : line.op = "move" /\ line.args[1] = Reg(SP) /\ line.args[2] = Num(v) => z.pointer = {v}
    /\ line.op \notin {"push", "pop"} /\ ~(line.op = "move" /\ line.args[1] = Reg(SP)) => z.pointer = s.pointer

\* One stack operation.
LEMMA ScanStackIs ==
    ASSUME NEW p \in Texts, NEW line, Fits(p, line), NEW s \in ScanStates, NEW z, z = ScanStack(p, s, line)
    PROVE  z \in ScanStates /\ z.n = s.n /\ s.found \subseteq z.found /\ PointerMoves(s, line, z)
<1>1. s.n \in Nat /\ s.pointer \in SUBSET Int /\ s.found \in SUBSET Findings
    BY DEF ScanStates
<1>2. Diagnostic(s.n, "stack-overflow") \in Findings /\ Diagnostic(s.n, "stack-underflow") \in Findings
    BY <1>1, Found DEF ScanCodes
<1>3. CASE line.op = "move" /\ line.args[1] = Reg(SP)
    <2> DEFINE x == IF ResolvesToNumber(p, line.args[2]) THEN {NumberOf(p, line.args[2])} ELSE {}
    <2>1. z = [s EXCEPT !.pointer = x]
        BY <1>3 DEF ScanStack
    <2>2. line.args[2] \in Tokens
        <3>1. Signature(line.op) = <<"register", "number">>
            BY <1>3, Signatures
        <3>2. Len(line.args) = 2 /\ \A i \in 1 .. Len(line.args) : line.args[i] \in Tokens
            BY <3>1 DEF Fits
        <3> HIDE DEF Tokens
        <3> QED BY <3>2
    <2>3. Resolve(p, line.args[2]) \in Tokens \cup {NoToken}
        BY <2>2, ResolvedIsToken
    <2>4. x \in SUBSET Int
        BY <2>3 DEF ResolvesToNumber, NumberOf, Tokens, Plain, Base, NoToken
    <2>5. ASSUME NEW v \in Int, line.args[2] = Num(v)
          PROVE  x = {v}
        <3>1. Resolve(p, Num(v)) = Num(v)
            BY TextsAre, PlainResolves DEF IsName, Num
        <3> QED BY <2>5, <3>1 DEF ResolvesToNumber, NumberOf, Num
    <2> HIDE DEF x
    <2>6. z \in ScanStates /\ z.n = s.n /\ z.found = s.found /\ z.pointer = x
        BY <2>1, <2>4 DEF ScanStates
    <2> QED BY <1>3, <2>5, <2>6 DEF PointerMoves
<1>4. CASE line.op = "push"
    <2>1. z = IF \E v \in s.pointer : v >= StackSize
              THEN [s EXCEPT !.found = s.found \cup {Diagnostic(s.n, "stack-overflow")}]
              ELSE [s EXCEPT !.pointer = {v + 1 : v \in s.pointer}]
        BY <1>4 DEF ScanStack
    <2>2. CASE \E v \in s.pointer : v >= StackSize
        <3>1. z = [s EXCEPT !.found = s.found \cup {Diagnostic(s.n, "stack-overflow")}]
            BY <2>1, <2>2
        <3>2. z \in ScanStates /\ z.n = s.n /\ s.found \subseteq z.found /\ Diagnostic(s.n, "stack-overflow") \in z.found
            BY <1>1, <1>2, <3>1 DEF ScanStates
        <3> QED BY <1>4, <2>2, <3>2 DEF PointerMoves
    <2>3. CASE ~ \E v \in s.pointer : v >= StackSize
        <3>1. z = [s EXCEPT !.pointer = {v + 1 : v \in s.pointer}]
            BY <2>1, <2>3
        <3>2. {v + 1 : v \in s.pointer} \in SUBSET Int
            BY <1>1
        <3>3. z \in ScanStates /\ z.n = s.n /\ s.found = z.found /\ z.pointer = {v + 1 : v \in s.pointer}
            BY <3>1, <3>2 DEF ScanStates
        <3> QED BY <1>4, <2>3, <3>3 DEF PointerMoves
    <2> QED BY <2>2, <2>3
<1>5. CASE line.op = "pop"
    <2>1. z = IF \E v \in s.pointer : v <= 0
              THEN [s EXCEPT !.found = s.found \cup {Diagnostic(s.n, "stack-underflow")}]
              ELSE [s EXCEPT !.pointer = {v - 1 : v \in s.pointer}]
        BY <1>5 DEF ScanStack
    <2>2. CASE \E v \in s.pointer : v <= 0
        <3>1. z = [s EXCEPT !.found = s.found \cup {Diagnostic(s.n, "stack-underflow")}]
            BY <2>1, <2>2
        <3>2. z \in ScanStates /\ z.n = s.n /\ s.found \subseteq z.found /\ Diagnostic(s.n, "stack-underflow") \in z.found
            BY <1>1, <1>2, <3>1 DEF ScanStates
        <3> QED BY <1>5, <2>2, <3>2 DEF PointerMoves
    <2>3. CASE ~ \E v \in s.pointer : v <= 0
        <3>1. z = [s EXCEPT !.pointer = {v - 1 : v \in s.pointer}]
            BY <2>1, <2>3
        <3>2. {v - 1 : v \in s.pointer} \in SUBSET Int
            BY <1>1
        <3>3. z \in ScanStates /\ z.n = s.n /\ s.found = z.found /\ z.pointer = {v - 1 : v \in s.pointer}
            BY <3>1, <3>2 DEF ScanStates
        <3> QED BY <1>5, <2>3, <3>3 DEF PointerMoves
    <2> QED BY <2>2, <2>3
<1>6. CASE line.op = "peek" /\ s.pointer = {0}
    <2>1. z = [s EXCEPT !.found = s.found \cup {Diagnostic(s.n, "stack-underflow")}]
        BY <1>6 DEF ScanStack
    <2>2. /\ z \in ScanStates /\ z.n = s.n /\ s.found \subseteq z.found /\ z.pointer = s.pointer
          /\ Diagnostic(s.n, "stack-underflow") \in z.found
        BY <1>1, <1>2, <2>1 DEF ScanStates
    <2> QED BY <1>6, <2>2 DEF PointerMoves
<1>7. CASE /\ ~(line.op = "move" /\ line.args[1] = Reg(SP)) /\ line.op \notin {"push", "pop"}
           /\ ~(line.op = "peek" /\ s.pointer = {0})
    <2>1. z = s
        BY <1>7 DEF ScanStack
    <2> QED BY <1>7, <2>1 DEF PointerMoves
<1> QED BY <1>3, <1>4, <1>5, <1>6, <1>7

\* A scan goes from s in front of a line to z behind it.
ScanGoes(p, n, s, z) ==
    LET line == LineAt(p, n)
    IN  /\ z \in ScanStates /\ z.n = n + 1 /\ s.found \subseteq z.found
        /\ ~IsOperation(line) /\ line.kind # "label" => z.pointer = s.pointer
        /\ IsOperation(line) /\ line.op \notin Branches /\ s.n = n => PointerMoves(s, line, z)

\* The scan at another line.
LEMMA ScanMoved ==
    ASSUME NEW y \in ScanStates, NEW m \in Nat
    PROVE  LET z == [y EXCEPT !.n = m]
           IN  z \in ScanStates /\ z.n = m /\ z.found = y.found /\ z.pointer = y.pointer
BY DEF ScanStates

\* One line.
LEMMA ScanLineIs ==
    ASSUME NEW p, Readily(p), NoErrors(Diagnostics(p)), NEW n \in Lines(p), NEW s \in ScanStates
    PROVE  ScanGoes(p, n, s, [ScanLine(p, s, LineAt(p, n)) EXCEPT !.n = n + 1])
<1> DEFINE line == LineAt(p, n)
           y == ScanLine(p, s, line)
           z == [y EXCEPT !.n = n + 1]
<1>1. p \in Texts /\ n \in Nat /\ line \in TextLine /\ line.args \in Seq(Tokens)
    BY TextsAre DEF Readily
<1>2. s.n \in Nat /\ s.found \in SUBSET Findings
    BY DEF ScanStates
<1>3. ASSUME y \in ScanStates
      PROVE  z \in ScanStates /\ z.n = n + 1 /\ z.found = y.found /\ z.pointer = y.pointer
    <2>1. n + 1 \in Nat
        BY <1>1
    <2> HIDE DEF y, line
    <2> QED BY <1>3, <2>1, ScanMoved
<1>4. Forget(s) \in ScanStates /\ Forget(s).found = s.found /\ Forget(s).n = s.n
    <2> DEFINE u == [r \in 0 .. (NumRegs - 1) |-> -1]
    <2>1. u \in [RegisterSet -> Int]
        BY DEF RegisterSet
    <2>2. Forget(s) = [s EXCEPT !.pointer = {}, !.entry = FALSE, !.unread = u]
        BY DEF Forget
    <2> HIDE DEF u
    <2> QED BY <2>1, <2>2 DEF ScanStates
<1>5. CASE line.kind = "label"
    <2>1. y = Forget(s)
        BY <1>5 DEF ScanLine
    <2> QED BY <1>3, <1>4, <1>5, <2>1 DEF ScanGoes, IsOperation
<1>6. CASE line.kind = "empty"
    <2>1. y = s
        BY <1>6 DEF ScanLine
    <2> QED BY <1>3, <1>6, <2>1 DEF ScanGoes, IsOperation
<1>7. CASE line.kind = "instruction" /\ line.op \in Declarations
    <2>1. y = s
        BY <1>7 DEF ScanLine
    <2> QED BY <1>3, <1>7, <2>1 DEF ScanGoes, IsOperation
<1>8. CASE line.kind = "instruction" /\ line.op \notin Declarations
    <2> DEFINE known == IF line.op \in Branches THEN Forget(s) ELSE s
               read == ScanOperands(p, known, line)
               k == [read EXCEPT !.found = read.found \cup ConstantFaults(p, s.n)]
    <2>1. y = ScanStack(p, k, line)
        BY <1>8 DEF ScanLine
    <2>2. known \in ScanStates /\ known.n = s.n /\ known.found = s.found /\ (line.op \notin Branches => known = s)
        BY <1>4
    <2> HIDE DEF known
    <2>3. read \in Follows(known)
        BY <1>1, <2>2, ScanOperandsIs
    <2>4. ConstantFaults(p, s.n) \in SUBSET Findings
        <3>1. Diagnostic(s.n, "division-by-zero") \in Findings /\ Diagnostic(s.n, "invalid-address") \in Findings
            BY <1>2, Found DEF ScanCodes
        <3>2. ConstantFaults(p, s.n) \subseteq {Diagnostic(s.n, "division-by-zero"), Diagnostic(s.n, "invalid-address")}
            BY Zenon DEF ConstantFaults
        <3> QED BY <3>1, <3>2
    <2> HIDE DEF read
    <2>5. k \in ScanStates /\ k.n = s.n /\ s.found \subseteq k.found /\ k.pointer = known.pointer
        BY <2>2, <2>3, <2>4 DEF Follows, ScanStates
    <2>6. Fits(p, line)
        <3>1. n \in DOMAIN Compile(p).operations
            <4> DEFINE q == Compile(p)
            <4>1. q.operations = [m \in {m \in Lines(p) : /\ LineAt(p, m).kind = "instruction"
                                                          /\ LineAt(p, m).op \notin Declarations}
                                    |-> [op |-> LineAt(p, m).op, args |-> LineAt(p, m).args]]
                BY CompileFields
            <4> HIDE DEF q
            <4> QED BY <1>8, <4>1 DEF q
        <3> QED BY <3>1, LineFits
    <2> HIDE DEF k
    <2>7. y \in ScanStates /\ y.n = k.n /\ k.found \subseteq y.found /\ PointerMoves(k, line, y)
        <3> HIDE DEF line, y
        <3> QED BY <1>1, <2>1, <2>5, <2>6, ScanStackIs
    <2> HIDE DEF y
    <2>8. z \in ScanStates /\ z.n = n + 1 /\ z.found = y.found /\ z.pointer = y.pointer
        BY <1>3, <2>7
    <2>9. ASSUME line.op \notin Branches
          PROVE  PointerMoves(s, line, z)
        <3>1. k.pointer = s.pointer /\ k.n = s.n
            BY <2>2, <2>5, <2>9
        <3> HIDE DEF line, z
        <3> QED BY <2>7, <2>8, <3>1 DEF PointerMoves
    <2> HIDE DEF z
    <2> QED BY <1>8, <2>5, <2>7, <2>8, <2>9 DEF ScanGoes, IsOperation, z, y, line
<1>9. line.kind \in {"label", "empty", "instruction"}
    BY <1>1 DEF TextLine
<1> QED BY <1>5, <1>6, <1>7, <1>8, <1>9

-----------------------------------------------------------------------------
(* The whole scan.                                                         *)

\* The scan behind line n - 1.
ScanNext(p, n, s) == [ScanLine(p, s, LineAt(p, n - 1)) EXCEPT !.n = n]

\* The scan passes over the whole text.
Scanned(f, p) ==
    /\ f[0] = ScanStart
    /\ \A n \in 0 .. Len(p) : f[n] \in ScanStates /\ f[n].n = n
    /\ \A n \in Lines(p) : ScanGoes(p, n, f[n], f[n + 1])

\* Going on by a line.
LEMMA ScanNextIs ==
    ASSUME NEW p, Readily(p), NoErrors(Diagnostics(p)), NEW n \in 1 .. Len(p), NEW s \in ScanStates
    PROVE  ScanGoes(p, n - 1, s, ScanNext(p, n, s)) /\ ScanNext(p, n, s) \in ScanStates
<1>1. Len(p) \in Nat
    BY TextsAre DEF Readily, IsText
<1>2. n - 1 \in Lines(p) /\ (n - 1) + 1 = n
    BY <1>1 DEF Lines
<1>3. ScanGoes(p, n - 1, s, [ScanLine(p, s, LineAt(p, n - 1)) EXCEPT !.n = (n - 1) + 1])
    BY <1>2, ScanLineIs
<1>4. ScanGoes(p, n - 1, s, ScanNext(p, n, s))
    BY <1>2, <1>3 DEF ScanNext
<1> QED BY <1>4 DEF ScanGoes

\* Scans computes the scan.
LEMMA ScansAre ==
    ASSUME NEW p, Readily(p), NoErrors(Diagnostics(p))
    PROVE  Scanned(Scans(p), p)
<1> DEFINE N == Len(p)
           S == (1 .. N) \X ScanStates
           g == [z \in S |-> ScanNext(p, z[1], z[2])]
           Is(f) == f = [n \in 0 .. N |-> IF n = 0 THEN ScanStart
                                          ELSE [ScanLine(p, f[n - 1], LineAt(p, n - 1)) EXCEPT !.n = n]]
<1>1. N \in Nat /\ ScanStart \in ScanStates
    <2>1. N \in Nat
        BY TextsAre DEF Readily, IsText
    <2> DEFINE u == [r \in 0 .. (NumRegs - 1) |-> -1]
    <2>2. u \in [RegisterSet -> Int]
        BY DEF RegisterSet
    <2>3. ScanStart = [n |-> 0, pointer |-> {0}, entry |-> TRUE, written |-> {}, unread |-> u, found |-> {}]
        BY DEF ScanStart
    <2> HIDE DEF u
    <2> QED BY <2>1, <2>2, <2>3 DEF ScanStates
<1>2. g \in [S -> ScanStates]
    <2>1. ASSUME NEW z \in S PROVE ScanNext(p, z[1], z[2]) \in ScanStates
        <3>1. z[1] \in 1 .. N /\ z[2] \in ScanStates
            BY <2>1
        <3> QED BY <3>1, ScanNextIs
    <2> HIDE DEF S
    <2> QED BY <2>1
<1>3. PICK f \in [0 .. N -> ScanStates] : Stepped(f, ScanStart, g, N)
    <2> HIDE DEF g, N
    <2> QED BY <1>1, <1>2, SteppedExists
<1>4. ASSUME NEW n \in 0 .. N
      PROVE  f[n] = IF n = 0 THEN ScanStart ELSE ScanNext(p, n, f[n - 1])
    <2>1. f[n] = IF n = 0 THEN ScanStart ELSE g[<<n, f[n - 1]>>]
        <3> HIDE DEF g, N
        <3> QED BY <1>3, <1>4, Zenon DEF Stepped
    <2>2. ASSUME n # 0 PROVE g[<<n, f[n - 1]>>] = ScanNext(p, n, f[n - 1])
        <3> HIDE DEF N
        <3>1. n \in 1 .. N /\ n - 1 \in 0 .. N
            BY <1>1, <1>4, <2>2
        <3>2. f[n - 1] \in ScanStates
            BY <1>3, <3>1
        <3>3. <<n, f[n - 1]>> \in S
            BY <3>1, <3>2
        <3> HIDE DEF S
        <3>4. g[<<n, f[n - 1]>>] = ScanNext(p, <<n, f[n - 1]>>[1], <<n, f[n - 1]>>[2])
            BY <3>3, Zenon
        <3>5. <<n, f[n - 1]>>[2] = f[n - 1] /\ <<n, f[n - 1]>>[1] = n
            OBVIOUS
        <3> HIDE DEF g
        <3> QED BY <3>4, <3>5, Zenon
    <2> HIDE DEF g
    <2> QED BY <2>1, <2>2, Zenon
<1>5. Is(f)
    <2>1. f = [n \in 0 .. N |-> f[n]]
        <3> HIDE DEF N
        <3> QED BY <1>3
    <2> HIDE DEF N
    <2> QED BY <1>4, <2>1, Zenon DEF ScanNext
<1> DEFINE h == CHOOSE e : Is(e)
<1>6. Is(h)
    <2> HIDE DEF Is
    <2> QED BY <1>5, Zenon
<1>7. Scans(p) = h
    BY Zenon DEF Scans
<1> HIDE DEF h
<1>8. \A n \in 0 .. N : h[n] = IF n = 0 THEN ScanStart ELSE ScanNext(p, n, h[n - 1])
    <2> HIDE DEF N
    <2> QED BY <1>6, Zenon DEF ScanNext
<1> HIDE DEF Is
<1>9. \A n \in Lines(p) : h[n + 1] = ScanNext(p, n + 1, h[n]) /\ n + 1 \in 1 .. N /\ n \in 0 .. N
    <2> SUFFICES ASSUME NEW n \in Lines(p)
                 PROVE  h[n + 1] = ScanNext(p, n + 1, h[n]) /\ n + 1 \in 1 .. N /\ n \in 0 .. N
        OBVIOUS
    <2>1. n + 1 \in 0 .. N /\ n + 1 # 0 /\ (n + 1) - 1 = n /\ n + 1 \in 1 .. N /\ n \in 0 .. N
        BY <1>1 DEF Lines
    <2> HIDE DEF N
    <2>2. h[n + 1] = ScanNext(p, n + 1, h[(n + 1) - 1])
        BY <1>8, <2>1, Zenon
    <2> QED BY <2>1, <2>2
<1>10. \A n \in 0 .. N : h[n] \in ScanStates /\ h[n].n = n
    <2> DEFINE X == {n \in 0 .. N : h[n] \in ScanStates /\ h[n].n = n}
    <2>1. 0 \in X
        <3>1. ScanStart.n = 0
            BY DEF ScanStart
        <3>2. h[0] = ScanStart /\ 0 \in 0 .. N
            BY <1>1, <1>8
        <3> HIDE DEF N
        <3> QED BY <1>1, <3>1, <3>2
    <2>2. ASSUME NEW n \in 0 .. N, n \in X, n < N PROVE n + 1 \in X
        <3>1. n \in Lines(p) /\ n + 1 \in 0 .. N /\ n + 1 \in 1 .. N /\ (n + 1) - 1 = n
            BY <1>1, <2>2 DEF Lines
        <3>2. h[n] \in ScanStates
            BY <2>2
        <3>3. h[n + 1] = ScanNext(p, n + 1, h[n])
            BY <1>9, <3>1
        <3>4. ScanGoes(p, (n + 1) - 1, h[n], h[n + 1])
            BY <3>1, <3>2, <3>3, ScanNextIs
        <3>5. h[n + 1] \in ScanStates /\ h[n + 1].n = n + 1
            BY <3>1, <3>4 DEF ScanGoes
        <3> QED BY <3>1, <3>5
    <2> HIDE DEF X
    <2>3. \A n \in 0 .. N : n \in X
        <3> HIDE DEF N
        <3> QED BY <1>1, <2>1, <2>2, UpTo
    <2> QED BY <2>3 DEF X
<1>11. ASSUME NEW n \in Lines(p) PROVE ScanGoes(p, n, h[n], h[n + 1])
    <2>1. n + 1 \in 1 .. N /\ h[n] \in ScanStates /\ (n + 1) - 1 = n
        BY <1>9, <1>10, <1>11
    <2>2. ScanGoes(p, (n + 1) - 1, h[n], ScanNext(p, n + 1, h[n]))
        BY <2>1, ScanNextIs
    <2> QED BY <1>9, <2>1, <2>2
<1>12. h[0] = ScanStart
    BY <1>1, <1>8
<1> QED BY <1>7, <1>10, <1>11, <1>12 DEF Scanned

\* What the scan found in front of a line it still knows at the end.
LEMMA ScansGrow ==
    ASSUME NEW p \in Texts, NEW f, Scanned(f, p), NEW n \in 0 .. Len(p)
    PROVE  f[n].found \subseteq f[Len(p)].found
<1> DEFINE N == Len(p)
           X == {k \in 0 .. N : n <= k => f[n].found \subseteq f[k].found}
<1>1. N \in Nat
    BY TextsAre DEF IsText
<1>3. 0 \in X
    <2>1. n <= 0 => n = 0
        OBVIOUS
    <2> QED BY <1>1, <2>1
<1>4. ASSUME NEW k \in 0 .. N, k \in X, k < N PROVE k + 1 \in X
    <2>1. k \in Lines(p) /\ k + 1 \in 0 .. N
        BY <1>1, <1>4 DEF Lines
    <2>2. f[k].found \subseteq f[k + 1].found
        BY <2>1 DEF Scanned, ScanGoes
    <2>3. n <= k + 1 => n <= k \/ n = k + 1
        BY <1>4
    <2>4. n <= k => f[n].found \subseteq f[k].found
        BY <1>4
    <2>5. n <= k + 1 => f[n].found \subseteq f[k + 1].found
        BY <2>2, <2>3, <2>4
    <2> QED BY <2>1, <2>5
<1> HIDE DEF X
<1>5. N \in X
    <2>1. N \in 0 .. N
        BY <1>1
    <2> HIDE DEF N
    <2> QED BY <1>1, <1>3, <1>4, <2>1, UpTo
<1> QED BY <1>1, <1>5 DEF X

\* A fault the scan finds is an error of the program.
LEMMA FaultSaid ==
    ASSUME NEW p, Readily(p), NoErrors(Diagnostics(p)), NEW n \in 0 .. Len(p), NEW m,
           NEW x \in {"stack-overflow", "stack-underflow"}
    PROVE  Diagnostic(m, x) \notin Scans(p)[n].found
<1> SUFFICES ASSUME Diagnostic(m, x) \in Scans(p)[n].found PROVE FALSE
    OBVIOUS
<1>1. Scanned(Scans(p), p)
    BY ScansAre
<1>2. Diagnostic(m, x) \in StraightLineValues(p)
    BY <1>1, ScansGrow DEF StraightLineValues, Readily
<1>3. StraightLineValues(p) \subseteq Diagnostics(p)
    BY Zenon DEF Diagnostics
<1>4. Diagnostic(m, x).code = x
    BY DEF Diagnostic
<1> QED BY <1>2, <1>3, <1>4 DEF NoErrors, ErrorCodes

\* In front of the first label, the lines up to the next operation leave the
\* stack pointer as it is known.
LEMMA ScanFlat ==
    ASSUME NEW p \in Texts, NEW f, Scanned(f, p), NEW m \in 0 .. Len(p),
           NEW o, o = OperationAtOrAfter(Compile(p), m), o \in EntryBlock(p)
    PROVE  f[o].pointer = f[m].pointer
<1> DEFINE q == Compile(p)
           later == {k \in DOMAIN q.operations : k >= m}
<1>1. q.length = Len(p) /\ Len(p) \in Nat /\ Lines(p) \subseteq Nat
    BY CompileFields, TextsAre DEF IsText
<1>2. DOMAIN q.operations = {k \in Lines(p) : IsOperation(LineAt(p, k))}
    <2>1. q.operations = [n \in {k \in Lines(p) : IsOperation(LineAt(p, k))}
                            |-> [op |-> LineAt(p, n).op, args |-> LineAt(p, n).args]]
        BY CompileFields DEF IsOperation
    <2> HIDE DEF q
    <2> QED BY <2>1
<1> HIDE DEF q
<1>3. later \subseteq Nat /\ \A k \in later : k < Len(p)
    BY <1>1, <1>2 DEF Lines
<1>4. o \in 0 .. Len(p) /\ m <= o /\ \A k \in later : o <= k
    <2>1. CASE later = {}
        BY <1>1, <2>1 DEF OperationAtOrAfter, q
    <2>2. CASE later # {}
        <3>1. o = Min(later)
            BY <2>2 DEF OperationAtOrAfter, q
        <3>2. o \in later /\ \A k \in later : o <= k
            <4> HIDE DEF later
            <4> QED BY <1>3, <2>2, <3>1, MinIn
        <3>3. o >= m /\ o \in Nat /\ o < Len(p)
            BY <1>3, <3>2
        <3> HIDE DEF later
        <3> QED BY <1>1, <3>2, <3>3
    <2> QED BY <2>1, <2>2
<1>0. \A k \in 0 .. o : LineAt(p, k).kind # "label"
    BY DEF EntryBlock
<1> DEFINE X == {k \in 0 .. (o - m) : f[m + k].pointer = f[m].pointer}
<1>5. 0 \in X
    BY <1>4
<1>6. ASSUME NEW k \in 0 .. (o - m), k \in X, k < o - m PROVE k + 1 \in X
    <2>1. /\ m + k \in Lines(p) /\ m + k < o /\ m + k >= m /\ m + (k + 1) \in 0 .. Len(p)
          /\ (m + k) + 1 = m + (k + 1) /\ k + 1 \in 0 .. (o - m) /\ m + k \in 0 .. o
        BY <1>1, <1>4, <1>6 DEF Lines
    <2>2. m + k \notin later
        <3> HIDE DEF later
        <3> QED BY <1>1, <1>4, <2>1
    <2>3. ~IsOperation(LineAt(p, m + k)) /\ LineAt(p, m + k).kind # "label"
        BY <1>0, <1>2, <2>1, <2>2
    <2>4. f[(m + k) + 1].pointer = f[m + k].pointer
        BY <2>1, <2>3 DEF Scanned, ScanGoes
    <2>6. f[m + k].pointer = f[m].pointer
        BY <1>6
    <2>7. f[m + (k + 1)].pointer = f[m].pointer
        BY <2>1, <2>4, <2>6
    <2> QED BY <2>1, <2>7
<1>7. o - m \in X
    <2> HIDE DEF X
    <2>1. o - m \in Nat /\ o - m \in 0 .. (o - m)
        BY <1>1, <1>4
    <2> QED BY <1>5, <1>6, <2>1, UpTo
<1>8. m + (o - m) = o
    BY <1>4
<1> QED BY <1>4, <1>7, <1>8

-----------------------------------------------------------------------------
(* The registers an operation writes.                                      *)

\* The operations that write the register of their first operand.
Loading(op) == Len(Signature(op)) >= 1 /\ Signature(op)[1] = "register"

\* These are they.
LEMMA LoadingIs ==
    ASSUME NEW op, op \in AluOps \cup {"pop", "peek", "get", "l", "ls", "ld", "sdse"} \cup BatchLoads
    PROVE  Loading(op)
<1>1. CASE op \in AluOps
    <2>1. \E a : \E b : \E c : Signature(op) \in {<<"register", a>>, <<"register", a, b>>, <<"register", a, b, c>>}
        BY <1>1 DEF Signature, AluOps, ArithmeticOps, SelectionOps
    <2> QED BY <2>1 DEF Loading
<1>2. CASE op \in {"pop", "peek", "get", "l", "ls", "ld"}
    <2>1. \E a : \E b : \E c : Signature(op) \in {<<"register">>, <<"register", a>>, <<"register", a, b>>, <<"register", a, b, c>>}
        BY <1>2, Signatures
    <2> QED BY <2>1 DEF Loading
<1>3. CASE op \in {"sdse"} \cup BatchLoads
    <2>1. \/ Signature(op) = <<"register", "device">>
          \/ Signature(op) = <<"register", "hash", "logicType", "hash">>
          \/ Signature(op) = <<"register", "hash", "hash", "logicType", "hash">>
          \/ Signature(op) = <<"register", "hash", "slotIndex", "logicType", "hash">>
          \/ Signature(op) = <<"register", "hash", "hash", "slotIndex", "logicType", "hash">>
        BY <1>3 DEF Signature, BatchLoads
    <2> QED BY <2>1 DEF Loading
<1> QED BY <1>1, <1>2, <1>3

\* Registers that are not the one an operation loads keep what they hold.
Wrote(q, o, c, r) ==
    /\ DOMAIN r.cpu.regs = DOMAIN c.regs
    /\ \A j \in DOMAIN c.regs : r.cpu.regs[j] = c.regs[j] \/ (Loading(o.op) /\ j = RegisterIndex(q, c, o.args[1]))

\* A failure writes none.
LEMMA FailWrote ==
    ASSUME NEW q, NEW o, NEW c, DOMAIN c = CpuFields, NEW w
    PROVE  Wrote(q, o, c, Fail(c, w)) /\ Wrote(q, o, c, Result(c, w))
BY DEF Wrote, Fail, Result, CpuFields

\* A register write is of that register.
LEMMA WriteWrote ==
    ASSUME NEW q, NEW o, Loading(o.op), NEW c, DOMAIN c = CpuFields, NEW w, NEW v
    PROVE  Wrote(q, o, c, WriteRegister(q, c, w, o.args[1], v))
<1> DEFINE i == RegisterIndex(q, c, o.args[1])
<1>1. CASE i = NoRegister \/ v = NoToken
    BY <1>1, FailWrote DEF WriteRegister
<1>2. CASE ~(i = NoRegister \/ v = NoToken)
    <2>1. WriteRegister(q, c, w, o.args[1], v) = Result([c EXCEPT !.regs[i] = v[2]], w)
        BY <1>2 DEF WriteRegister
    <2>2. Result([c EXCEPT !.regs[i] = v[2]], w).cpu.regs = [c.regs EXCEPT ![i] = v[2]]
        BY DEF Result, CpuFields
    <2> QED BY <2>1, <2>2 DEF Wrote
<1> QED BY <1>1, <1>2

\* Arithmetic and selection.
LEMMA AluWrote ==
    ASSUME NEW q, NEW o, o.op \in AluOps, NEW c, DOMAIN c = CpuFields, NEW w
    PROVE  Wrote(q, o, c, ExecuteAlu(q, o, c, w))
<1>1. Loading(o.op)
    BY LoadingIs
<1>2. \/ ExecuteAlu(q, o, c, w) = Fail(c, w)
      \/ \E v : ExecuteAlu(q, o, c, w) = WriteRegister(q, c, w, o.args[1], v)
    BY Zenon DEF ExecuteAlu
<1> QED BY <1>1, <1>2, FailWrote, WriteWrote

\* Reading the stack, and writing it at an address.
LEMMA StackWrote ==
    ASSUME NEW q, NEW o, o.op \in {"peek", "poke"}, NEW c, DOMAIN c = CpuFields, NEW w
    PROVE  Wrote(q, o, c, ExecuteStack(q, o, c, w))
<1> DEFINE r == ExecuteStack(q, o, c, w)
<1>1. CASE o.op = "peek"
    <2>1. Loading(o.op)
        BY <1>1, LoadingIs
    <2>2. r = Fail(c, w) \/ \E v : r = WriteRegister(q, c, w, o.args[1], v)
        BY <1>1 DEF ExecuteStack
    <2> HIDE DEF r
    <2>3. Wrote(q, o, c, r)
        BY <2>1, <2>2, FailWrote, WriteWrote
    <2> QED BY <2>3 DEF r
<1>2. CASE o.op = "poke"
    <2>1. r = Fail(c, w) \/ \E i, x : r = Result([c EXCEPT !.stack[i] = x], w)
        BY <1>2 DEF ExecuteStack
    <2>2. \A i, x : Wrote(q, o, c, Result([c EXCEPT !.stack[i] = x], w))
        BY DEF Wrote, Result, CpuFields
    <2> HIDE DEF r
    <2>3. Wrote(q, o, c, r)
        BY <2>1, <2>2, FailWrote
    <2> QED BY <2>3 DEF r
<1> QED BY <1>1, <1>2

\* Device memory.
LEMMA MemoryWrote ==
    ASSUME NEW q, NEW o, NEW c, DOMAIN c = CpuFields, NEW w
    PROVE  Wrote(q, o, c, ExecuteMemory(q, o, c, w))
<1> DEFINE r == ExecuteMemory(q, o, c, w)
<1>1. \/ r = Fail(c, w) \/ \E z : r = Result(c, z)
      \/ \E s : r = Result([c EXCEPT !.stack = s], w)
      \/ o.op = "get" /\ \E v : r = WriteRegister(q, c, w, o.args[1], v)
    BY DEF ExecuteMemory
<1>2. \A s : Wrote(q, o, c, Result([c EXCEPT !.stack = s], w))
    BY DEF Wrote, Result, CpuFields
<1>3. o.op = "get" => Loading(o.op)
    BY LoadingIs
<1> HIDE DEF r
<1>4. Wrote(q, o, c, r)
    BY <1>1, <1>2, <1>3, FailWrote, WriteWrote
<1> QED BY <1>4 DEF r

\* Device fields and slots.
LEMMA DeviceWrote ==
    ASSUME NEW q, NEW o, NEW c, DOMAIN c = CpuFields, NEW w
    PROVE  Wrote(q, o, c, ExecuteDevice(q, o, c, w))
<1> DEFINE r == ExecuteDevice(q, o, c, w)
<1>1. \/ r = Fail(c, w) \/ \E z : r = Result(c, z)
      \/ /\ o.op \in {"l", "ls", "ld", "sdse"} \cup BatchLoads
         /\ \E v : r = WriteRegister(q, c, w, o.args[1], v)
    <2>1. CASE o.op \in BatchLoads
        <3>1. r = ExecuteBatchLoad(q, o, c, w)
            BY <2>1 DEF ExecuteDevice, BatchLoads, BatchStores
        <3> QED BY <2>1, <3>1, Zenon DEF ExecuteBatchLoad
    <2>2. CASE o.op \in BatchStores
        <3>1. r = ExecuteBatchStore(q, o, c, w)
            BY <2>2 DEF ExecuteDevice, BatchLoads, BatchStores
        <3> QED BY <3>1 DEF ExecuteBatchStore
    <2>3. CASE o.op \in {"ls", "ss"}
        <3>1. r = ExecuteSlot(q, o, c, w)
            BY <2>3 DEF ExecuteDevice, BatchLoads, BatchStores
        <3> QED BY <2>3, <3>1 DEF ExecuteSlot
    <2>4. CASE o.op = "sdse"
        <3>1. \E v : r = WriteRegister(q, c, w, o.args[1], v)
            BY <2>4 DEF ExecuteDevice, BatchLoads, BatchStores
        <3> QED BY <2>4, <3>1
    <2>5. CASE o.op \notin BatchLoads \cup BatchStores \cup {"ls", "ss", "sdse"}
        <3>1. r = ExecuteField(q, o, c, w)
            BY <2>5 DEF ExecuteDevice
        <3> QED BY <3>1 DEF ExecuteField
    <2> QED BY <2>1, <2>2, <2>3, <2>4, <2>5
<1>3. o.op \in {"l", "ls", "ld", "sdse"} \cup BatchLoads => Loading(o.op)
    BY LoadingIs
<1> HIDE DEF r
<1>4. Wrote(q, o, c, r)
    BY <1>1, <1>3, FailWrote, WriteWrote
<1> QED BY <1>4 DEF r

\* An operation that is no branch, push or pop writes at most the register it loads.
LEMMA ExecuteWrote ==
    ASSUME NEW q, NEW n, NEW o, o = q.operations[n], o.op \notin BranchOps \cup {"push", "pop"},
           NEW c, DOMAIN c = CpuFields, NEW w
    PROVE  Wrote(q, o, [c EXCEPT !.pc = n + 1], Execute(q, n, c, w))
<1> DEFINE d == [c EXCEPT !.pc = n + 1]
           r == Execute(q, n, c, w)
<1>0. DOMAIN d = CpuFields
    OBVIOUS
<1> HIDE DEF d
<1>1. CASE o.op \in AluOps
    BY <1>0, <1>1, ExecuteIs, AluWrote DEF d
<1>2. CASE o.op \in StackOps
    <2>1. o.op \in {"peek", "poke"}
        BY <1>2 DEF StackOps
    <2> QED BY <1>0, <1>2, <2>1, ExecuteIs, StackWrote DEF d
<1>3. CASE o.op \in MemoryOps
    BY <1>0, <1>3, ExecuteIs, MemoryWrote DEF d
<1>4. CASE o.op \in DeviceOps
    BY <1>0, <1>4, ExecuteIs, DeviceWrote DEF d
<1>5. CASE o.op \notin AluOps \cup StackOps \cup MemoryOps \cup DeviceOps
    <2>1. \E s : r = Result([d EXCEPT !.state = s], w)
        BY <1>5 DEF Execute, Fail, d
    <2>2. \A s : Wrote(q, o, d, Result([d EXCEPT !.state = s], w))
        BY <1>0 DEF Wrote, Result, CpuFields
    <2> HIDE DEF r
    <2>3. Wrote(q, o, d, r)
        BY <2>1, <2>2
    <2> QED BY <2>3 DEF r, d
<1> QED BY <1>1, <1>2, <1>3, <1>4, <1>5

-----------------------------------------------------------------------------
(* The stack pointer of the entry block.                                   *)

\* The arms of Execute, by the class of the operation.
LEMMA ArmIs ==
    ASSUME NEW q, NEW n, NEW c, NEW w, NEW o, o = q.operations[n], NEW d, d = [c EXCEPT !.pc = n + 1]
    PROVE  /\ o.op \in StackOps => Execute(q, n, c, w) = ExecuteStack(q, o, d, w)
           /\ o.op \in AluOps => Execute(q, n, c, w) = ExecuteAlu(q, o, d, w)
           /\ o.op \in MemoryOps => Execute(q, n, c, w) = ExecuteMemory(q, o, d, w)
           /\ o.op \in DeviceOps => Execute(q, n, c, w) = ExecuteDevice(q, o, d, w)
BY ExecuteIs

\* A processor whose stack pointer is on the stack, and the scan that knows it.
AtPointer(p, n, c) ==
    /\ c.regs[SP] \in 0 .. StackSize
    /\ Scans(p)[n].pointer = {c.regs[SP]}

\* How an operation of the entry block leaves the stack pointer.
KeepsPointer(p, n, r) ==
    /\ DOMAIN r.cpu.regs = RegisterSet
    /\ r.cpu.state \notin {"Error", "Halted"} => r.cpu.pc = n + 1 /\ AtPointer(p, n + 1, r.cpu)
    /\ r.cpu.state = "Error" => LineAt(p, n).op \notin {"push", "pop", "peek"}

\* An operand of a line that does not touch the stack pointer is another register.
LEMMA OtherRegister ==
    ASSUME NEW p, Readily(p), NEW q, q = Compile(p), NEW line, Fits(p, line), Direct(p, line), Loading(line.op),
           Resolve(p, line.args[1]) # Reg(SP), NEW c
    PROVE  /\ Runs(q, c, line.args[1], Resolve(p, line.args[1])) /\ Resolve(p, line.args[1])[1] = "reg"
           /\ RegisterIndex(q, c, line.args[1]) = Resolve(p, line.args[1])[2]
           /\ RegisterIndex(q, c, line.args[1]) \in RegisterSet \ {SP}
<1> DEFINE r == Resolve(p, line.args[1])
<1>1. 1 \in 1 .. Len(line.args) /\ Signature(line.op)[1] = "register"
    <2>1. line.args \in Seq(Tokens) /\ Len(line.args) = Len(Signature(line.op))
        BY DEF Fits
    <2>2. Len(line.args) \in Nat
        <3> HIDE DEF Tokens
        <3> QED BY <2>1
    <2> QED BY <2>1, <2>2 DEF Loading
<1>2. Holds(p, q, c, line, 1)
    BY <1>1, OperandsHold
<1>3. Runs(q, c, line.args[1], r) /\ r[1] = "reg" /\ line.args[1] \in Tokens
    BY <1>1, <1>2 DEF Holds
<1>4. RegisterIndex(q, c, line.args[1]) = r[2] /\ r[2] \in RegisterSet
    BY <1>3 DEF Runs
<1>5. r \in Tokens \cup {NoToken}
    BY <1>3, ResolvedIsToken DEF Readily
<1>6. r = Reg(r[2])
    BY <1>3, <1>5 DEF Tokens, Plain, Base, NoToken, Reg
<1>7. r[2] # SP
    BY <1>6
<1> QED BY <1>3, <1>4, <1>7

\* The scan goes on with the operation at n.
LEMMA ScanAt ==
    ASSUME NEW p, Readily(p), NoErrors(Diagnostics(p)), NEW n \in DOMAIN Compile(p).operations,
           LineAt(p, n).op \notin BranchOps
    PROVE  /\ PointerMoves(Scans(p)[n], LineAt(p, n), Scans(p)[n + 1]) /\ Scans(p)[n].n = n
           /\ n + 1 \in 0 .. Len(p) /\ n \in 0 .. Len(p) /\ n \in Nat
<1>1. Scanned(Scans(p), p)
    BY ScansAre
<1>2. n \in Lines(p) /\ n \in Nat /\ Len(p) \in Nat /\ LineAt(p, n).kind = "instruction"
    BY OperationLines DEF Readily
<1>3. LineAt(p, n).op \notin Declarations
    <2> DEFINE q == Compile(p)
    <2>1. q.operations = [m \in {m \in Lines(p) : /\ LineAt(p, m).kind = "instruction"
                                                  /\ LineAt(p, m).op \notin Declarations}
                            |-> [op |-> LineAt(p, m).op, args |-> LineAt(p, m).args]]
        BY CompileFields
    <2>2. n \in DOMAIN q.operations
        OBVIOUS
    <2> HIDE DEF q
    <2> QED BY <2>1, <2>2
<1>4. IsOperation(LineAt(p, n)) /\ LineAt(p, n).op \notin Branches
    BY <1>2, <1>3 DEF IsOperation, BranchOps
<1>5. n + 1 \in 0 .. Len(p) /\ n \in 0 .. Len(p)
    BY <1>2 DEF Lines
<1>6. ScanGoes(p, n, Scans(p)[n], Scans(p)[n + 1]) /\ Scans(p)[n].n = n
    BY <1>1, <1>2, <1>5 DEF Scanned
<1> QED BY <1>2, <1>4, <1>5, <1>6 DEF ScanGoes

\* push goes where the scan says it goes.
LEMMA PushKeeps ==
    ASSUME NEW p, Readily(p), NoErrors(Diagnostics(p)), NEW q, q = Compile(p), NEW n \in DOMAIN q.operations,
           LineAt(p, n).op = "push", Direct(p, LineAt(p, n)),
           NEW c, DOMAIN c = CpuFields, c.state = "Ready", DOMAIN c.regs = RegisterSet, AtPointer(p, n, c), NEW w
    PROVE  KeepsPointer(p, n, Execute(q, n, c, w))
<1> DEFINE line == LineAt(p, n)
           d == [c EXCEPT !.pc = n + 1]
           o == q.operations[n]
           v == c.regs[SP]
           x == Value(q, d, line.args[1])
           r == Execute(q, n, c, w)
<1>1. Fits(p, line) /\ o.op = line.op /\ o.args = line.args
    BY LineFits
<1>2. /\ PointerMoves(Scans(p)[n], line, Scans(p)[n + 1]) /\ Scans(p)[n].n = n
      /\ n + 1 \in 0 .. Len(p)
    BY ScanAt DEF BranchOps, Branches, AbsoluteBranches, RelativeBranches, ComparisonBranches, DeviceBranches
<1>3. v \in Int /\ v >= 0 /\ v <= StackSize /\ StackSize \in Nat
    BY StackAssumption DEF AtPointer
<1>4. v < StackSize /\ Scans(p)[n + 1].pointer = {v + 1}
    <2>1. IF v >= StackSize THEN Diagnostic(n, "stack-overflow") \in Scans(p)[n + 1].found
          ELSE Scans(p)[n + 1].pointer = {v + 1}
        BY <1>2, <1>3 DEF PointerMoves, AtPointer
    <2>2. Diagnostic(n, "stack-overflow") \notin Scans(p)[n + 1].found
        BY <1>2, FaultSaid
    <2> QED BY <1>3, <2>1, <2>2
<1>5. x # NoToken
    <2>1. Signature(line.op) = <<"number">>
        BY Signatures
    <2>2. 1 \in 1 .. Len(line.args) /\ Signature(line.op)[1] = "number"
        BY <1>1, <2>1 DEF Fits
    <2>3. Holds(p, q, d, line, 1)
        BY <1>1, <2>2, OperandsHold
    <2> QED BY <2>2, <2>3 DEF Holds
<1>6. SP \in RegisterSet /\ DOMAIN d = CpuFields /\ d.regs = c.regs /\ d.state = "Ready" /\ d.pc = n + 1
    BY RegsAssumption DEF SP, RegisterSet, CpuFields
<1>7. r = ExecuteStack(q, o, d, w)
    <2>1. o.op \in StackOps
        BY <1>1 DEF StackOps
    <2> QED BY <2>1, ArmIs
<1> HIDE DEF d
<1>8. r = Result([d EXCEPT !.stack[v] = x[2], !.regs[SP] = v + 1], w)
    <2>1. OnStack(v)
        BY <1>3, <1>4 DEF OnStack
    <2>2. d.regs[SP] = v
        BY <1>6
    <2>3. o.op = "push" /\ o.args = line.args
        BY <1>1
    <2> HIDE DEF o, x, v, line
    <2>4. ExecuteStack(q, o, d, w) =
              IF ~ OnStack(d.regs[SP]) \/ Value(q, d, o.args[1]) = NoToken THEN Fail(d, w)
              ELSE Result([d EXCEPT !.stack[d.regs[SP]] = Value(q, d, o.args[1])[2], !.regs[SP] = @ + 1], w)
        BY <2>3 DEF ExecuteStack
    <2> QED BY <1>5, <1>7, <2>1, <2>2, <2>3, <2>4 DEF x
<1> HIDE DEF r, x, v
<1>9. /\ r.cpu.state = "Ready" /\ r.cpu.pc = n + 1 /\ DOMAIN r.cpu.regs = RegisterSet
      /\ r.cpu.regs[SP] = v + 1
    BY <1>6, <1>8 DEF Result, CpuFields
<1>10. v + 1 \in 0 .. StackSize
    BY <1>3, <1>4
<1> QED BY <1>4, <1>9, <1>10 DEF KeepsPointer, AtPointer, r

\* pop too.
LEMMA PopKeeps ==
    ASSUME NEW p, Readily(p), NoErrors(Diagnostics(p)), NEW q, q = Compile(p), NEW n \in DOMAIN q.operations,
           LineAt(p, n).op = "pop", Direct(p, LineAt(p, n)), Resolve(p, LineAt(p, n).args[1]) # Reg(SP),
           NEW c, DOMAIN c = CpuFields, c.state = "Ready", DOMAIN c.regs = RegisterSet, AtPointer(p, n, c), NEW w
    PROVE  KeepsPointer(p, n, Execute(q, n, c, w))
<1> DEFINE line == LineAt(p, n)
           d == [c EXCEPT !.pc = n + 1]
           o == q.operations[n]
           v == c.regs[SP]
           e == [d EXCEPT !.regs[SP] = v - 1]
           x == Num(d.stack[v - 1])
           r == Execute(q, n, c, w)
<1>1. Fits(p, line) /\ o.op = line.op /\ o.args = line.args
    BY LineFits
<1>2. /\ PointerMoves(Scans(p)[n], line, Scans(p)[n + 1]) /\ Scans(p)[n].n = n
      /\ n + 1 \in 0 .. Len(p)
    BY ScanAt DEF BranchOps, Branches, AbsoluteBranches, RelativeBranches, ComparisonBranches, DeviceBranches
<1>3. v \in Int /\ v >= 0 /\ v <= StackSize /\ StackSize \in Nat
    BY StackAssumption DEF AtPointer
<1>4. v > 0 /\ Scans(p)[n + 1].pointer = {v - 1}
    <2>1. IF v <= 0 THEN Diagnostic(n, "stack-underflow") \in Scans(p)[n + 1].found
          ELSE Scans(p)[n + 1].pointer = {v - 1}
        BY <1>2, <1>3 DEF PointerMoves, AtPointer
    <2>2. Diagnostic(n, "stack-underflow") \notin Scans(p)[n + 1].found
        BY <1>2, FaultSaid
    <2> QED BY <1>3, <2>1, <2>2
<1>6. SP \in RegisterSet /\ DOMAIN d = CpuFields /\ d.regs = c.regs /\ d.state = "Ready" /\ d.pc = n + 1
    BY RegsAssumption DEF SP, RegisterSet, CpuFields
<1>7. r = ExecuteStack(q, o, d, w)
    <2>1. o.op \in StackOps
        BY <1>1 DEF StackOps
    <2> QED BY <2>1, ArmIs
<1> HIDE DEF d
<1>8. /\ DOMAIN e = CpuFields /\ e.state = "Ready" /\ e.pc = n + 1 /\ DOMAIN e.regs = RegisterSet
      /\ e.regs[SP] = v - 1
    BY <1>6 DEF CpuFields
<1> HIDE DEF e
<1>9. r = WriteRegister(q, e, w, line.args[1], x)
    <2>1. OnStack(v - 1)
        BY <1>3, <1>4 DEF OnStack
    <2>2. d.regs[SP] = v
        BY <1>6
    <2>3. o.op = "pop" /\ o.args = line.args
        BY <1>1
    <2> HIDE DEF o, v, line
    <2>4. ExecuteStack(q, o, d, w) =
              IF ~ OnStack(d.regs[SP] - 1) THEN Fail([d EXCEPT !.regs[SP] = @ - 1], w)
              ELSE WriteRegister(q, [d EXCEPT !.regs[SP] = @ - 1], w, o.args[1], Num(d.stack[d.regs[SP] - 1]))
        BY <2>3 DEF ExecuteStack
    <2>5. [d EXCEPT !.regs[SP] = @ - 1] = e
        BY <2>2 DEF e
    <2> QED BY <1>7, <2>1, <2>2, <2>3, <2>4, <2>5
<1> DEFINE t == Resolve(p, line.args[1])
<1>10. Runs(q, e, line.args[1], t) /\ t[1] = "reg" /\ t[2] \in RegisterSet \ {SP}
    <2>1. Loading(line.op)
        BY LoadingIs
    <2> QED BY <1>1, <2>1, OtherRegister
<1>11. x # NoToken
    BY DEF Num, NoToken
<1> HIDE DEF x, t, line, r, v
<1>12. r = Result([e EXCEPT !.regs[t[2]] = x[2]], w)
    <2>1. "state" \in DOMAIN e
        BY <1>8 DEF CpuFields
    <2> QED BY <1>9, <1>10, <1>11, <2>1, WriteSucceeds
<1>13. /\ r.cpu.state = "Ready" /\ r.cpu.pc = n + 1 /\ DOMAIN r.cpu.regs = RegisterSet
       /\ r.cpu.regs[SP] = v - 1
    BY <1>6, <1>8, <1>10, <1>12 DEF Result, CpuFields
<1>14. v - 1 \in 0 .. StackSize
    BY <1>3, <1>4
<1> QED BY <1>4, <1>13, <1>14 DEF KeepsPointer, AtPointer, r, line

\* And peek does not fail.
LEMMA PeekKeeps ==
    ASSUME NEW p, Readily(p), NoErrors(Diagnostics(p)), NEW q, q = Compile(p), NEW n \in DOMAIN q.operations,
           LineAt(p, n).op = "peek", Direct(p, LineAt(p, n)), Resolve(p, LineAt(p, n).args[1]) # Reg(SP),
           NEW c, DOMAIN c = CpuFields, c.state = "Ready", DOMAIN c.regs = RegisterSet, AtPointer(p, n, c), NEW w
    PROVE  KeepsPointer(p, n, Execute(q, n, c, w))
<1> DEFINE line == LineAt(p, n)
           d == [c EXCEPT !.pc = n + 1]
           o == q.operations[n]
           v == c.regs[SP]
           x == Num(d.stack[v - 1])
           r == Execute(q, n, c, w)
<1>1. Fits(p, line) /\ o.op = line.op /\ o.args = line.args
    BY LineFits
<1>2. /\ PointerMoves(Scans(p)[n], line, Scans(p)[n + 1]) /\ Scans(p)[n].n = n
      /\ n + 1 \in 0 .. Len(p)
    BY ScanAt DEF BranchOps, Branches, AbsoluteBranches, RelativeBranches, ComparisonBranches, DeviceBranches
<1>3. v \in Int /\ v >= 0 /\ v <= StackSize /\ StackSize \in Nat
    BY StackAssumption DEF AtPointer
<1>4. v > 0 /\ Scans(p)[n + 1].pointer = {v}
    <2>1. v = 0 => Diagnostic(n, "stack-underflow") \in Scans(p)[n + 1].found
        BY <1>2, <1>3 DEF PointerMoves, AtPointer
    <2>2. Diagnostic(n, "stack-underflow") \notin Scans(p)[n + 1].found
        BY <1>2, FaultSaid
    <2>3. Scans(p)[n + 1].pointer = Scans(p)[n].pointer
        BY <1>2 DEF PointerMoves
    <2> QED BY <1>3, <2>1, <2>2, <2>3 DEF AtPointer
<1>6. SP \in RegisterSet /\ DOMAIN d = CpuFields /\ d.regs = c.regs /\ d.state = "Ready" /\ d.pc = n + 1
    BY RegsAssumption DEF SP, RegisterSet, CpuFields
<1>7. r = ExecuteStack(q, o, d, w)
    <2>1. o.op \in StackOps
        BY <1>1 DEF StackOps
    <2> QED BY <2>1, ArmIs
<1> HIDE DEF d
<1>9. r = WriteRegister(q, d, w, line.args[1], x)
    <2>1. OnStack(v - 1)
        BY <1>3, <1>4 DEF OnStack
    <2>2. d.regs[SP] = v
        BY <1>6
    <2>3. o.op = "peek" /\ o.args = line.args
        BY <1>1
    <2> HIDE DEF o, v, line
    <2>4. ExecuteStack(q, o, d, w) =
              IF ~ OnStack(d.regs[SP] - 1) THEN Fail(d, w)
              ELSE WriteRegister(q, d, w, o.args[1], Num(d.stack[d.regs[SP] - 1]))
        BY <2>3 DEF ExecuteStack
    <2> QED BY <1>7, <2>1, <2>2, <2>3, <2>4
<1> DEFINE t == Resolve(p, line.args[1])
<1>10. Runs(q, d, line.args[1], t) /\ t[1] = "reg" /\ t[2] \in RegisterSet \ {SP}
    <2>1. Loading(line.op)
        BY LoadingIs
    <2> QED BY <1>1, <2>1, OtherRegister
<1>11. x # NoToken
    BY DEF Num, NoToken
<1>14. d.regs[SP] = v
    BY <1>6
<1> HIDE DEF x, t, line, r, v
<1>12. r = Result([d EXCEPT !.regs[t[2]] = x[2]], w)
    <2>1. "state" \in DOMAIN d
        BY <1>6 DEF CpuFields
    <2> QED BY <1>9, <1>10, <1>11, <2>1, WriteSucceeds
<1>13. /\ r.cpu.state = "Ready" /\ r.cpu.pc = n + 1 /\ DOMAIN r.cpu.regs = RegisterSet
       /\ r.cpu.regs[SP] = v
    BY <1>6, <1>10, <1>12, <1>14 DEF Result, CpuFields
<1>15. v \in 0 .. StackSize
    BY <1>3
<1> QED BY <1>4, <1>13, <1>15 DEF KeepsPointer, AtPointer, r, line

-----------------------------------------------------------------------------
(* The stack pointer, every operation.                                     *)

\* A move to sp puts the stack pointer where the scan reads that it does.
LEMMA MoveKeeps ==
    ASSUME NEW p, Readily(p), NoErrors(Diagnostics(p)), NEW q, q = Compile(p), NEW n \in DOMAIN q.operations,
           SetsPointer(LineAt(p, n)), Direct(p, LineAt(p, n)),
           NEW c, DOMAIN c = CpuFields, c.state = "Ready", DOMAIN c.regs = RegisterSet, NEW w
    PROVE  KeepsPointer(p, n, Execute(q, n, c, w))
<1> DEFINE line == LineAt(p, n)
           d == [c EXCEPT !.pc = n + 1]
           o == q.operations[n]
           r == Execute(q, n, c, w)
<1>1. Fits(p, line) /\ o.op = line.op /\ o.args = line.args
    BY LineFits
<1>2. line.op = "move" /\ line.args[1] = Reg(SP)
    BY DEF SetsPointer
<1>3. PICK v \in 0 .. StackSize : line.args[2] = Num(v)
    BY DEF SetsPointer
<1>4. v \in Int /\ StackSize \in Nat
    BY StackAssumption
<1>5. PointerMoves(Scans(p)[n], line, Scans(p)[n + 1])
    BY <1>2, ScanAt DEF BranchOps, Branches, AbsoluteBranches, RelativeBranches, ComparisonBranches, DeviceBranches
<1>6. Scans(p)[n + 1].pointer = {v}
    BY <1>2, <1>3, <1>4, <1>5 DEF PointerMoves
<1>7. SP \in RegisterSet /\ DOMAIN d = CpuFields /\ d.regs = c.regs /\ d.state = "Ready" /\ d.pc = n + 1
    BY RegsAssumption DEF SP, RegisterSet, CpuFields
<1>8. r = ExecuteAlu(q, o, d, w)
    <2>1. o.op \in AluOps
        BY <1>1, <1>2 DEF AluOps, ArithmeticOps
    <2> QED BY <2>1, ArmIs
<1>9. Len(line.args) = 2
    <2>1. Signature(line.op) = <<"register", "number">>
        BY <1>2, Signatures
    <2> QED BY <1>1, <2>1 DEF Fits
<1>10. IsText(p)
    BY TextsAre DEF Readily
<1>11. Resolve(p, Num(v)) = Num(v) /\ Resolve(p, Reg(SP)) = Reg(SP)
    <2>1. ~IsName(Num(v)) /\ ~IsName(Reg(SP))
        BY DEF IsName, Num, Reg
    <2> QED BY <1>10, <2>1, PlainResolves
<1> HIDE DEF d, r
<1>12. Value(q, d, Num(v)) = Num(v) /\ Runs(q, d, Reg(SP), Reg(SP))
    <2>1. 1 \in 1 .. Len(line.args) /\ 2 \in 1 .. Len(line.args)
        BY <1>9
    <2>2. Holds(p, q, d, line, 1)
        BY <1>1, <2>1, OperandsHold
    <2>3. Holds(p, q, d, line, 2)
        BY <1>1, <2>1, OperandsHold
    <2>4. Num(v)[1] = "num"
        BY DEF Num
    <2> QED BY <1>2, <1>3, <1>11, <2>2, <2>3, <2>4 DEF Holds
<1>13. r = WriteRegister(q, d, w, Reg(SP), Num(v))
    <2> DEFINE a == [i \in 1 .. (Len(o.args) - 1) |-> Value(q, d, o.args[i + 1])]
               x == [i \in 1 .. ((Len(o.args) - 1) + 1) |-> IF i \in Evaluated(o, a) THEN a[i][2] ELSE 0]
    <2>1. Len(o.args) = 2 /\ o.op = "move" /\ o.args[1] = Reg(SP) /\ o.args[2] = Num(v)
        BY <1>1, <1>2, <1>3, <1>9
    <2>2. a[1] = Num(v) /\ DOMAIN a = {1}
        BY <1>12, <2>1
    <2> HIDE DEF a
    <2>3. Evaluated(o, a) = {1}
        BY <2>1, <2>2 DEF Evaluated
    <2>4. x[1] = v
        BY <2>1, <2>2, <2>3 DEF Num
    <2>5. Num(v) # NoToken
        BY DEF Num, NoToken
    <2> HIDE DEF x
    <2>6. Arithmetic("move", x) = v
        BY <2>4 DEF Arithmetic
    <2> HIDE DEF o
    <2>7. ExecuteAlu(q, o, d, w) =
              IF \E i \in Evaluated(o, a) : a[i] = NoToken THEN Fail(d, w)
              ELSE WriteRegister(q, d, w, o.args[1], Num(Arithmetic("move", x)))
        <3>1. o.op \in ArithmeticOps
            BY <2>1 DEF ArithmeticOps
        <3>2. ExecuteAlu(q, o, d, w) =
                  IF \E i \in Evaluated(o, a) : a[i] = NoToken THEN Fail(d, w)
                  ELSE WriteRegister(q, d, w, o.args[1],
                           Num(IF o.op \in ArithmeticOps THEN Arithmetic(o.op, x) ELSE Selection(o.op, x)))
            BY Zenon DEF ExecuteAlu, a, x
        <3> QED BY <2>1, <3>1, <3>2
    <2> QED BY <1>8, <2>1, <2>2, <2>3, <2>5, <2>6, <2>7
<1>14. r = Result([d EXCEPT !.regs[SP] = v], w)
    <2>1. "state" \in DOMAIN d /\ Num(v) # NoToken /\ Num(v)[2] = v /\ Reg(SP)[1] = "reg" /\ Reg(SP)[2] = SP
        BY <1>7 DEF CpuFields, Num, NoToken, Reg
    <2> QED BY <1>12, <1>13, <2>1, WriteSucceeds
<1>15. /\ r.cpu.state = "Ready" /\ r.cpu.pc = n + 1 /\ DOMAIN r.cpu.regs = RegisterSet
       /\ r.cpu.regs[SP] = v
    BY <1>7, <1>14 DEF Result, CpuFields
<1> QED BY <1>6, <1>15 DEF KeepsPointer, AtPointer, r

\* Every other operation leaves the stack pointer alone, and so does the scan.
LEMMA OtherKeeps ==
    ASSUME NEW p, Readily(p), NoErrors(Diagnostics(p)), NEW q, q = Compile(p), NEW n \in DOMAIN q.operations,
           LineAt(p, n).op \notin BranchOps \cup {"push", "pop", "peek"}, Direct(p, LineAt(p, n)),
           Loading(LineAt(p, n).op) => Resolve(p, LineAt(p, n).args[1]) # Reg(SP),
           NEW c, DOMAIN c = CpuFields, c.state = "Ready", DOMAIN c.regs = RegisterSet, AtPointer(p, n, c), NEW w
    PROVE  KeepsPointer(p, n, Execute(q, n, c, w))
<1> DEFINE line == LineAt(p, n)
           d == [c EXCEPT !.pc = n + 1]
           o == q.operations[n]
           r == Execute(q, n, c, w)
<1>1. Fits(p, line) /\ o.op = line.op /\ o.args = line.args
    BY LineFits
<1>2. PointerMoves(Scans(p)[n], line, Scans(p)[n + 1])
    BY ScanAt
<1>3. SP \in RegisterSet /\ d.regs = c.regs
    BY RegsAssumption DEF SP, RegisterSet, CpuFields
<1>4. ~(line.op = "move" /\ line.args[1] = Reg(SP))
    <2> SUFFICES ASSUME line.op = "move", line.args[1] = Reg(SP) PROVE FALSE
        OBVIOUS
    <2>1. Loading(line.op)
        BY LoadingIs DEF AluOps, ArithmeticOps
    <2>2. IsText(p) /\ ~IsName(Reg(SP))
        BY TextsAre DEF Readily, IsName, Reg
    <2>3. Resolve(p, Reg(SP)) = Reg(SP)
        BY <2>2, PlainResolves
    <2> QED BY <2>1, <2>3
<1>5. Scans(p)[n + 1].pointer = Scans(p)[n].pointer
    BY <1>2, <1>4 DEF PointerMoves
<1>6. Leaves(q, n, c, r)
    BY ExecuteLeaves
<1>7. r.cpu.state \notin {"Error", "Halted"} => r.cpu.pc = n + 1
    BY <1>1, <1>6 DEF Leaves
<1>8. Wrote(q, o, d, r)
    <2>1. o.op \notin BranchOps \cup {"push", "pop"}
        BY <1>1
    <2> QED BY <2>1, ExecuteWrote
<1>9. Loading(line.op) => RegisterIndex(q, d, line.args[1]) # SP
    <2> SUFFICES ASSUME Loading(line.op) PROVE RegisterIndex(q, d, line.args[1]) # SP
        OBVIOUS
    <2>1. RegisterIndex(q, d, line.args[1]) \in RegisterSet \ {SP}
        BY <1>1, OtherRegister
    <2> QED BY <2>1
<1> HIDE DEF d, r, o
<1>10. DOMAIN r.cpu.regs = RegisterSet /\ r.cpu.regs[SP] = c.regs[SP]
    BY <1>1, <1>3, <1>8, <1>9 DEF Wrote
<1> HIDE DEF line
<1> QED BY <1>5, <1>7, <1>10 DEF KeepsPointer, AtPointer, r, line

\* A line that does not touch the stack pointer, but perhaps sets it.
LEMMA Untouched ==
    ASSUME NEW p, NEW n, ~TouchesPointer(p, n), NEW line, line = LineAt(p, n)
    PROVE  /\ Direct(p, line)
           /\ \A i \in DOMAIN line.args : Resolve(p, line.args[i]) # Reg(SP) \/ (i = 1 /\ SetsPointer(line))
BY DEF TouchesPointer, Direct

\* An operation of the entry block takes the stack pointer where the scan says.
LEMMA PointerStep ==
    ASSUME NEW p, Readily(p), NoErrors(Diagnostics(p)), NEW q, q = Compile(p), NEW n \in DOMAIN q.operations,
           n \in EntryBlock(p), ~TouchesPointer(p, n),
           NEW c, DOMAIN c = CpuFields, c.state = "Ready", DOMAIN c.regs = RegisterSet, AtPointer(p, n, c), NEW w
    PROVE  KeepsPointer(p, n, Execute(q, n, c, w))
<1> DEFINE line == LineAt(p, n)
<1>1. line.op \notin BranchOps
    <2>1. n \in Lines(p) /\ Len(p) \in Nat
        BY TextsAre DEF EntryBlock, IsText, Readily
    <2>2. n \in 0 .. n
        BY <2>1 DEF Lines
    <2> QED BY <2>2 DEF EntryBlock
<1>2. Direct(p, line)
    BY Untouched
<1>3. Fits(p, line)
    BY LineFits
<1>4. Loading(line.op) /\ ~SetsPointer(line) => Resolve(p, line.args[1]) # Reg(SP)
    <2> SUFFICES ASSUME Loading(line.op), ~SetsPointer(line) PROVE Resolve(p, line.args[1]) # Reg(SP)
        OBVIOUS
    <2>1. line.args \in Seq(Tokens) /\ Len(line.args) >= 1
        BY <1>3 DEF Fits, Loading
    <2>2. 1 \in DOMAIN line.args
        <3> HIDE DEF Tokens, line
        <3> QED BY <2>1
    <2> QED BY <2>2, Untouched
<1>5. CASE SetsPointer(line)
    BY <1>2, <1>5, MoveKeeps
<1>6. CASE line.op = "push"
    BY <1>2, <1>6, PushKeeps
<1>7. CASE line.op \in {"pop", "peek"}
    <2>1. ~SetsPointer(line) /\ Loading(line.op)
        BY <1>7, LoadingIs DEF SetsPointer
    <2> QED BY <1>2, <1>4, <1>7, <2>1, PopKeeps, PeekKeeps
<1>8. CASE ~SetsPointer(line) /\ line.op \notin {"push", "pop", "peek"}
    BY <1>1, <1>2, <1>4, <1>8, OtherKeeps
<1> QED BY <1>5, <1>6, <1>7, <1>8

-----------------------------------------------------------------------------
(* The slots of the world.                                                 *)

\* The world has the slots it started with, and the fields of them.
WorldShape(w) ==
    /\ DOMAIN w = {"fields", "memory", "slots", "channel"}
    /\ DOMAIN w.slots = Devices
    /\ \A d \in Devices : DOMAIN w.slots[d] = SlotIds
    /\ SlotsFull(w)

\* A change of another part of the world leaves them alone.
LEMMA SameSlots ==
    ASSUME NEW w, WorldShape(w), NEW z, DOMAIN z = DOMAIN w, z.slots = w.slots
    PROVE  WorldShape(z)
BY DEF WorldShape, SlotsFull

\* slots.insert takes no field away.
LEMMA InsertKeeps ==
    ASSUME NEW w, WorldShape(w), NEW d \in Devices, NEW s \in SlotIds, NEW f, NEW v, NEW g, g = WriteSlot(w, d, s, f, v).slots[d]
    PROVE  /\ DOMAIN g = SlotIds
           /\ \A k \in SlotIds : SlotFields \subseteq DOMAIN g[k]
<1> DEFINE h == Insert(w.slots[d][s], f, v)
<1>1. SlotFields \subseteq DOMAIN h
    <2>1. SlotFields \subseteq DOMAIN w.slots[d][s]
        BY DEF WorldShape, SlotsFull
    <2>2. DOMAIN h = DOMAIN w.slots[d][s] \cup {f}
        BY DEF Insert
    <2> QED BY <2>1, <2>2
<1> HIDE DEF h
<1>2. g = [w.slots[d] EXCEPT ![s] = h]
    BY DEF WriteSlot, WorldShape, h
<1>3. \A k \in SlotIds : SlotFields \subseteq DOMAIN w.slots[d][k]
    BY DEF WorldShape, SlotsFull
<1>4. DOMAIN w.slots[d] = SlotIds
    BY DEF WorldShape
<1> QED BY <1>1, <1>2, <1>3, <1>4

\* A store into a slot.
LEMMA SlotKeeps ==
    ASSUME NEW w, WorldShape(w), NEW d \in Devices, NEW s \in SlotIds, NEW f, NEW v
    PROVE  WorldShape(WriteSlot(w, d, s, f, v))
<1> DEFINE z == WriteSlot(w, d, s, f, v)
           h == Insert(w.slots[d][s], f, v)
<1>1. z = [w EXCEPT !.slots = [w.slots EXCEPT ![d] = [w.slots[d] EXCEPT ![s] = h]]]
    BY DEF WriteSlot, WorldShape
<1>2. /\ DOMAIN z.slots[d] = SlotIds
      /\ \A k \in SlotIds : SlotFields \subseteq DOMAIN z.slots[d][k]
    BY InsertKeeps
<1>3. DOMAIN z = DOMAIN w /\ DOMAIN z.slots = DOMAIN w.slots
      /\ \A e \in Devices : e # d => z.slots[e] = w.slots[e]
    <2> HIDE DEF z, h
    <2> QED BY <1>1 DEF WorldShape
<1> HIDE DEF z
<1>4. \A e \in Devices : DOMAIN z.slots[e] = SlotIds
    BY <1>2, <1>3 DEF WorldShape
<1>5. \A e \in Devices, k \in SlotIds : SlotFields \subseteq DOMAIN z.slots[e][k]
    BY <1>2, <1>3 DEF WorldShape, SlotsFull
<1>6. WorldShape(z)
    BY <1>3, <1>4, <1>5 DEF WorldShape, SlotsFull
<1> QED BY <1>6 DEF z

\* A batch store into the slots of many devices.
LEMMA SlotsKeep ==
    ASSUME NEW w, WorldShape(w), NEW hit, NEW s \in SlotIds, NEW f, NEW v
    PROVE  WorldShape(WriteSlots(w, hit, s, f, v))
<1> DEFINE z == WriteSlots(w, hit, s, f, v)
           g == [d \in DOMAIN w.slots |-> IF d \in hit THEN WriteSlot(w, d, s, f, v).slots[d] ELSE w.slots[d]]
<1>1. z = [w EXCEPT !.slots = g]
    BY DEF WriteSlots, WorldShape
<1>2. DOMAIN w.slots = Devices
    BY DEF WorldShape
<1>3. \A d \in Devices : DOMAIN g[d] = SlotIds /\ \A k \in SlotIds : SlotFields \subseteq DOMAIN g[d][k]
    <2> TAKE d \in Devices
    <2>1. CASE d \in hit
        BY <1>2, <2>1, InsertKeeps
    <2>2. CASE d \notin hit
        BY <1>2, <2>2 DEF WorldShape, SlotsFull
    <2> QED BY <2>1, <2>2
<1>4. DOMAIN g = Devices
    BY <1>2
<1> HIDE DEF g
<1>5. DOMAIN z = DOMAIN w /\ z.slots = g
    BY <1>1 DEF WorldShape
<1> HIDE DEF z
<1>6. WorldShape(z)
    BY <1>3, <1>4, <1>5 DEF WorldShape, SlotsFull
<1> QED BY <1>6 DEF z

\* What a result does to the world.
KeepsWorld(w, r) == WorldShape(w) => WorldShape(r.world)

\* A failure or a register write does nothing to it.
LEMMA FailWorld ==
    ASSUME NEW q, NEW c, NEW w, NEW t, NEW v
    PROVE  KeepsWorld(w, Fail(c, w)) /\ KeepsWorld(w, Result(c, w)) /\ KeepsWorld(w, WriteRegister(q, c, w, t, v))
BY DEF KeepsWorld, Fail, Result, WriteRegister

\* A store to the memory or to a field of a device.
LEMMA StoreWorld ==
    ASSUME NEW w, NEW c, NEW x
    PROVE  /\ KeepsWorld(w, Result(c, [w EXCEPT !.memory = x]))
           /\ KeepsWorld(w, Result(c, [w EXCEPT !.fields = x]))
           /\ KeepsWorld(w, Result(c, [w EXCEPT !.channel = x]))
<1> SUFFICES ASSUME WorldShape(w)
             PROVE  WorldShape([w EXCEPT !.memory = x]) /\ WorldShape([w EXCEPT !.fields = x]) /\ WorldShape([w EXCEPT !.channel = x])
    BY DEF KeepsWorld, Result
<1>1. DOMAIN w = {"fields", "memory", "slots", "channel"}
    BY DEF WorldShape
<1>2. /\ DOMAIN [w EXCEPT !.memory = x] = DOMAIN w /\ [w EXCEPT !.memory = x].slots = w.slots
      /\ DOMAIN [w EXCEPT !.fields = x] = DOMAIN w /\ [w EXCEPT !.fields = x].slots = w.slots
      /\ DOMAIN [w EXCEPT !.channel = x] = DOMAIN w /\ [w EXCEPT !.channel = x].slots = w.slots
    BY <1>1
<1> QED BY <1>2, SameSlots

\* So does what the simulator shows on the housing.
LEMMA ShownKeeps ==
    ASSUME NEW w, WorldShape(w), NEW f, NEW v
    PROVE  WorldShape(Shown(w, f, v))
<1>1. \E x : Shown(w, f, v) = [w EXCEPT !.fields = x]
    BY DEF Shown
<1>2. ASSUME NEW x PROVE WorldShape([w EXCEPT !.fields = x])
    BY StoreWorld DEF KeepsWorld, Result
<1> QED BY <1>1, <1>2

-----------------------------------------------------------------------------
(* The world, every operation; accesses of the environment.                *)

\* Operations on the processor alone.
LEMMA ProcessorWorld ==
    ASSUME NEW q, NEW o, NEW n, NEW c, NEW w
    PROVE  /\ KeepsWorld(w, ExecuteAlu(q, o, c, w))
           /\ KeepsWorld(w, ExecuteBranch(q, o, n, c, w))
           /\ o.op \in StackOps => KeepsWorld(w, ExecuteStack(q, o, c, w))
<1>1. KeepsWorld(w, ExecuteAlu(q, o, c, w))
    <2>1. \/ ExecuteAlu(q, o, c, w) = Fail(c, w)
          \/ \E v : ExecuteAlu(q, o, c, w) = WriteRegister(q, c, w, o.args[1], v)
        BY Zenon DEF ExecuteAlu
    <2> QED BY <2>1, FailWorld
<1>2. KeepsWorld(w, ExecuteBranch(q, o, n, c, w))
    <2>1. BranchTo(q, o, n, c, w).world = w
        BY DEF BranchTo, Fail, Result
    <2>2. ExecuteBranch(q, o, n, c, w) \in {BranchTo(q, o, n, c, w), Result(c, w), Fail(c, w)}
        BY DEF ExecuteBranch
    <2>3. ExecuteBranch(q, o, n, c, w).world = w
        BY <2>1, <2>2 DEF Fail, Result
    <2> QED BY <2>3 DEF KeepsWorld
<1>3. o.op \in StackOps => KeepsWorld(w, ExecuteStack(q, o, c, w))
    <2>1. o.op \in StackOps => ExecuteStack(q, o, c, w).world = w
        BY DEF StackOps, ExecuteStack, Fail, Result, WriteRegister
    <2> QED BY <2>1 DEF KeepsWorld
<1> QED BY <1>1, <1>2, <1>3

\* Device memory.
LEMMA MemoryWorld ==
    ASSUME NEW q, NEW o, NEW c, NEW w
    PROVE  KeepsWorld(w, ExecuteMemory(q, o, c, w))
<1> DEFINE r == ExecuteMemory(q, o, c, w)
<1>1. r.world = w \/ \E x : r.world = [w EXCEPT !.memory = x]
    BY DEF ExecuteMemory, Fail, Result, WriteRegister
<1>2. \A x : KeepsWorld(w, Result(c, [w EXCEPT !.memory = x]))
    BY StoreWorld
<1> HIDE DEF r
<1>3. KeepsWorld(w, r)
    BY <1>1, <1>2 DEF KeepsWorld, Result
<1> QED BY <1>3 DEF r

\* The device an operation names is one of the world, or none.
LEMMA DeviceIs ==
    ASSUME NEW q, NEW c, NEW t
    PROVE  DeviceReference(q, c, t) \in Devices \cup {NoDevice}
<1>1. \A id : HasReference(id) => DeviceByReference(id) \in Devices
    BY ReferenceAssumption DEF HasReference, DeviceByReference
<1> QED BY <1>1, WorldAssumption DEF DeviceReference

\* Device fields and slots.
LEMMA DeviceWorld ==
    ASSUME NEW q, NEW o, NEW c, NEW w
    PROVE  KeepsWorld(w, ExecuteDevice(q, o, c, w))
<1> DEFINE r == ExecuteDevice(q, o, c, w)
<1>1. CASE o.op \in BatchLoads
    <2>1. r = ExecuteBatchLoad(q, o, c, w)
        BY <1>1 DEF ExecuteDevice, BatchLoads, BatchStores
    <2>2. \/ ExecuteBatchLoad(q, o, c, w) = Fail(c, w)
          \/ \E v : ExecuteBatchLoad(q, o, c, w) = WriteRegister(q, c, w, o.args[1], v)
        BY Zenon DEF ExecuteBatchLoad
    <2> QED BY <2>1, <2>2, FailWorld
<1>2. CASE o.op \in BatchStores
    <2>1. r = ExecuteBatchStore(q, o, c, w)
        BY <1>2 DEF ExecuteDevice, BatchLoads, BatchStores
    <2>2. \/ r = Fail(c, w) \/ r = Result(c, w)
          \/ \E hit, f, v : r = Result(c, WriteFields(w, hit, f, v))
          \/ \E hit, f, v : \E s \in SlotIds : r = Result(c, WriteSlots(w, hit, s, f, v))
        BY <2>1, Zenon DEF ExecuteBatchStore
    <2>3. ASSUME NEW hit, NEW f, NEW v PROVE KeepsWorld(w, Result(c, WriteFields(w, hit, f, v)))
        <3>1. \E x : WriteFields(w, hit, f, v) = [w EXCEPT !.fields = x]
            BY DEF WriteFields
        <3> QED BY <3>1, StoreWorld
    <2>4. ASSUME NEW hit, NEW f, NEW v, NEW s \in SlotIds PROVE KeepsWorld(w, Result(c, WriteSlots(w, hit, s, f, v)))
        BY SlotsKeep DEF KeepsWorld, Result
    <2> HIDE DEF r
    <2>5. KeepsWorld(w, r)
        BY <2>2, <2>3, <2>4, FailWorld
    <2> QED BY <2>5 DEF r
<1>3. CASE o.op \in {"ls", "ss"}
    <2>1. r = ExecuteSlot(q, o, c, w)
        BY <1>3 DEF ExecuteDevice, BatchLoads, BatchStores
    <2>2. \/ r = Fail(c, w)
          \/ \E v : r = WriteRegister(q, c, w, o.args[1], v)
          \/ \E d, f, v : \E s \in SlotIds :
                d = DeviceReference(q, c, o.args[1]) /\ d # NoDevice /\ r = Result(c, WriteSlot(w, d, s, f, v))
        BY <1>3, <2>1 DEF ExecuteSlot
    <2>3. ASSUME NEW d \in Devices, NEW f, NEW v, NEW s \in SlotIds PROVE KeepsWorld(w, Result(c, WriteSlot(w, d, s, f, v)))
        BY SlotKeeps DEF KeepsWorld, Result
    <2> HIDE DEF r
    <2>4. DeviceReference(q, c, o.args[1]) \in Devices \cup {NoDevice}
        BY DeviceIs
    <2>5. KeepsWorld(w, r)
        BY <2>2, <2>3, <2>4, FailWorld
    <2> QED BY <2>5 DEF r
<1>4. CASE o.op = "sdse"
    <2>1. \E v : r = WriteRegister(q, c, w, o.args[1], v)
        BY <1>4 DEF ExecuteDevice, BatchLoads, BatchStores
    <2> QED BY <2>1, FailWorld
<1>5. CASE o.op \notin BatchLoads \cup BatchStores \cup {"ls", "ss", "sdse"}
    <2>1. r = ExecuteField(q, o, c, w)
        BY <1>5 DEF ExecuteDevice
    <2>2. \/ r = Fail(c, w)
          \/ \E v : r = WriteRegister(q, c, w, o.args[1], v)
          \/ \E d, f, v : r = Result(c, WriteField(w, d, f, v))
        BY <2>1 DEF ExecuteField
    <2>3. ASSUME NEW d, NEW f, NEW v PROVE KeepsWorld(w, Result(c, WriteField(w, d, f, v)))
        <3>1. \E x : WriteField(w, d, f, v) \in {[w EXCEPT !.fields = x], [w EXCEPT !.channel = x]}
            BY DEF WriteField
        <3> QED BY <3>1, StoreWorld
    <2> HIDE DEF r
    <2>4. KeepsWorld(w, r)
        BY <2>2, <2>3, FailWorld
    <2> QED BY <2>4 DEF r
<1> QED BY <1>1, <1>2, <1>3, <1>4, <1>5

\* No operation takes a slot, or a field of one, away.
LEMMA WorldKeeps ==
    ASSUME NEW q, NEW n, NEW c, NEW w, WorldShape(w)
    PROVE  WorldShape(Execute(q, n, c, w).world)
<1> DEFINE o == q.operations[n]
           d == [c EXCEPT !.pc = n + 1]
           r == Execute(q, n, c, w)
<1>1. CASE o.op \in AluOps \cup BranchOps \cup StackOps \cup MemoryOps \cup DeviceOps
    <2>1. /\ o.op \in AluOps => r = ExecuteAlu(q, o, d, w)
          /\ o.op \in BranchOps => r = ExecuteBranch(q, o, n, d, w)
          /\ o.op \in StackOps => r = ExecuteStack(q, o, d, w)
          /\ o.op \in MemoryOps => r = ExecuteMemory(q, o, d, w)
          /\ o.op \in DeviceOps => r = ExecuteDevice(q, o, d, w)
        BY ExecuteIs
    <2> HIDE DEF r, o, d
    <2>2. KeepsWorld(w, r)
        BY <1>1, <2>1, ProcessorWorld, MemoryWorld, DeviceWorld
    <2> QED BY <2>2 DEF KeepsWorld, r
<1>2. CASE o.op \notin AluOps \cup BranchOps \cup StackOps \cup MemoryOps \cup DeviceOps
    <2>1. r.world = w
        BY <1>2 DEF Execute, Fail, Result
    <2> QED BY <2>1
<1> QED BY <1>1, <1>2

\* An access of the environment ends as the editor said.
LEMMA AccessAgrees ==
    ASSUME NEW p, Readily(p), NoErrors(Diagnostics(p)), NEW q, q = Compile(p), NEW n \in DOMAIN q.operations,
           NEW line, line = LineAt(p, n), line.op \in ContextOps \ {"bdnvl"},
           NEW c, DOMAIN c = CpuFields, c.state = "Ready", NEW w, SlotsFull(w)
    PROVE  Fate(p, line, Execute(q, n, c, w).cpu.state)
<1> DEFINE o == q.operations[n]
           d == [c EXCEPT !.pc = n + 1]
           r == Execute(q, n, c, w)
<1>1. Fits(p, line) /\ o.op = line.op /\ o.args = line.args
    BY LineFits
<1>2. "state" \in DOMAIN d /\ d.state = "Ready" /\ d.state # "Error"
    BY DEF CpuFields
<1>3. /\ o.op \in MemoryOps => r = ExecuteMemory(q, o, d, w)
      /\ o.op \in DeviceOps => r = ExecuteDevice(q, o, d, w)
    BY ArmIs
<1> HIDE DEF d, o
<1>4. CASE line.op \in {"l", "s", "ld", "sd"}
    <2>1. r = ExecuteField(q, o, d, w)
        BY <1>1, <1>3, <1>4 DEF DeviceOps, ExecuteDevice, BatchLoads, BatchStores
    <2>2. Fate(p, line, ExecuteField(q, o, d, w).cpu.state)
        BY <1>1, <1>2, <1>4, FieldAgrees
    <2> QED BY <2>1, <2>2
<1>5. CASE line.op \in {"ls", "ss"}
    <2>1. r = ExecuteSlot(q, o, d, w)
        BY <1>1, <1>3, <1>5 DEF DeviceOps, ExecuteDevice, BatchLoads, BatchStores
    <2>2. Fate(p, line, ExecuteSlot(q, o, d, w).cpu.state)
        BY <1>1, <1>2, <1>5, SlotAgrees
    <2> QED BY <2>1, <2>2
<1>6. CASE line.op \in {"get", "put"}
    <2>1. r = ExecuteMemory(q, o, d, w)
        BY <1>1, <1>3, <1>6 DEF MemoryOps
    <2>2. Fate(p, line, ExecuteMemory(q, o, d, w).cpu.state)
        BY <1>1, <1>2, <1>6, MemoryAgrees
    <2> QED BY <2>1, <2>2
<1> QED BY <1>4, <1>5, <1>6 DEF ContextOps

-----------------------------------------------------------------------------
(* The agreements in a run of the source.                                  *)

\* The run has not left the entry block, nor used the stack pointer.
Entered(p) == executed \subseteq EntryBlock(p) /\ \A n \in executed : ~TouchesPointer(p, n)

\* Then the scan knows the stack pointer, in front of the line after the last.
PointerKnown(p) ==
    Entered(p) =>
        /\ DOMAIN cpu.regs = RegisterSet
        /\ cpu.state \notin {"Error", "Halted"} =>
              /\ cpu.pc = OperationAtOrAfter(prog, last + 1)
              /\ Scans(p)[last + 1].pointer = {cpu.regs[SP]}
              /\ cpu.regs[SP] \in 0 .. StackSize

DiagRun ==
    /\ last \in Lines(Text) \cup {-1}
    /\ WorldShape(world)
    /\ Fitting(Text) => /\ PointerKnown(Text)
                        /\ StackFaultsForeseen(Text)
                        /\ BatchStoresAccepted(Text)
                        /\ EnvironmentFaultsForeseen(Text)
                        /\ EnvironmentErrorsReal(Text)

DiagInv ==
    /\ phase # "running" => last = -1 /\ cpu.state = "Ready" /\ world = StartWorld
    /\ phase = "running" /\ Unchanged => DiagRun

\* A run starts with the stack pointer the scan starts with.
LEMMA DiagStarts ==
    ASSUME source \in Sources, source' = source, NoErrors(Diagnostics(Text)), prog' = Compile(Text),
           cpu' = StartCpu(prog'), last' = -1, executed' = {}, world' = StartWorld
    PROVE  DiagRun'
<1> DEFINE p == Text
<1>0. p' = p
    BY DEF Text, Document
<1>1. WorldShape(world)'
    BY DEF WorldShape, SlotsFull, StartWorld
<1>2. cpu'.state = "Ready" /\ DOMAIN cpu'.regs = RegisterSet /\ cpu'.pc = OperationAtOrAfter(prog', 0)
    BY DEF StartCpu
<1>3. SP \in RegisterSet /\ StackSize \in Nat
    BY RegsAssumption, StackAssumption DEF SP, RegisterSet
<1>4. cpu'.regs[SP] = 0
    BY <1>3 DEF StartCpu
<1>5. last' + 1 = 0 /\ ~(last' >= 0)
    OBVIOUS
<1>6. ASSUME Fitting(p) PROVE PointerKnown(p)'
    <2>1. p \in Texts
        BY TextIs
    <2>2. Readily(p)
        BY <1>6, <2>1, NoErrorsComplete DEF Readily
    <2>3. Scans(p)[0] = ScanStart
        BY <2>2, ScansAre DEF Scanned
    <2>4. Scans(p)[0].pointer = {0}
        BY <2>3 DEF ScanStart
    <2> HIDE DEF p
    <2> QED BY <1>0, <1>2, <1>3, <1>4, <1>5, <2>4 DEF PointerKnown
<1>7. /\ StackFaultsForeseen(p)' /\ BatchStoresAccepted(p)' /\ EnvironmentFaultsForeseen(p)'
      /\ EnvironmentErrorsReal(p)'
    BY <1>2, <1>5 DEF StackFaultsForeseen, BatchStoresAccepted, EnvironmentFaultsForeseen, EnvironmentErrorsReal
<1> QED BY <1>0, <1>1, <1>6, <1>7 DEF DiagRun

\* What leaves the line, the registers and the counter alone keeps the agreements.
LEMMA DiagStays ==
    ASSUME DiagRun, source' = source, prog' = prog, last' = last, executed' = executed,
           cpu'.regs = cpu.regs, cpu'.pc = cpu.pc, WorldShape(world)',
           \/ cpu'.state = cpu.state
           \/ cpu.state \notin {"Error", "Halted"} /\ cpu'.state # "Error"
    PROVE  DiagRun'
<1> DEFINE p == Text
<1>1. Text' = Text
    BY DEF Text, Document
<1>2. last' \in Lines(p) \cup {-1}
    BY DEF DiagRun
<1> SUFFICES ASSUME Fitting(p)
             PROVE  /\ PointerKnown(p)' /\ StackFaultsForeseen(p)' /\ BatchStoresAccepted(p)'
                    /\ EnvironmentFaultsForeseen(p)' /\ EnvironmentErrorsReal(p)'
    BY <1>1, <1>2 DEF DiagRun
<1>3. /\ PointerKnown(p) /\ StackFaultsForeseen(p) /\ BatchStoresAccepted(p)
      /\ EnvironmentFaultsForeseen(p) /\ EnvironmentErrorsReal(p) /\ p' = p
    BY <1>1 DEF DiagRun
<1> HIDE DEF p
<1>4. PointerKnown(p)'
    <2>1. Entered(p)' => Entered(p)
        BY <1>3 DEF Entered
    <2> QED BY <1>3, <2>1 DEF PointerKnown
<1>5. StackFaultsForeseen(p)'
    BY <1>3 DEF StackFaultsForeseen
<1>6. BatchStoresAccepted(p)'
    BY <1>3 DEF BatchStoresAccepted
<1>7. EnvironmentFaultsForeseen(p)'
    BY <1>3 DEF EnvironmentFaultsForeseen
<1>8. EnvironmentErrorsReal(p)'
    BY <1>3 DEF EnvironmentErrorsReal
<1> QED BY <1>4, <1>5, <1>6, <1>7, <1>8

-----------------------------------------------------------------------------
(* One step of the run.                                                    *)

\* An operation of a run of the source, as Execute has it.
Ran(p, n, r) ==
    /\ n \in DOMAIN prog.operations /\ n = cpu.pc /\ n \in Lines(p)
    /\ r = Execute(prog, n, cpu, Shown(world, "LineNumber", n))
    /\ cpu.state = "Ready"
    /\ cpu'.regs = r.cpu.regs /\ cpu'.state = r.cpu.state
    /\ cpu'.pc = OperationAtOrAfter(prog, r.cpu.pc)
    /\ prog' = prog /\ source' = source
    /\ world' = IF r.cpu.state = "Error" THEN Shown(r.world, "Error", 1) ELSE r.world
    /\ last' = n /\ executed' = executed \cup {n}

\* Every step of such a run is one.
LEMMA StepRan ==
    ASSUME ReachInv, RunStep, Unchanged
    PROVE  /\ \E n, r : Ran(Text, n, r)
           /\ prog = Compile(Text) /\ NoErrors(Diagnostics(Text)) /\ Text \in Texts /\ Text' = Text
           /\ DOMAIN cpu = CpuFields
<1> DEFINE p == Text
           n == cpu.pc
<1>1. /\ source \in Sources /\ diagnostics = Diagnostics(p) /\ DOMAIN cpu = CpuFields
      /\ phase = "running" /\ NoErrors(diagnostics) /\ RunInv
    BY DEF ReachInv, RunStep
<1>2. source' = source /\ prog' = prog
    BY DEF RunStep, Tool, Step
<1>3. PICK r : /\ r = Execute(prog, cpu.pc, cpu, Shown(world, "LineNumber", cpu.pc))
               /\ cpu' = [r.cpu EXCEPT !.pc = OperationAtOrAfter(prog, @)]
               /\ world' = IF r.cpu.state = "Error" THEN Shown(r.world, "Error", 1) ELSE r.world
    BY DEF RunStep, Step
<1>4. /\ cpu.state = "Ready" /\ cpu.pc < prog.length
      /\ executed' = executed \cup {SourceLine(cpu.pc)} /\ last' = SourceLine(cpu.pc)
    BY DEF RunStep, Step
<1>5. Leaves(prog, n, cpu, r)
    BY <1>1, <1>3, ExecuteLeaves
<1>6. cpu'.regs = r.cpu.regs /\ cpu'.state = r.cpu.state /\ cpu'.pc = OperationAtOrAfter(prog, r.cpu.pc)
    BY <1>3, <1>5 DEF Leaves, CpuFields
<1>7. /\ p \in Texts /\ Len(p) \in Nat
      /\ \A k \in Lines(p) : LineAt(p, k).kind = "instruction" => k \in Lines(source)
    BY <1>1, TextIs
<1>8. artifact = Itself /\ prog = Compile(p) /\ n \in DOMAIN prog.operations \cup {prog.length}
    BY <1>1 DEF RunInv
<1>9. Text' = Text
    BY <1>2 DEF Text, Document
<1> HIDE DEF p, n
<1>10. /\ prog.length = Len(p)
       /\ \A k \in DOMAIN prog.operations : k \in Lines(p) /\ LineAt(p, k).kind = "instruction"
    BY <1>7, <1>8, OperationLines
<1>11. n \in DOMAIN prog.operations /\ n \in Lines(p)
    BY <1>4, <1>7, <1>8, <1>10 DEF n
<1>12. SourceLine(n) = n
    <2>1. n \in Lines(source)
        BY <1>7, <1>10, <1>11
    <2>2. artifact.origin = [g \in Lines(source) |-> g]
        BY <1>8 DEF Itself
    <2> QED BY <2>1, <2>2 DEF SourceLine
<1>13. Ran(p, n, r)
    BY <1>2, <1>3, <1>4, <1>6, <1>11, <1>12 DEF Ran, n
<1> QED BY <1>1, <1>7, <1>8, <1>9, <1>13 DEF p

\* While it is in the entry block the scan goes along with it, and knows its faults.
LEMMA PointerGoesOn ==
    ASSUME NEW p, Readily(p), NoErrors(Diagnostics(p)), prog = Compile(p), DOMAIN cpu = CpuFields,
           last \in Lines(p) \cup {-1}, PointerKnown(p), NEW n, NEW r, Ran(p, n, r), p' = p
    PROVE  PointerKnown(p)' /\ StackFaultsForeseen(p)'
<1>1. ASSUME executed' \subseteq EntryBlock(p), \A k \in executed' : ~TouchesPointer(p, k)
      PROVE  KeepsPointer(p, n, r)
    <2>1. executed' = executed \cup {n} /\ cpu.state = "Ready" /\ n = cpu.pc
          /\ r = Execute(prog, n, cpu, Shown(world, "LineNumber", n)) /\ n \in DOMAIN prog.operations
        BY DEF Ran
    <2>2. Entered(p) /\ n \in EntryBlock(p) /\ ~TouchesPointer(p, n)
        BY <1>1, <2>1 DEF Entered
    <2>3. /\ DOMAIN cpu.regs = RegisterSet
          /\ n = OperationAtOrAfter(prog, last + 1)
          /\ Scans(p)[last + 1].pointer = {cpu.regs[SP]}
          /\ cpu.regs[SP] \in 0 .. StackSize
        BY <2>1, <2>2 DEF PointerKnown
    <2>4. p \in Texts /\ Scanned(Scans(p), p)
        BY ScansAre DEF Readily
    <2>5. last + 1 \in 0 .. Len(p)
        <3>1. Len(p) \in Nat
            BY <2>4, TextsAre DEF IsText
        <3> QED BY <3>1 DEF Lines
    <2>6. Scans(p)[n].pointer = Scans(p)[last + 1].pointer
        BY <2>2, <2>3, <2>4, <2>5, ScanFlat
    <2>7. AtPointer(p, n, cpu)
        BY <2>3, <2>6 DEF AtPointer
    <2> QED BY <2>1, <2>2, <2>3, <2>7, PointerStep
<1>2. /\ cpu'.regs = r.cpu.regs /\ cpu'.state = r.cpu.state /\ last' = n /\ prog' = prog
      /\ cpu'.pc = OperationAtOrAfter(prog, r.cpu.pc)
    BY DEF Ran
<1>3. PointerKnown(p)'
    <2> SUFFICES ASSUME Entered(p)'
                 PROVE  /\ DOMAIN cpu'.regs = RegisterSet
                        /\ cpu'.state \notin {"Error", "Halted"} =>
                              /\ cpu'.pc = OperationAtOrAfter(prog', last' + 1)
                              /\ Scans(p)[last' + 1].pointer = {cpu'.regs[SP]}
                              /\ cpu'.regs[SP] \in 0 .. StackSize
        BY DEF PointerKnown
    <2>1. KeepsPointer(p, n, r)
        BY <1>1 DEF Entered
    <2> QED BY <1>2, <2>1 DEF KeepsPointer, AtPointer
<1>4. StackFaultsForeseen(p)'
    <2> SUFFICES ASSUME cpu'.state = "Error", executed' \subseteq EntryBlock(p), \A k \in executed' : ~TouchesPointer(p, k)
                 PROVE  LineAt(p, last').op \notin {"push", "pop", "peek"}
        BY DEF StackFaultsForeseen
    <2> QED BY <1>1, <1>2 DEF KeepsPointer
<1> QED BY <1>3, <1>4

\* And its accesses end as the editor said.
LEMMA AccessGoesOn ==
    ASSUME NEW p, Readily(p), NoErrors(Diagnostics(p)), prog = Compile(p), DOMAIN cpu = CpuFields,
           WorldShape(world), NEW n, NEW r, Ran(p, n, r), p' = p
    PROVE  BatchStoresAccepted(p)' /\ EnvironmentFaultsForeseen(p)' /\ EnvironmentErrorsReal(p)'
<1> DEFINE line == LineAt(p, n)
           w == Shown(world, "LineNumber", n)
<1>1. /\ cpu'.state = r.cpu.state /\ last' = n /\ cpu.state = "Ready" /\ n \in DOMAIN prog.operations
      /\ r = Execute(prog, n, cpu, w)
    BY DEF Ran
<1>2. SlotsFull(w)
    BY ShownKeeps DEF WorldShape
<1> HIDE DEF w
<1>3. line.op \in ContextOps \ {"bdnvl"} => Fate(p, line, r.cpu.state)
    BY <1>1, <1>2, AccessAgrees
<1>4. (/\ line.op \in BatchStores /\ Direct(p, line) /\ Networked
       /\ ResolvesToNumber(p, line.args[1]) /\ NumberOf(p, line.args[1]) \in Catalog) => r.cpu.state = "Ready"
    <2> SUFFICES ASSUME line.op \in BatchStores, Direct(p, line), Networked,
                        ResolvesToNumber(p, line.args[1]), NumberOf(p, line.args[1]) \in Catalog
                 PROVE  r.cpu.state = "Ready"
        OBVIOUS
    <2>1. Execute(prog, n, cpu, w).cpu.state = cpu.state
        BY <1>1, BatchStoreRuns
    <2> QED BY <1>1, <2>1
<1>5. BatchStoresAccepted(p)'
    <2> SUFFICES ASSUME cpu'.state = "Error", Networked, line.op \in BatchStores, ResolvesToNumber(p, line.args[1]),
                        NumberOf(p, line.args[1]) \in Catalog
                 PROVE  \E i \in DOMAIN line.args : Resolve(p, line.args[i])[1] = "ind"
        BY <1>1 DEF BatchStoresAccepted
    <2> QED BY <1>1, <1>4 DEF Direct
<1>6. EnvironmentFaultsForeseen(p)'
    <2> SUFFICES ASSUME cpu'.state = "Error", StaticAccess(p, line) PROVE ContextCodes(p, line) # {}
        BY <1>1 DEF EnvironmentFaultsForeseen
    <2>1. line.op \in ContextOps \ {"bdnvl"}
        BY DEF StaticAccess
    <2> QED BY <1>1, <1>3, <2>1 DEF Fate
<1>7. EnvironmentErrorsReal(p)'
    <2> SUFFICES ASSUME cpu'.state \notin {"Error", "Halted"}, ~UsesHousingMemory(p, line), line.op \in ContextOps \ {"bdnvl"}
                 PROVE  ContextCodes(p, line) \cap Impossible(line) = {}
        BY <1>1 DEF EnvironmentErrorsReal
    <2> QED BY <1>1, <1>3 DEF Fate
<1> QED BY <1>5, <1>6, <1>7

\* So a step of the run keeps the agreements.
LEMMA DiagSteps ==
    ASSUME ReachInv, RunStep, Unchanged, DiagRun
    PROVE  DiagRun'
<1> DEFINE p == Text
<1>1. /\ prog = Compile(p) /\ NoErrors(Diagnostics(p)) /\ p \in Texts /\ p' = p /\ DOMAIN cpu = CpuFields
    BY StepRan
<1>2. PICK n, r : Ran(p, n, r)
    BY StepRan
<1>3. last' \in Lines(p) \cup {-1}
    BY <1>2 DEF Ran
<1>4. WorldShape(world)'
    <2>1. /\ r = Execute(prog, n, cpu, Shown(world, "LineNumber", n)) /\ WorldShape(world)
          /\ world' \in {r.world, Shown(r.world, "Error", 1)}
        BY <1>2 DEF Ran, DiagRun
    <2>2. WorldShape(r.world)
        BY <2>1, ShownKeeps, WorldKeeps
    <2>3. WorldShape(world')
        BY <2>1, <2>2, ShownKeeps
    <2> QED BY <2>3 DEF WorldShape, SlotsFull
<1>5. ASSUME Fitting(p)
      PROVE  /\ PointerKnown(p)' /\ StackFaultsForeseen(p)' /\ BatchStoresAccepted(p)'
             /\ EnvironmentFaultsForeseen(p)' /\ EnvironmentErrorsReal(p)'
    <2>1. Readily(p)
        BY <1>1, <1>5, NoErrorsComplete DEF Readily
    <2>2. last \in Lines(p) \cup {-1} /\ PointerKnown(p) /\ WorldShape(world)
        BY <1>5 DEF DiagRun
    <2> HIDE DEF p
    <2> QED BY <1>1, <1>2, <2>1, <2>2, PointerGoesOn, AccessGoesOn
<1> QED BY <1>1, <1>3, <1>4, <1>5 DEF DiagRun

-----------------------------------------------------------------------------
(* The agreements, every action.                                           *)

\* The invariant holds in the editor.
LEMMA DiagInit == ToolInit => DiagInv
BY DEF ToolInit, Init, StartCpu, DiagInv

\* Every action keeps it.
LEMMA DiagStep == ReachInv /\ DiagInv /\ [ToolNext]_toolVars => DiagInv'
<1> SUFFICES ASSUME ReachInv, DiagInv, [ToolNext]_toolVars PROVE DiagInv'
    OBVIOUS
<1>0. DOMAIN cpu = CpuFields
    BY DEF ReachInv
<1>1. /\ source \in Sources /\ diagnostics = Diagnostics(Text)
      /\ phase = "editing" => level = "source" /\ prog = Compile(Text) /\ cpu = StartCpu(prog)
      /\ phase = "built" => level \in Levels /\ (level = "none" => artifact = Itself)
      /\ phase \in {"built", "running"} => NoErrors(diagnostics)
      /\ phase # "running" => last = -1 /\ cpu.state = "Ready" /\ world = StartWorld /\ executed = {}
      /\ phase = "running" /\ Unchanged => DiagRun
    BY DEF ReachInv, DiagInv
<1>2. source' = source => Text' = Text
    BY DEF Text, Document
<1>3. source' = source /\ level' = level => Unchanged' = Unchanged
    BY DEF Unchanged
<1>4. CASE RunSource
    <2>1. /\ phase = "editing" /\ phase' = "running" /\ NoErrors(diagnostics) /\ source' = source
          /\ prog' = prog /\ cpu' = cpu /\ world' = world /\ last' = last /\ executed' = executed
        BY <1>4 DEF RunSource, machineVars, History
    <2>2. /\ prog' = Compile(Text) /\ cpu' = StartCpu(prog') /\ last' = -1 /\ executed' = {}
          /\ world' = StartWorld /\ NoErrors(Diagnostics(Text))
        BY <1>1, <2>1
    <2>3. DiagRun'
        BY <1>1, <2>1, <2>2, DiagStarts
    <2> QED BY <2>1, <2>3 DEF DiagInv
<1>5. CASE Build \/ RefuseBuild
    <2>1. phase = "editing" /\ phase' # "running" /\ last' = last /\ cpu' = cpu /\ world' = world
        BY <1>5 DEF Build, RefuseBuild, History, machineVars
    <2>2. last' = -1 /\ cpu'.state = "Ready" /\ world' = StartWorld
        BY <1>1, <2>1
    <2>3. StartWorld' = StartWorld
        BY DEF StartWorld
    <2> QED BY <2>1, <2>2, <2>3 DEF DiagInv
<1>6. CASE RunArtifact
    <2>1. /\ phase = "built" /\ prog' = Compile(Document(artifact.lines)) /\ cpu' = StartCpu(prog')
          /\ source' = source /\ level' = level /\ world' = world /\ last' = last /\ executed' = executed
        BY <1>6 DEF RunArtifact, Tool, History
    <2>2. last' = -1 /\ cpu'.state = "Ready" /\ world' = StartWorld /\ executed' = {}
        BY <1>1, <2>1 DEF StartCpu
    <2>3. ASSUME Unchanged PROVE DiagRun'
        <3>1. level = "none" /\ artifact = Itself
            BY <1>1, <2>1, <2>3 DEF Unchanged, Levels
        <3>2. artifact.lines = source
            BY <3>1 DEF Itself
        <3>3. prog' = Compile(Text) /\ Text' = Text
            BY <1>2, <2>1, <3>2 DEF Text
        <3>4. NoErrors(Diagnostics(Text))
            BY <1>1, <2>1
        <3> QED BY <1>1, <2>1, <2>2, <3>3, <3>4, DiagStarts
    <2>4. StartWorld' = StartWorld
        BY DEF StartWorld
    <2> QED BY <1>3, <2>1, <2>2, <2>3, <2>4 DEF DiagInv
<1>7. CASE RunStep
    <2>1. phase = "running" /\ phase' = phase /\ source' = source /\ level' = level
        BY <1>7 DEF RunStep, Tool
    <2>2. Unchanged => DiagRun'
        BY <1>1, <1>7, <2>1, DiagSteps
    <2> QED BY <1>3, <2>1, <2>2 DEF DiagInv
<1>8. CASE RunEnd \/ RunWake \/ RunSensor \/ UNCHANGED toolVars
    <2>1. /\ phase' = phase /\ source' = source /\ level' = level /\ prog' = prog /\ last' = last /\ executed' = executed
        BY <1>8 DEF RunEnd, RunOut, RunWake, Wake, RunSensor, SetSensor, Tool, History, toolVars
    <2>2. /\ cpu'.regs = cpu.regs /\ cpu'.pc = cpu.pc
          /\ \/ cpu'.state = cpu.state
             \/ cpu.state \notin {"Error", "Halted"} /\ cpu'.state # "Error"
        BY <1>0, <1>8 DEF RunEnd, RunOut, RunWake, Wake, RunSensor, SetSensor, toolVars, CpuFields
    <2>3. phase # "running" => cpu' = cpu /\ world' = world
        BY <1>8 DEF RunEnd, RunWake, RunSensor, toolVars
    <2>4. world' = world \/ \E x : world' = [world EXCEPT !.fields = x]
        BY <1>8 DEF RunEnd, RunOut, RunWake, Wake, RunSensor, SetSensor, toolVars
    <2>5. WorldShape(world) => WorldShape(world)'
        <3>1. \A x : WorldShape(world) => WorldShape([world EXCEPT !.fields = x])
            BY StoreWorld DEF KeepsWorld, Result
        <3>2. WorldShape(world) => WorldShape(world')
            BY <2>4, <3>1
        <3> QED BY <3>2 DEF WorldShape, SlotsFull
    <2>6. phase = "running" /\ Unchanged => DiagRun'
        <3> SUFFICES ASSUME phase = "running", Unchanged PROVE DiagRun'
            OBVIOUS
        <3>1. DiagRun
            BY <1>1
        <3>2. WorldShape(world)'
            BY <2>5, <3>1 DEF DiagRun
        <3> QED BY <2>1, <2>2, <3>1, <3>2, DiagStays
    <2>7. phase # "running" => last' = -1 /\ cpu'.state = "Ready" /\ world' = StartWorld
        BY <1>1, <2>1, <2>3
    <2>8. StartWorld' = StartWorld
        BY DEF StartWorld
    <2> QED BY <1>3, <2>1, <2>6, <2>7, <2>8 DEF DiagInv
<1> QED BY <1>4, <1>5, <1>6, <1>7, <1>8 DEF ToolNext

\* The agreements are part of it.
LEMMA DiagIsEnough ==
    ReachInv /\ DiagInv => (level \in {"source", "none"} => DiagnosticsAgree)
<1> SUFFICES ASSUME ReachInv, DiagInv, Unchanged PROVE DiagnosticsAgree
    BY DEF Unchanged
<1>1. CASE phase = "running"
    BY <1>1 DEF DiagInv, DiagRun, DiagnosticsAgree, Text
<1>2. CASE phase # "running"
    <2>1. last = -1 /\ cpu.state = "Ready" /\ ~(last >= 0)
        BY <1>2 DEF DiagInv
    <2> QED BY <2>1 DEF DiagnosticsAgree, StackFaultsForeseen, BatchStoresAccepted, EnvironmentFaultsForeseen,
                        EnvironmentErrorsReal
<1> QED BY <1>1, <1>2

\* A run of a source that fits (Fitting), or of its copy, faults on the stack, on a batch
\* store or on an access of the environment only where the editor said so, and what the
\* editor called impossible never works.
THEOREM SourceDiagnosticsAgree ==
    ToolSpec => [](level \in {"source", "none"} => DiagnosticsAgree)
<1>1. ToolInit => ReachInv /\ DiagInv
    BY ReachInit, DiagInit
<1>2. (ReachInv /\ DiagInv) /\ [ToolNext]_toolVars => (ReachInv /\ DiagInv)'
    BY ReachStep, DiagStep
<1>3. ReachInv /\ DiagInv => (level \in {"source", "none"} => DiagnosticsAgree)
    BY DiagIsEnough
<1> QED BY <1>1, <1>2, <1>3, PTL DEF ToolSpec
=============================================================================
