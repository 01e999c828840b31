-------------------------- MODULE LuaSandboxProofs --------------------------
(***************************************************************************)
(* The sandbox of a Lua program, proved for any set of modules, any limits *)
(* and any program: the limits hold, require remembers what happened, the  *)
(* call counter covers the calls, and an invocation is all or nothing.     *)
(***************************************************************************)
EXTENDS LuaSandbox, FiniteSetTheorems, SequenceTheorems, TLAPS

-----------------------------------------------------------------------------
(* The inductive invariant.                                                *)

Kinds == {"entry", "call", "guard", "module"}
Frame == [kind : Kinds, name : Names \cup {""}]

\* A stack has the entry script at its bottom and nowhere else, and each
\* module at most once.
WellFormed(s) ==
    /\ s \in Seq(Frame)
    /\ \A i \in DOMAIN s : /\ s[i].kind = "entry" <=> i = 1
                           /\ s[i].kind = "module" => s[i].name \in Names
    /\ \A i, j \in DOMAIN s : s[i].kind = "module" /\ s[i] = s[j] => i = j

\* The coroutine: its stack, the names being loaded, and the call counter.
\* A fresh or dead thread has no stack; a fresh one leaves room for a call.
Coroutine ==
    /\ WellFormed(stack)
    /\ loading = ModulesOf(stack)
    /\ running => thread # "dead"
    /\ stack = <<>> <=> ~running /\ thread # "suspended"
    /\ CallsIn(stack) <= depth
    /\ running \/ thread = "suspended" => depth <= MaxDepth
    /\ ~running /\ thread = "fresh" => depth < MaxDepth

Snapshot == [world : [Cells -> Values], tick : Nat, state : {"Ready", "Waiting"},
             wake : Nat, faulted : BOOLEAN]

Modules ==
    /\ IsFiniteSet(loadedPaths)
    /\ completed \in [Names -> Nat]
    /\ ModuleCompletesOnce
    /\ loaded \cap loading = {}

Inv ==
    /\ TypeOK
    /\ saved # NoSnapshot => saved \in Snapshot
    /\ Coroutine
    /\ Modules
    /\ running => world = begun

-----------------------------------------------------------------------------
(* Stacks.                                                                 *)

\* The frames that have had two call events.
Doubles(s) == {i \in DOMAIN s : Calls(s[i]) = 2}

LEMMA SameFrame ==
    ASSUME NEW f \in Frame, NEW g \in Frame, f.kind = g.kind, f.name = g.name
    PROVE  f = g
<1>1. f = [kind |-> f.kind, name |-> f.name]
  BY DEF Frame
<1>2. g = [kind |-> g.kind, name |-> g.name]
  BY DEF Frame
<1> QED
  BY <1>1, <1>2

LEMMA CallsType ==
    ASSUME NEW f PROVE Calls(f) \in {1, 2}
BY DEF Calls

LEMMA DoublesFinite ==
    ASSUME NEW s \in Seq(Frame)
    PROVE  /\ IsFiniteSet(Doubles(s)) /\ Cardinality(Doubles(s)) \in Nat
           /\ CallsIn(s) = Len(s) + Cardinality(Doubles(s)) /\ CallsIn(s) \in Nat
<1>1. DOMAIN s = 1 .. Len(s) /\ Len(s) \in Nat
  OBVIOUS
<1>2. IsFiniteSet(1 .. Len(s))
  BY <1>1, FS_Interval
<1>3. Doubles(s) \in SUBSET (1 .. Len(s))
  BY <1>1 DEF Doubles
<1>4. IsFiniteSet(Doubles(s))
  BY <1>2, <1>3, FS_Subset
<1>5. Cardinality(Doubles(s)) \in Nat
  BY <1>4, FS_CardinalityType
<1>6. CallsIn(s) = Len(s) + Cardinality(Doubles(s))
  BY DEF CallsIn, Doubles
<1> QED
  BY <1>1, <1>4, <1>5, <1>6

\* A call that is entered counts as often as its frame says.
LEMMA PushCounts ==
    ASSUME NEW s \in Seq(Frame), NEW f \in Frame
    PROVE  CallsIn(Append(s, f)) = CallsIn(s) + Calls(f)
<1> DEFINE t == Append(s, f)
<1>1. /\ t \in Seq(Frame) /\ Len(t) = Len(s) + 1 /\ Len(s) \in Nat
      /\ \A i \in 1 .. Len(s) : t[i] = s[i]
      /\ t[Len(s) + 1] = f
  OBVIOUS
<1>2. DOMAIN t = 1 .. Len(s) + 1 /\ DOMAIN s = 1 .. Len(s)
  BY <1>1
<1>3. Len(s) + 1 \notin Doubles(s)
  BY <1>1, <1>2 DEF Doubles
<1> HIDE DEF t
<1>4. CASE Calls(f) = 2
  <2>1. Doubles(t) = Doubles(s) \cup {Len(s) + 1}
    BY <1>1, <1>2, <1>4 DEF Doubles
  <2>2. Cardinality(Doubles(t)) = Cardinality(Doubles(s)) + 1
    BY <2>1, <1>3, DoublesFinite, FS_AddElement
  <2>3. CallsIn(t) = CallsIn(s) + Calls(f)
    BY <1>1, <1>4, <2>2, DoublesFinite
  <2> QED
    BY <2>3 DEF t
<1>5. CASE Calls(f) = 1
  <2>1. Doubles(t) = Doubles(s)
    BY <1>1, <1>2, <1>5 DEF Doubles
  <2>2. CallsIn(t) = CallsIn(s) + Calls(f)
    BY <1>1, <1>5, <2>1, DoublesFinite
  <2> QED
    BY <2>2 DEF t
<1> QED
  BY <1>4, <1>5, CallsType

\* What is left below a frame counts less by the calls of that frame.
LEMMA CutCounts ==
    ASSUME NEW s \in Seq(Frame), NEW g \in 1 .. Len(s)
    PROVE  /\ CallsIn(SubSeq(s, 1, g - 1)) \in Nat
           /\ CallsIn(SubSeq(s, 1, g - 1)) + Calls(s[g]) <= CallsIn(s)
<1> DEFINE t == SubSeq(s, 1, g - 1)
<1>1. /\ t \in Seq(Frame) /\ Len(t) = g - 1 /\ Len(s) \in Nat
      /\ \A i \in 1 .. g - 1 : t[i] = s[i]
  OBVIOUS
<1>2. DOMAIN t = 1 .. g - 1 /\ DOMAIN s = 1 .. Len(s)
  BY <1>1
<1> HIDE DEF t
<1>3. g \notin Doubles(t)
  BY <1>1, <1>2 DEF Doubles
<1>4. Doubles(t) \subseteq Doubles(s)
  BY <1>1, <1>2 DEF Doubles
<1>5. CASE Calls(s[g]) = 2
  <2>1. Doubles(t) \cup {g} \in SUBSET Doubles(s)
    BY <1>2, <1>4, <1>5 DEF Doubles
  <2>2. Cardinality(Doubles(t) \cup {g}) = Cardinality(Doubles(t)) + 1
    BY <1>1, <1>3, DoublesFinite, FS_AddElement
  <2>3. Cardinality(Doubles(t) \cup {g}) <= Cardinality(Doubles(s))
    BY <2>1, DoublesFinite, FS_Subset
  <2>4. CallsIn(t) \in Nat /\ CallsIn(t) + Calls(s[g]) <= CallsIn(s)
    <3>1. /\ CallsIn(t) = Len(t) + Cardinality(Doubles(t)) /\ Cardinality(Doubles(t)) \in Nat
          /\ CallsIn(s) = Len(s) + Cardinality(Doubles(s)) /\ Cardinality(Doubles(s)) \in Nat
      BY <1>1, DoublesFinite
    <3> QED
      BY <3>1, <1>1, <1>5, <2>2, <2>3
  <2> QED
    BY <2>4 DEF t
<1>6. CASE Calls(s[g]) = 1
  <2>1. Cardinality(Doubles(t)) <= Cardinality(Doubles(s))
    BY <1>4, DoublesFinite, FS_Subset
  <2>2. CallsIn(t) \in Nat /\ CallsIn(t) + Calls(s[g]) <= CallsIn(s)
    <3>1. /\ CallsIn(t) = Len(t) + Cardinality(Doubles(t)) /\ Cardinality(Doubles(t)) \in Nat
          /\ CallsIn(s) = Len(s) + Cardinality(Doubles(s)) /\ Cardinality(Doubles(s)) \in Nat
      BY <1>1, DoublesFinite
    <3> QED
      BY <3>1, <1>1, <1>6, <2>1
  <2> QED
    BY <2>2 DEF t
<1> QED
  BY <1>5, <1>6, CallsType

LEMMA EmptyStack ==
    /\ WellFormed(<<>>) /\ ModulesOf(<<>>) = {} /\ CallsIn(<<>>) = 0
<1>1. Doubles(<<>>) = {}
  BY DEF Doubles
<1>2. CallsIn(<<>>) = Len(<<>>) + Cardinality({})
  BY <1>1 DEF CallsIn, Doubles
<1>3. CallsIn(<<>>) = 0
  BY <1>2, FS_EmptySet
<1> QED
  BY <1>3 DEF WellFormed, ModulesOf

LEMMA EntryStack ==
    /\ WellFormed(<<Entry>>) /\ ModulesOf(<<Entry>>) = {} /\ CallsIn(<<Entry>>) = 1
<1>1. Entry \in Frame /\ Entry.kind = "entry"
  BY DEF Entry, Frame, Kinds
<1>2. <<Entry>> \in Seq(Frame) /\ Len(<<Entry>>) = 1 /\ <<Entry>>[1] = Entry
      /\ DOMAIN <<Entry>> = {1}
  BY <1>1
<1>3. Doubles(<<Entry>>) = {}
  BY <1>1, <1>2 DEF Doubles, Calls
<1>4. CallsIn(<<Entry>>) = Len(<<Entry>>) + Cardinality(Doubles(<<Entry>>))
  BY <1>2, DoublesFinite
<1>5. CallsIn(<<Entry>>) = 1
  BY <1>2, <1>3, <1>4, FS_EmptySet
<1> QED
  BY <1>1, <1>2, <1>5 DEF WellFormed, ModulesOf

\* Cutting a stack below a frame leaves a stack, without the modules from that
\* frame on.
LEMMA CutStack ==
    ASSUME NEW s, WellFormed(s), NEW g \in 1 .. Len(s)
    PROVE  /\ WellFormed(SubSeq(s, 1, g - 1))
           /\ ModulesOf(SubSeq(s, 1, g - 1)) = ModulesOf(s) \ ModulesOf(SubSeq(s, g, Len(s)))
           /\ g > 1 => SubSeq(s, 1, g - 1) # <<>>
<1> DEFINE t == SubSeq(s, 1, g - 1)
           u == SubSeq(s, g, Len(s))
<1>0. s \in Seq(Frame) /\ Len(s) \in Nat
  BY DEF WellFormed
<1>1. /\ t \in Seq(Frame) /\ Len(t) = g - 1
      /\ \A i \in 1 .. g - 1 : t[i] = s[i]
  BY <1>0
<1>2. /\ Len(u) = Len(s) - g + 1
      /\ \A i \in 1 .. Len(s) - g + 1 : u[i] = s[g + i - 1]
      /\ u \in Seq(Frame)
  BY <1>0
<1>3. /\ DOMAIN t = 1 .. g - 1 /\ DOMAIN s = 1 .. Len(s)
      /\ DOMAIN u = 1 .. Len(s) - g + 1
  BY <1>0, <1>1, <1>2
<1> HIDE DEF t, u
<1>4. WellFormed(t)
  BY <1>1, <1>3 DEF WellFormed
<1>5. \A i \in g .. Len(s) : i - g + 1 \in DOMAIN u /\ u[i - g + 1] = s[i]
  BY <1>0, <1>2, <1>3
<1>6. \A i \in DOMAIN u : g + i - 1 \in DOMAIN s /\ u[i] = s[g + i - 1] /\ g + i - 1 >= g
  BY SMTT(30), <1>0, <1>2, <1>3
<1>7. ASSUME NEW n \in ModulesOf(t) PROVE n \in ModulesOf(s) \ ModulesOf(u)
  <2>1. PICK i \in 1 .. g - 1 : s[i].kind = "module" /\ s[i].name = n
    BY <1>1, <1>3, <1>7 DEF ModulesOf
  <2>2. n \in ModulesOf(s)
    BY <2>1, <1>3, <1>0 DEF ModulesOf
  <2>3. ASSUME n \in ModulesOf(u) PROVE FALSE
    <3>1. PICK j \in DOMAIN u : u[j].kind = "module" /\ u[j].name = n
      BY <2>3 DEF ModulesOf
    <3>2. /\ g + j - 1 \in DOMAIN s /\ g + j - 1 >= g
          /\ s[g + j - 1].kind = "module" /\ s[g + j - 1].name = n
      BY <3>1, <1>6
    <3>3. s[i] = s[g + j - 1]
      BY <2>1, <3>2, <1>0, <1>3, SameFrame
    <3>4. i = g + j - 1
      BY <2>1, <3>2, <3>3, <1>0, <1>3 DEF WellFormed
    <3> QED
      BY <3>4, <3>2, <2>1
  <2> QED
    BY <2>2, <2>3
<1>8. ASSUME NEW n \in ModulesOf(s) \ ModulesOf(u) PROVE n \in ModulesOf(t)
  <2>1. PICK i \in DOMAIN s : s[i].kind = "module" /\ s[i].name = n
    BY <1>8 DEF ModulesOf
  <2>2. i \notin g .. Len(s)
    BY <2>1, <1>5, <1>8 DEF ModulesOf
  <2>3. i \in 1 .. g - 1
    BY <2>1, <2>2, <1>3, <1>0
  <2> QED
    BY <2>1, <2>3, <1>1, <1>3 DEF ModulesOf
<1>9. g > 1 => t # <<>>
  BY <1>1
<1> QED
  BY <1>4, <1>7, <1>8, <1>9 DEF t, u

\* Entering a call, a coroutine or a module that is not being loaded.
LEMMA PushStack ==
    ASSUME NEW s, WellFormed(s), s # <<>>, NEW f \in Frame, f.kind # "entry",
           f.kind = "module" => f.name \in Names \ ModulesOf(s)
    PROVE  /\ WellFormed(Append(s, f)) /\ Append(s, f) # <<>>
           /\ ModulesOf(Append(s, f)) =
                 ModulesOf(s) \cup (IF f.kind = "module" THEN {f.name} ELSE {})
<1> DEFINE t == Append(s, f)
<1>0. s \in Seq(Frame) /\ Len(s) \in Nat /\ Len(s) > 0
  BY DEF WellFormed
<1>1. /\ t \in Seq(Frame) /\ Len(t) = Len(s) + 1
      /\ \A i \in 1 .. Len(s) : t[i] = s[i]
      /\ t[Len(s) + 1] = f
  BY <1>0
<1>2. DOMAIN t = 1 .. Len(s) + 1 /\ DOMAIN s = 1 .. Len(s)
  BY <1>0, <1>1
<1> HIDE DEF t
<1>3. \A i \in DOMAIN s : s[i].kind = "module" => s[i].name \in ModulesOf(s)
  BY DEF ModulesOf
<1>4. \A i, j \in DOMAIN t : t[i].kind = "module" /\ t[i] = t[j] => i = j
  <2> SUFFICES ASSUME NEW i \in DOMAIN t, NEW j \in DOMAIN t, t[i].kind = "module", t[i] = t[j]
               PROVE  i = j
    OBVIOUS
  <2>1. CASE i \in DOMAIN s /\ j \in DOMAIN s
    BY <2>1, <1>1, <1>2 DEF WellFormed
  <2>2. CASE i \in DOMAIN s /\ j = Len(s) + 1
    BY <2>2, <1>1, <1>2, <1>3
  <2>3. CASE i = Len(s) + 1 /\ j \in DOMAIN s
    BY <2>3, <1>1, <1>2, <1>3
  <2>4. CASE i = Len(s) + 1 /\ j = Len(s) + 1
    BY <2>4
  <2> QED
    BY <2>1, <2>2, <2>3, <2>4, <1>2, <1>0
<1>5. \A i \in DOMAIN t : /\ t[i].kind = "entry" <=> i = 1
                          /\ t[i].kind = "module" => t[i].name \in Names
  <2> SUFFICES ASSUME NEW i \in DOMAIN t
               PROVE  /\ t[i].kind = "entry" <=> i = 1
                      /\ t[i].kind = "module" => t[i].name \in Names
    OBVIOUS
  <2>1. CASE i \in DOMAIN s
    BY <2>1, <1>1, <1>2 DEF WellFormed
  <2>2. CASE i = Len(s) + 1
    BY <2>2, <1>0, <1>1
  <2> QED
    BY <2>1, <2>2, <1>2, <1>0
<1>6. ModulesOf(t) = ModulesOf(s) \cup (IF f.kind = "module" THEN {f.name} ELSE {})
  <2>1. ASSUME NEW n \in ModulesOf(t)
        PROVE  n \in ModulesOf(s) \cup (IF f.kind = "module" THEN {f.name} ELSE {})
    <3>1. PICK i \in DOMAIN t : t[i].kind = "module" /\ t[i].name = n
      BY <2>1 DEF ModulesOf
    <3>2. CASE i \in DOMAIN s
      BY <3>1, <3>2, <1>1, <1>2, <1>3
    <3>3. CASE i = Len(s) + 1
      BY <3>1, <3>3, <1>1
    <3> QED
      BY <3>2, <3>3, <1>2, <1>0
  <2>2. ASSUME NEW n \in ModulesOf(s) PROVE n \in ModulesOf(t)
    <3>1. PICK i \in DOMAIN s : s[i].kind = "module" /\ s[i].name = n
      BY <2>2 DEF ModulesOf
    <3>2. i \in DOMAIN t /\ t[i] = s[i]
      BY <1>0, <1>1, <1>2
    <3> QED
      BY <3>1, <3>2 DEF ModulesOf
  <2>3. f.kind = "module" => f.name \in ModulesOf(t)
    <3>1. Len(s) + 1 \in DOMAIN t
      BY <1>0, <1>2
    <3> QED
      BY <3>1, <1>1 DEF ModulesOf
  <2> QED
    BY <2>1, <2>2, <2>3
<1> QED
  BY <1>0, <1>1, <1>4, <1>5, <1>6 DEF WellFormed, t

-----------------------------------------------------------------------------
(* Errors.                                                                 *)

\* A nonempty set of naturals up to n has a greatest element.
LEMMA GreatestExists ==
    ASSUME NEW n \in Nat, NEW X \in SUBSET (0 .. n), X # {}
    PROVE  \E m \in X : \A j \in X : j <= m
<1> DEFINE R == {p \in Nat \X Nat : p[1] < p[2]}
           Y == {n - i : i \in X}
<1>1. IsWellFoundedOn(R, Nat)
  BY NatLessThanWellFounded, Zenon DEF OpToRel
<1>2. Y \in SUBSET Nat /\ Y # {}
  <2>1. \A i \in X : n - i \in Nat
    OBVIOUS
  <2>2. PICK i \in X : TRUE
    OBVIOUS
  <2>3. n - i \in Y
    OBVIOUS
  <2> QED
    BY <2>1, <2>3
<1>3. PICK y \in Y : \A o \in Y : ~ (<<o, y>> \in R)
  <2> HIDE DEF R, Y
  <2> QED BY <1>1, <1>2, WFMin, Zenon
<1>4. PICK m \in X : y = n - m
  OBVIOUS
<1>5. ASSUME NEW j \in X PROVE j <= m
  <2>1. n - j \in Nat /\ n - m \in Nat /\ <<n - j, n - m>> \notin R
    BY <1>2, <1>3, <1>4
  <2>2. ~ (n - j < n - m)
    BY <2>1
  <2>3. n \in Int /\ j \in Int /\ m \in Int
    <3>1. X \subseteq Int
      OBVIOUS
    <3> QED BY <3>1
  <2>4. \A a, b, c \in Int : ~ (a - b < a - c) => b <= c
    OBVIOUS
  <2> HIDE DEF R, Y
  <2> QED BY <2>2, <2>3, <2>4
<1> QED
  BY <1>5

LEMMA InnermostIsGuard ==
    ASSUME WellFormed(stack), Guards # {}
    PROVE  /\ Innermost(Guards) \in 2 .. Len(stack)
           /\ stack[Innermost(Guards)].kind = "guard"
<1>1. stack \in Seq(Frame) /\ Len(stack) \in Nat /\ DOMAIN stack = 1 .. Len(stack)
  BY DEF WellFormed
<1>2. Guards \in SUBSET (0 .. Len(stack))
  BY <1>1 DEF Guards
<1>3. \E m \in Guards : \A j \in Guards : j <= m
  BY <1>1, <1>2, GreatestExists
<1>4. Innermost(Guards) \in Guards
  BY <1>3 DEF Innermost
<1>5. Innermost(Guards) # 1
  BY <1>4, <1>1 DEF Guards, WellFormed
<1> QED
  BY <1>1, <1>4, <1>5 DEF Guards

\* An error, caught or not, leaves a coroutine in order (and the shared world
\* as it is).
LEMMA ThrowStep ==
    ASSUME Inv, running, NEW d \in {depth, depth + 1, depth + 2}, d <= MaxDepth + 1,
           Throw(d, loading)
    PROVE  /\ Coroutine'
           /\ depth' \in 0 .. MaxDepth + 1 /\ loading' \subseteq loading
           /\ world' = world
           /\ thread' \in {"fresh", "suspended", "dead"}
           /\ running' \in BOOLEAN /\ faulted' \in BOOLEAN
           /\ running' \/ thread' = "dead"
<1>1. /\ depth \in Nat /\ d \in Nat /\ d >= depth /\ MaxDepth \in Nat
      /\ stack \in Seq(Frame) /\ Len(stack) \in Nat /\ CallsIn(stack) \in Nat
      /\ CallsIn(stack) <= depth /\ WellFormed(stack) /\ loading = ModulesOf(stack)
      /\ running /\ thread \in {"fresh", "suspended"} /\ faulted \in BOOLEAN
  BY LimitsAssumption, DoublesFinite DEF Inv, TypeOK, Coroutine, WellFormed, ValidLimits
<1>2. CASE Guards # {}
  <2> DEFINE g == Innermost(Guards)
  <2>1. /\ stack' = SubSeq(stack, 1, g - 1)
        /\ loading' = loading \ ModulesOf(SubSeq(stack, g, Len(stack)))
        /\ depth' = Less(d, 1)
        /\ UNCHANGED <<world, running, thread, faulted>>
    BY <1>2 DEF Throw, LoadingAfter, DepthAfter
  <2>2. g \in 2 .. Len(stack) /\ stack[g].kind = "guard"
    BY <1>1, <1>2, InnermostIsGuard
  <2> HIDE DEF g
  <2>3. g \in 1 .. Len(stack) /\ Calls(stack[g]) = 2
    BY <2>2 DEF Calls
  <2>4. CallsIn(stack') \in Nat /\ CallsIn(stack') + 2 <= CallsIn(stack)
    BY <1>1, <2>1, <2>3, CutCounts
  <2>5. depth' = d - 1 /\ depth' \in Nat /\ CallsIn(stack') <= depth' /\ depth' <= MaxDepth
    BY <1>1, <2>1, <2>4 DEF Less
  <2>6. WellFormed(stack') /\ loading' = ModulesOf(stack') /\ stack' # <<>>
    <3>1. /\ WellFormed(SubSeq(stack, 1, g - 1)) /\ SubSeq(stack, 1, g - 1) # <<>>
          /\ ModulesOf(SubSeq(stack, 1, g - 1)) =
                ModulesOf(stack) \ ModulesOf(SubSeq(stack, g, Len(stack)))
      BY <1>1, <2>2, <2>3, CutStack
    <3> QED
      BY <1>1, <2>1, <3>1, Zenon
  <2>7. Coroutine'
    BY <1>1, <2>1, <2>5, <2>6 DEF Coroutine
  <2> QED
    BY <1>1, <2>1, <2>5, <2>7
<1>3. CASE Guards = {}
  <2>1. /\ stack' = <<>> /\ loading' = loading \ ModulesOf(stack)
        /\ depth' = d /\ world' = world /\ running' = FALSE /\ thread' = "dead"
        /\ faulted' = TRUE
    BY <1>3 DEF Throw, LoadingAfter, WorldAfterError
  <2>2. loading' = {}
    BY <1>1, <2>1
  <2>3. WellFormed(stack') /\ ModulesOf(stack') = {} /\ CallsIn(stack') = 0
    BY <2>1, EmptyStack
  <2>4. Coroutine'
    BY <1>1, <2>1, <2>2, <2>3 DEF Coroutine
  <2>5. depth' \in 0 .. MaxDepth + 1
    BY <1>1, <2>1
  <2> QED
    BY <2>1, <2>2, <2>4, <2>5, Zenon
<1> QED
  BY <1>2, <1>3

\* What an error changes of the rest of the state: nothing.
LEMMA ErrorStep ==
    ASSUME Inv, running, NEW d \in {depth, depth + 1, depth + 2}, d <= MaxDepth + 1,
           Throw(d, loading), UNCHANGED <<hostWorld, outside, loaded, completed>>,
           instructions' \in 0 .. MaxInstructions + 1, outputBytes' = outputBytes,
           sourceBytes' \in 0 .. MaxSourceBytes, IsFiniteSet(loadedPaths'),
           loadedPaths' \subseteq Paths, Cardinality(loadedPaths') <= MaxModules
    PROVE  Inv'
<1>1. /\ Coroutine'
      /\ depth' \in 0 .. MaxDepth + 1 /\ loading' \subseteq loading
      /\ world' = world
      /\ thread' \in {"fresh", "suspended", "dead"}
      /\ running' \in BOOLEAN /\ faulted' \in BOOLEAN
  BY ThrowStep
<1>2. TypeOK'
  BY <1>1 DEF Inv, TypeOK, outside
<1>3. Modules'
  BY <1>1 DEF Inv, Modules, ModuleCompletesOnce
<1>4. (saved # NoSnapshot => saved \in Snapshot)' /\ (running => world = begun)'
  BY <1>1 DEF Inv, outside
<1> QED
  BY <1>1, <1>2, <1>3, <1>4 DEF Inv

-----------------------------------------------------------------------------
(* Between two invocations.                                                *)

LEMMA InitInv == Init => Inv
<1> SUFFICES ASSUME Init PROVE Inv
  OBVIOUS
<1>1. MaxDepth \in Nat \ {0} /\ MaxModules \in Nat \ {0} /\ MaxOutput \in Nat
      /\ MaxInstructions \in Nat /\ MaxSourceBytes \in Nat
  BY LimitsAssumption DEF ValidLimits
<1>2. IsFiniteSet({}) /\ Cardinality({}) = 0
  BY FS_EmptySet
<1>3. TypeOK
  <2>1. world \in [Cells -> Values] /\ hostWorld \in [Cells -> Values]
    BY LimitsAssumption DEF Init
  <2>2. sourceBytes \in 0 .. MaxSourceBytes
    BY LimitsAssumption DEF Init
  <2>3. Cardinality(loadedPaths) <= MaxModules
    BY <1>1, <1>2 DEF Init
  <2>4. /\ tick \in Nat /\ wake \in Nat
        /\ depth \in 0 .. MaxDepth + 1 /\ outputBytes \in 0 .. MaxOutput
        /\ instructions \in 0 .. MaxInstructions + 1
    BY <1>1 DEF Init
  <2>5. /\ running \in BOOLEAN /\ faulted \in BOOLEAN
        /\ state \in {"Ready", "Waiting"} /\ thread \in {"fresh", "suspended", "dead"}
        /\ loaded \subseteq Names /\ loading \subseteq Names /\ loadedPaths \subseteq Paths
    BY DEF Init
  <2> QED
    BY <2>1, <2>2, <2>3, <2>4, <2>5 DEF TypeOK
<1>4. Coroutine
  BY <1>1, EmptyStack DEF Init, Coroutine
<1>5. Modules
  BY <1>2 DEF Init, Modules, ModuleCompletesOnce
<1> QED
  BY <1>3, <1>4, <1>5 DEF Init, Inv

\* The coroutine does not see what happens between its invocations.
LEMMA CoroutineKept ==
    ASSUME Inv, UNCHANGED <<stack, loading, running, thread, depth>>
    PROVE  Coroutine'
BY DEF Inv, Coroutine

LEMMA ModulesKept ==
    ASSUME Inv, UNCHANGED <<loaded, loading, loadedPaths, completed>>
    PROVE  Modules'
BY DEF Inv, Modules, ModuleCompletesOnce

LEMMA WriteWorldStep ==
    ASSUME Inv, NEW c \in Cells, NEW v \in Values, WriteWorld(c, v)
    PROVE  Inv'
<1>1. world' \in [Cells -> Values]
  BY DEF WriteWorld, Inv, TypeOK
<1>2. TypeOK'
  BY <1>1 DEF WriteWorld, Inv, TypeOK, scheduling, budgets, resolver
<1>3. Coroutine' /\ Modules'
  BY CoroutineKept, ModulesKept DEF WriteWorld, scheduling, resolver
<1> QED
  BY <1>2, <1>3 DEF WriteWorld, Inv

LEMMA ResumeStep ==
    ASSUME Inv, Resume PROVE Inv'
<1>1. /\ ~running /\ running' = TRUE /\ hostWorld' = world /\ begun' = world
      /\ UNCHANGED <<world, tick, state, wake, thread, instructions, outputBytes, loaded,
                     loadedPaths, sourceBytes, completed, loading, faulted, saved>>
      /\ depth \in Nat /\ MaxDepth \in Nat
  BY LimitsAssumption DEF Resume, scheduling, budgets, resolver, Inv, TypeOK, ValidLimits
<1>2. Coroutine' /\ depth' \in 0 .. MaxDepth + 1
  <2>1. CASE thread = "suspended" /\ UNCHANGED <<stack, depth>>
    <3>1. CallsIn(stack) <= depth /\ depth <= MaxDepth /\ WellFormed(stack)
      BY <2>1 DEF Inv, Coroutine
    <3>2. stack # <<>>
      BY <2>1 DEF Inv, Coroutine
    <3> QED
      BY <1>1, <2>1, <3>1, <3>2 DEF Inv, Coroutine
  <2>2. CASE thread = "fresh" /\ stack' = <<Entry>> /\ depth' = depth + 1
    <3>1. stack = <<>> /\ depth < MaxDepth /\ loading = {} /\ CallsIn(stack) = 0
      BY <1>1, <2>2, EmptyStack DEF Inv, Coroutine
    <3>2. WellFormed(stack') /\ ModulesOf(stack') = {} /\ CallsIn(stack') = 1
      BY <2>2, EntryStack
    <3>3. stack' # <<>>
      BY <2>2
    <3>4. CallsIn(stack') <= depth' /\ depth' <= MaxDepth /\ depth' \in 0 .. MaxDepth + 1
      BY <1>1, <2>2, <3>1, <3>2
    <3> QED
      BY <1>1, <2>2, <3>1, <3>2, <3>3, <3>4 DEF Coroutine
  <2> QED
    BY <2>1, <2>2 DEF Resume
<1>3. TypeOK'
  BY <1>1, <1>2 DEF Inv, TypeOK
<1>4. Modules'
  BY <1>1, ModulesKept
<1> QED
  BY <1>1, <1>2, <1>3, <1>4 DEF Inv

LEMMA IdleSteps ==
    ASSUME Inv, ResumeFails \/ BeginTick \/ TakeSnapshot \/ Restore PROVE Inv'
<1>1. /\ ~running
      /\ UNCHANGED <<thread, running, stack, depth, instructions, outputBytes, loaded,
                     loadedPaths, sourceBytes, completed, loading>>
  BY DEF ResumeFails, BeginTick, TakeSnapshot, Restore, scheduling, budgets, resolver
<1>2. Coroutine' /\ Modules'
  BY <1>1, CoroutineKept, ModulesKept
<1>3. /\ world' \in [Cells -> Values] /\ hostWorld' \in [Cells -> Values]
      /\ tick' \in Nat /\ wake' \in Nat /\ state' \in {"Ready", "Waiting"}
      /\ faulted' \in BOOLEAN /\ (saved' # NoSnapshot => saved' \in Snapshot)
  <2>1. CASE ResumeFails
    BY <2>1 DEF ResumeFails, Inv, TypeOK, scheduling
  <2>2. CASE BeginTick
    BY <2>2 DEF BeginTick, Inv, TypeOK
  <2>3. CASE TakeSnapshot
    BY <2>3 DEF TakeSnapshot, Inv, TypeOK, scheduling, Snapshot
  <2>4. CASE Restore
    BY <2>4 DEF Restore, Inv, TypeOK, Snapshot
  <2> QED
    BY <2>1, <2>2, <2>3, <2>4
<1>4. TypeOK'
  BY <1>1, <1>3 DEF Inv, TypeOK
<1> QED
  BY <1>1, <1>2, <1>3, <1>4 DEF Inv

-----------------------------------------------------------------------------
(* What a running program does.                                            *)

LEMMA WriteStep ==
    ASSUME Inv, NEW c \in Cells, NEW v \in Values, WriteDevice(c, v) \/ WriteChannel(c, v)
    PROVE  Inv'
<1>1. /\ hostWorld' = [hostWorld EXCEPT ![c] = v]
      /\ UNCHANGED <<world, tick, state, wake, saved, begun, running, thread, stack, depth,
                     instructions, outputBytes, loaded, loadedPaths, sourceBytes, completed,
                     loading, faulted>>
  BY DEF WriteDevice, WriteChannel, outside, budgets, resolver
<1>2. hostWorld' \in [Cells -> Values]
  BY <1>1 DEF Inv, TypeOK
<1>3. TypeOK'
  BY <1>1, <1>2 DEF Inv, TypeOK
<1>4. Coroutine' /\ Modules'
  BY <1>1, CoroutineKept, ModulesKept
<1> QED
  BY <1>1, <1>3, <1>4 DEF Inv

\* The counters of a running program are within reach of their limits.
LEMMA RunningDepth ==
    ASSUME Inv, running
    PROVE  /\ depth \in Nat /\ MaxDepth \in Nat /\ depth <= MaxDepth
           /\ stack # <<>> /\ WellFormed(stack) /\ CallsIn(stack) \in Nat
           /\ CallsIn(stack) <= depth /\ thread \in {"fresh", "suspended"}
           /\ instructions \in 0 .. MaxInstructions + 1 /\ MaxInstructions \in Nat
           /\ sourceBytes \in 0 .. MaxSourceBytes /\ IsFiniteSet(loadedPaths)
           /\ loadedPaths \subseteq Paths /\ Cardinality(loadedPaths) <= MaxModules
BY LimitsAssumption, DoublesFinite
   DEF Inv, TypeOK, Coroutine, Modules, WellFormed, ValidLimits

LEMMA RaisesStep ==
    ASSUME Inv, HostRaises \/ DeniedCall PROVE Inv'
<1>1. PICK d \in {depth, depth + 1} : Raises(d)
  BY DEF HostRaises, DeniedCall
<1>2. /\ running /\ Throw(d, loading)
      /\ UNCHANGED <<hostWorld, outside, instructions, outputBytes, loaded, loadedPaths,
                     sourceBytes, completed>>
  BY <1>1 DEF Raises, budgets, resolver
<1>3. d \in {depth, depth + 1, depth + 2} /\ d <= MaxDepth + 1
  BY <1>1, <1>2, RunningDepth
<1>4. /\ instructions' \in 0 .. MaxInstructions + 1
      /\ sourceBytes' \in 0 .. MaxSourceBytes /\ IsFiniteSet(loadedPaths')
      /\ loadedPaths' \subseteq Paths /\ Cardinality(loadedPaths') <= MaxModules
  BY <1>2, RunningDepth
<1> QED
  BY <1>2, <1>3, <1>4, ErrorStep

LEMMA CountStep ==
    ASSUME Inv, CountInstructions PROVE Inv'
<1>1. /\ running
      /\ UNCHANGED <<hostWorld, outside, outputBytes, loaded, loadedPaths, sourceBytes,
                     completed>>
  BY DEF CountInstructions, resolver
<1>2. CASE /\ instructions < MaxInstructions /\ instructions' = instructions + 1
           /\ UNCHANGED <<world, running, thread, stack, loading, faulted, depth>>
  <2>1. instructions' \in 0 .. MaxInstructions + 1
    BY <1>1, <1>2, RunningDepth
  <2>2. TypeOK'
    BY <1>1, <1>2, <2>1 DEF Inv, TypeOK, outside
  <2>3. Coroutine' /\ Modules'
    BY <1>1, <1>2, CoroutineKept, ModulesKept
  <2> QED
    BY <1>1, <1>2, <2>2, <2>3 DEF Inv, outside
<1>3. CASE instructions' = MaxInstructions + 1 /\ Throw(depth, loading)
  <2>1. depth \in {depth, depth + 1, depth + 2} /\ depth <= MaxDepth + 1
    BY <1>1, RunningDepth
  <2>2. /\ instructions' \in 0 .. MaxInstructions + 1
        /\ sourceBytes' \in 0 .. MaxSourceBytes /\ IsFiniteSet(loadedPaths')
        /\ loadedPaths' \subseteq Paths /\ Cardinality(loadedPaths') <= MaxModules
    BY <1>1, <1>3, RunningDepth
  <2> QED
    BY <1>1, <1>3, <2>1, <2>2, ErrorStep
<1> QED
  BY <1>2, <1>3 DEF CountInstructions

LEMMA PrintStep ==
    ASSUME Inv, PrintLine PROVE Inv'
<1>1. /\ running /\ depth < MaxDepth
      /\ UNCHANGED <<hostWorld, outside, instructions, loaded, loadedPaths, sourceBytes,
                     completed>>
  BY DEF PrintLine, resolver
<1>2. CASE /\ outputBytes < MaxOutput /\ outputBytes' = outputBytes + 1
           /\ UNCHANGED <<world, running, thread, stack, loading, faulted, depth>>
  <2>1. outputBytes' \in 0 .. MaxOutput
    BY <1>2, LimitsAssumption DEF Inv, TypeOK, ValidLimits
  <2>2. TypeOK'
    BY <1>1, <1>2, <2>1 DEF Inv, TypeOK, outside
  <2>3. Coroutine' /\ Modules'
    BY <1>1, <1>2, CoroutineKept, ModulesKept
  <2> QED
    BY <1>1, <1>2, <2>2, <2>3 DEF Inv, outside
<1>3. CASE outputBytes' = outputBytes /\ Throw(depth + 1, loading)
  <2>1. depth + 1 \in {depth, depth + 1, depth + 2} /\ depth + 1 <= MaxDepth + 1
    BY <1>1, RunningDepth
  <2>2. /\ instructions' \in 0 .. MaxInstructions + 1
        /\ sourceBytes' \in 0 .. MaxSourceBytes /\ IsFiniteSet(loadedPaths')
        /\ loadedPaths' \subseteq Paths /\ Cardinality(loadedPaths') <= MaxModules
    BY <1>1, RunningDepth
  <2> QED
    BY <1>1, <1>3, <2>1, <2>2, ErrorStep
<1> QED
  BY <1>2, <1>3 DEF PrintLine

\* A step of the running coroutine that raises no error.
LEMMA StackStep ==
    ASSUME Inv, running, Coroutine', depth' \in 0 .. MaxDepth + 1,
           UNCHANGED <<world, hostWorld, outside, running, thread, budgets, faulted>>,
           sourceBytes' \in 0 .. MaxSourceBytes, Modules',
           loaded' \subseteq Names, loading' \subseteq Names,
           loadedPaths' \subseteq Paths, Cardinality(loadedPaths') <= MaxModules
    PROVE  Inv'
<1>1. TypeOK'
  BY DEF Inv, TypeOK, outside, budgets
<1> QED
  BY <1>1 DEF Inv, outside

\* Its counterpart when require is not involved.
LEMMA PlainStackStep ==
    ASSUME Inv, running, Coroutine', depth' \in 0 .. MaxDepth + 1,
           UNCHANGED <<world, hostWorld, outside, running, thread, budgets, faulted>>,
           UNCHANGED resolver, loading' = loading
    PROVE  Inv'
<1>1. Modules'
  BY ModulesKept DEF resolver
<1>2. /\ sourceBytes' \in 0 .. MaxSourceBytes
      /\ loaded' \subseteq Names /\ loading' \subseteq Names
      /\ loadedPaths' \subseteq Paths /\ Cardinality(loadedPaths') <= MaxModules
  BY DEF resolver, Inv, TypeOK
<1> QED
  BY <1>1, <1>2, StackStep

LEMMA PlainFrames ==
    /\ Call \in Frame /\ Call.kind = "call" /\ Calls(Call) = 1
    /\ Guard \in Frame /\ Guard.kind = "guard" /\ Calls(Guard) = 2
BY DEF Call, Guard, Frame, Kinds, Calls

LEMMA CallStep ==
    ASSUME Inv, CallFunction PROVE Inv'
<1>1. running /\ UNCHANGED <<hostWorld, outside, budgets, resolver>>
  BY DEF CallFunction
<1>2. CASE depth < MaxDepth
  <2>1. /\ stack' = Append(stack, Call) /\ depth' = depth + 1
        /\ UNCHANGED <<world, running, thread, loading, faulted>>
    BY <1>2 DEF CallFunction
  <2>2. WellFormed(stack') /\ stack' # <<>> /\ ModulesOf(stack') = ModulesOf(stack)
    BY <1>1, <2>1, PlainFrames, PushStack, RunningDepth
  <2>3. stack \in Seq(Frame) /\ Calls(Call) = 1
    BY PlainFrames DEF Inv, Coroutine, WellFormed
  <2>4. CallsIn(stack') = CallsIn(stack) + 1
    BY <2>1, <2>3, PlainFrames, PushCounts
  <2>5. CallsIn(stack') <= depth' /\ depth' <= MaxDepth /\ depth' \in 0 .. MaxDepth + 1
    BY <1>1, <1>2, <2>1, <2>4, RunningDepth
  <2>6. Coroutine'
    BY <1>1, <2>1, <2>2, <2>5 DEF Inv, Coroutine
  <2> QED
    BY <1>1, <2>1, <2>5, <2>6, PlainStackStep
<1>3. CASE ~ (depth < MaxDepth)
  <2>1. Throw(depth + 1, loading)
    BY <1>3 DEF CallFunction
  <2>2. depth + 1 \in {depth, depth + 1, depth + 2} /\ depth + 1 <= MaxDepth + 1
    BY <1>1, RunningDepth
  <2>3. /\ instructions' \in 0 .. MaxInstructions + 1
        /\ sourceBytes' \in 0 .. MaxSourceBytes /\ IsFiniteSet(loadedPaths')
        /\ loadedPaths' \subseteq Paths /\ Cardinality(loadedPaths') <= MaxModules
    BY <1>1, RunningDepth DEF budgets, resolver
  <2> QED
    BY <1>1, <2>1, <2>2, <2>3, ErrorStep DEF budgets, resolver
<1> QED
  BY <1>2, <1>3

LEMMA CoroutineStep ==
    ASSUME Inv, ResumeCoroutine PROVE Inv'
<1>1. /\ running /\ depth < MaxDepth
      /\ UNCHANGED <<world, hostWorld, outside, running, thread, budgets, resolver,
                     loading, faulted>>
  BY DEF ResumeCoroutine
<1>2. CASE depth + 2 <= MaxDepth
  <2>1. stack' = Append(stack, Guard) /\ depth' = depth + 2
    BY <1>2 DEF ResumeCoroutine
  <2>2. WellFormed(stack') /\ stack' # <<>> /\ ModulesOf(stack') = ModulesOf(stack)
    BY <1>1, <2>1, PlainFrames, PushStack, RunningDepth
  <2>3. stack \in Seq(Frame)
    BY DEF Inv, Coroutine, WellFormed
  <2>4. CallsIn(stack') = CallsIn(stack) + 2
    BY <2>1, <2>3, PlainFrames, PushCounts
  <2>5. CallsIn(stack') <= depth' /\ depth' <= MaxDepth /\ depth' \in 0 .. MaxDepth + 1
    BY <1>1, <1>2, <2>1, <2>4, RunningDepth
  <2>6. Coroutine'
    BY <1>1, <2>1, <2>2, <2>5 DEF Inv, Coroutine
  <2> QED
    BY <1>1, <2>5, <2>6, PlainStackStep
<1>3. CASE ~ (depth + 2 <= MaxDepth)
  <2>1. stack' = stack /\ depth' = Less(depth + 2, 1)
    BY <1>3 DEF ResumeCoroutine, DepthAfter
  <2>2. CallsIn(stack') <= depth' /\ depth' <= MaxDepth /\ depth' \in 0 .. MaxDepth + 1
    BY <1>1, <1>3, <2>1, RunningDepth DEF Less
  <2>3. Coroutine'
    BY <1>1, <2>1, <2>2 DEF Inv, Coroutine
  <2> QED
    BY <1>1, <2>2, <2>3, PlainStackStep
<1> QED
  BY <1>2, <1>3

\* A yield cuts the stack below its coroutine; no module is lost with it.
LEMMA YieldStep ==
    ASSUME Inv, CoroutineYields PROVE Inv'
<1> DEFINE g == Innermost(Guards)
<1>1. /\ running /\ Guards # {}
      /\ ModulesOf(SubSeq(stack, g, Len(stack))) = {}
      /\ stack' = SubSeq(stack, 1, g - 1)
      /\ UNCHANGED <<world, hostWorld, outside, running, thread, depth, budgets, resolver,
                     loading, faulted>>
  BY DEF CoroutineYields
<1>2. g \in 2 .. Len(stack)
  BY <1>1, RunningDepth, InnermostIsGuard
<1> HIDE DEF g
<1>3. stack \in Seq(Frame) /\ WellFormed(stack) /\ Len(stack) \in Nat
  BY DEF Inv, Coroutine, WellFormed
<1>4. g \in 1 .. Len(stack) /\ g > 1
  BY <1>2, <1>3
<1>5. WellFormed(stack') /\ stack' # <<>> /\ ModulesOf(stack') = ModulesOf(stack)
  <2>1. /\ WellFormed(SubSeq(stack, 1, g - 1)) /\ SubSeq(stack, 1, g - 1) # <<>>
        /\ ModulesOf(SubSeq(stack, 1, g - 1)) =
              ModulesOf(stack) \ ModulesOf(SubSeq(stack, g, Len(stack)))
    BY <1>3, <1>4, CutStack
  <2>2. ModulesOf(SubSeq(stack, 1, g - 1)) = ModulesOf(stack)
    BY <1>1, <2>1
  <2> QED
    BY <1>1, <2>1, <2>2, Zenon
<1>6. CallsIn(stack') \in Nat /\ CallsIn(stack') + Calls(stack[g]) <= CallsIn(stack)
  BY <1>1, <1>3, <1>4, CutCounts
<1>7. CallsIn(stack') <= depth' /\ depth' <= MaxDepth /\ depth' \in 0 .. MaxDepth + 1
  BY <1>1, <1>6, RunningDepth, CallsType
<1>8. Coroutine'
  BY <1>1, <1>5, <1>7 DEF Inv, Coroutine
<1> QED
  BY <1>1, <1>7, <1>8, PlainStackStep

\* The frame on top of a stack that is not the entry script's leaves a stack.
LEMMA PopStack ==
    ASSUME Inv, running, Top.kind # "entry"
    PROVE  /\ Len(stack) \in 2 .. Len(stack) /\ Len(stack) \in 1 .. Len(stack)
           /\ stack \in Seq(Frame) /\ WellFormed(stack)
           /\ WellFormed(Below) /\ Below # <<>>
           /\ ModulesOf(Below) = ModulesOf(stack) \ ModulesOf(<<Top>>)
           /\ CallsIn(Below) \in Nat /\ CallsIn(Below) <= Less(depth, Calls(Top))
           /\ Less(depth, Calls(Top)) \in 0 .. MaxDepth /\ MaxDepth \in Nat
<1>1. /\ stack \in Seq(Frame) /\ WellFormed(stack) /\ Len(stack) \in Nat /\ stack # <<>>
      /\ depth \in Nat /\ MaxDepth \in Nat /\ depth <= MaxDepth /\ CallsIn(stack) \in Nat
      /\ CallsIn(stack) <= depth
  BY RunningDepth DEF WellFormed
<1>2. Len(stack) \in 1 .. Len(stack) /\ Len(stack) > 1
  <2>1. Len(stack) # 0
    BY <1>1
  <2>2. Len(stack) # 1
    BY <1>1 DEF Top, WellFormed
  <2>3. \A n \in Nat : n # 0 /\ n # 1 => n \in 1 .. n /\ n > 1
    OBVIOUS
  <2> QED
    BY <1>1, <2>1, <2>2, <2>3, Zenon
<1>3. SubSeq(stack, Len(stack), Len(stack)) = <<Top>>
  <2> DEFINE u == SubSeq(stack, Len(stack), Len(stack))
  <2>1. u \in Seq(Frame) /\ Len(u) = 1 /\ u[1] = Top
    BY <1>1, <1>2 DEF Top
  <2>2. Top \in Frame
    BY <1>1, <1>2 DEF Top
  <2> HIDE DEF u
  <2>3. /\ <<Top>> \in Seq(Frame) /\ Len(<<Top>>) = 1 /\ <<Top>>[1] = Top
    BY <2>2
  <2>4. \A i \in 1 .. Len(u) : u[i] = <<Top>>[i]
    BY <2>1, <2>3
  <2>5. u = <<Top>>
    BY <2>1, <2>3, <2>4, SeqEqual
  <2> QED
    BY <2>5 DEF u
<1>4. /\ WellFormed(Below) /\ Below # <<>>
      /\ ModulesOf(Below) = ModulesOf(stack) \ ModulesOf(<<Top>>)
  BY <1>1, <1>2, <1>3, CutStack DEF Below
<1>5. CallsIn(Below) \in Nat /\ CallsIn(Below) + Calls(Top) <= CallsIn(stack)
  BY <1>1, <1>2, CutCounts DEF Below, Top
<1>6. CallsIn(Below) <= Less(depth, Calls(Top)) /\ Less(depth, Calls(Top)) \in 0 .. MaxDepth
  BY <1>1, <1>5, CallsType DEF Less
<1> QED
  BY <1>1, <1>2, <1>4, <1>5, <1>6

LEMMA ReturnStep ==
    ASSUME Inv, ReturnFunction PROVE Inv'
<1>1. /\ running /\ Top.kind \in {"call", "guard"}
      /\ stack' = Below /\ depth' = Less(depth, Calls(Top))
      /\ UNCHANGED <<world, hostWorld, outside, running, thread, budgets, resolver, loading,
                     faulted>>
  BY DEF ReturnFunction
<1>2. ModulesOf(<<Top>>) = {}
  BY <1>1 DEF ModulesOf
<1>3. WellFormed(stack') /\ stack' # <<>> /\ ModulesOf(stack') = ModulesOf(stack)
  BY <1>1, <1>2, PopStack
<1>4. CallsIn(stack') <= depth' /\ depth' <= MaxDepth /\ depth' \in 0 .. MaxDepth + 1
  BY <1>1, PopStack
<1>5. Coroutine'
  BY <1>1, <1>3, <1>4 DEF Inv, Coroutine
<1> QED
  BY <1>1, <1>4, <1>5, PlainStackStep

-----------------------------------------------------------------------------
(* require.                                                                *)

\* A module that is not refused has one file, and there is room for it.
LEMMA PathTaken ==
    ASSUME Inv, running, NEW n \in Names, ~Refused(n),
           loadedPaths' = loadedPaths \cup Files[n]
    PROVE  /\ n \notin loading
           /\ IsFiniteSet(loadedPaths') /\ loadedPaths' \subseteq Paths
           /\ Cardinality(loadedPaths') <= MaxModules
           /\ \E p \in Paths : Files[n] = {p}
<1>1. /\ IsFiniteSet(loadedPaths) /\ loadedPaths \subseteq Paths
      /\ Cardinality(loadedPaths) <= MaxModules /\ MaxModules \in Nat
      /\ IsFiniteSet(Files[n]) /\ Cardinality(Files[n]) = 1 /\ n \notin loading
      /\ Files[n] \cap loadedPaths # {} \/ ~ (Cardinality(loadedPaths) >= MaxModules)
  BY RunningDepth, LimitsAssumption DEF ValidLimits, Refused, Resolves
<1>2. PICK p : Files[n] = {p}
  BY <1>1, FS_Singleton
<1>3. p \in Paths
  BY <1>2 DEF Paths
<1>4. /\ IsFiniteSet(loadedPaths \cup {p})
      /\ Cardinality(loadedPaths \cup {p}) =
            IF p \in loadedPaths THEN Cardinality(loadedPaths) ELSE Cardinality(loadedPaths) + 1
      /\ Cardinality(loadedPaths) \in Nat
  BY <1>1, FS_AddElement, FS_CardinalityType
<1>5. p \in loadedPaths \/ Cardinality(loadedPaths) + 1 <= MaxModules
  BY <1>1, <1>2, <1>4
<1>6. Cardinality(loadedPaths \cup {p}) <= MaxModules
  BY <1>1, <1>4, <1>5
<1> QED
  BY <1>1, <1>2, <1>3, <1>4, <1>6

LEMMA RefusedStep ==
    ASSUME Inv, NEW n \in Names, RequireRefused(n) PROVE Inv'
<1>1. /\ running /\ depth < MaxDepth /\ Throw(depth + 1, loading)
      /\ UNCHANGED <<hostWorld, outside, budgets, resolver>>
  BY DEF RequireRefused
<1>2. depth + 1 \in {depth, depth + 1, depth + 2} /\ depth + 1 <= MaxDepth + 1
  BY <1>1, RunningDepth
<1>3. /\ instructions' \in 0 .. MaxInstructions + 1
      /\ sourceBytes' \in 0 .. MaxSourceBytes /\ IsFiniteSet(loadedPaths')
      /\ loadedPaths' \subseteq Paths /\ Cardinality(loadedPaths') <= MaxModules
  BY <1>1, RunningDepth DEF budgets, resolver
<1> QED
  BY <1>1, <1>2, <1>3, ErrorStep DEF budgets, resolver

LEMMA UnreadableStep ==
    ASSUME Inv, NEW n \in Names, RequireUnreadable(n) PROVE Inv'
<1>1. /\ running /\ depth < MaxDepth /\ ~Refused(n) /\ Throw(depth + 1, loading)
      /\ loadedPaths' = loadedPaths \cup Files[n]
      /\ UNCHANGED <<hostWorld, outside, budgets, loaded, sourceBytes, completed>>
  BY DEF RequireUnreadable, NamesAfterRead
<1>2. depth + 1 \in {depth, depth + 1, depth + 2} /\ depth + 1 <= MaxDepth + 1
  BY <1>1, RunningDepth
<1>3. /\ instructions' \in 0 .. MaxInstructions + 1
      /\ sourceBytes' \in 0 .. MaxSourceBytes
  BY <1>1, RunningDepth DEF budgets
<1>4. /\ IsFiniteSet(loadedPaths') /\ loadedPaths' \subseteq Paths
      /\ Cardinality(loadedPaths') <= MaxModules
  BY <1>1, PathTaken
<1> QED
  BY <1>1, <1>2, <1>3, <1>4, ErrorStep DEF budgets

LEMMA LoadsStep ==
    ASSUME Inv, NEW n \in Names, RequireLoads(n) PROVE Inv'
<1>1. /\ running /\ depth < MaxDepth /\ n \notin loaded /\ ~Refused(n) /\ Fits(n)
      /\ loadedPaths' = loadedPaths \cup Files[n]
      /\ \E p \in Files[n] : sourceBytes' = sourceBytes + Size[p]
      /\ UNCHANGED <<hostWorld, outside, budgets, loaded, completed>>
  BY DEF RequireLoads
<1>2. /\ IsFiniteSet(loadedPaths') /\ loadedPaths' \subseteq Paths
      /\ Cardinality(loadedPaths') <= MaxModules /\ n \notin loading
  BY <1>1, PathTaken
<1>3. sourceBytes' \in 0 .. MaxSourceBytes
  <2>1. PICK p \in Files[n] : sourceBytes' = sourceBytes + Size[p]
    BY <1>1
  <2>2. Size[p] \in Nat /\ sourceBytes \in Nat /\ MaxSourceBytes \in Nat
    BY LimitsAssumption DEF Paths, ValidLimits, Inv, TypeOK
  <2>3. sourceBytes + Size[p] <= MaxSourceBytes
    BY <1>1 DEF Fits
  <2> QED
    BY <2>1, <2>2, <2>3
<1>4. instructions' \in 0 .. MaxInstructions + 1
  BY <1>1, RunningDepth DEF budgets
<1>5. ASSUME NEW d \in {depth + 1, depth + 2}, d <= MaxDepth + 1, Throw(d, loading) PROVE Inv'
  BY <1>1, <1>2, <1>3, <1>4, <1>5, ErrorStep DEF budgets
<1>6. depth + 1 <= MaxDepth + 1 /\ depth + 2 <= MaxDepth + 1
  BY <1>1, RunningDepth
<1>7. CASE /\ depth + 2 <= MaxDepth
           /\ loading' = loading \cup {n}
           /\ stack' = Append(stack, Module(n)) /\ depth' = depth + 2
           /\ UNCHANGED <<world, running, thread, faulted>>
  <2>1. /\ Module(n) \in Frame /\ Module(n).kind = "module" /\ Module(n).name = n
        /\ Calls(Module(n)) = 2
    BY DEF Module, Frame, Kinds, Calls
  <2>2. stack \in Seq(Frame) /\ WellFormed(stack) /\ loading = ModulesOf(stack)
    BY DEF Inv, Coroutine, WellFormed
  <2>3. /\ WellFormed(stack') /\ stack' # <<>>
        /\ ModulesOf(stack') = ModulesOf(stack) \cup {n}
    BY <1>1, <1>2, <1>7, <2>1, <2>2, PushStack, RunningDepth
  <2>4. CallsIn(stack') = CallsIn(stack) + 2
    BY <1>7, <2>1, <2>2, PushCounts
  <2>5. CallsIn(stack') <= depth' /\ depth' <= MaxDepth /\ depth' \in 0 .. MaxDepth + 1
    BY <1>1, <1>7, <2>4, RunningDepth
  <2>6. Coroutine'
    BY <1>1, <1>7, <2>2, <2>3, <2>5 DEF Inv, Coroutine
  <2>7. Modules'
    BY <1>1, <1>2, <1>7 DEF Inv, Modules, ModuleCompletesOnce
  <2>8. loaded' \subseteq Names /\ loading' \subseteq Names
    BY <1>1, <1>7 DEF Inv, TypeOK
  <2> QED
    BY <1>1, <1>2, <1>3, <1>7, <2>5, <2>6, <2>7, <2>8, StackStep
<1> QED
  BY <1>5, <1>6, <1>7 DEF RequireLoads

LEMMA ModuleReturnsStep ==
    ASSUME Inv, ModuleReturns PROVE Inv'
<1> DEFINE n == Top.name
<1>1. /\ running /\ Top.kind = "module"
      /\ loaded' = loaded \cup {n} /\ loading' = loading \ {n}
      /\ completed' = [completed EXCEPT ![n] = @ + 1]
      /\ stack' = Below /\ depth' = Less(depth, Calls(Top))
      /\ UNCHANGED <<world, hostWorld, outside, running, thread, budgets, loadedPaths,
                     sourceBytes, faulted>>
  BY DEF ModuleReturns, Cached
<1>2. ModulesOf(<<Top>>) = {n}
  BY <1>1 DEF ModulesOf
<1>3. WellFormed(stack') /\ stack' # <<>> /\ ModulesOf(stack') = ModulesOf(stack) \ {n}
  BY <1>1, <1>2, PopStack
<1>4. CallsIn(stack') <= depth' /\ depth' <= MaxDepth /\ depth' \in 0 .. MaxDepth + 1
  BY <1>1, PopStack
<1>5. n \in Names /\ n \in loading
  <2>1. Len(stack) \in DOMAIN stack
    BY <1>1, PopStack
  <2>2. n \in ModulesOf(stack)
    BY <1>1, <2>1 DEF ModulesOf, Top
  <2> QED
    BY <2>2 DEF Inv, Coroutine, TypeOK
<1>6. Coroutine'
  BY <1>1, <1>3, <1>4 DEF Inv, Coroutine
<1> HIDE DEF n
<1>7. n \notin loaded /\ completed \in [Names -> Nat] /\ completed[n] = 0
  BY <1>5 DEF Inv, Modules, ModuleCompletesOnce
<1>8. completed' \in [Names -> Nat] /\ completed'[n] = 1
      /\ \A k \in Names \ {n} : completed'[k] = completed[k]
  BY <1>1, <1>5, <1>7
<1>9. ModuleCompletesOnce'
  BY <1>1, <1>5, <1>8 DEF Inv, Modules, ModuleCompletesOnce
<1>10. Modules'
  BY <1>1, <1>8, <1>9 DEF Inv, Modules
<1>11. /\ sourceBytes' \in 0 .. MaxSourceBytes
       /\ loaded' \subseteq Names /\ loading' \subseteq Names
       /\ loadedPaths' \subseteq Paths /\ Cardinality(loadedPaths') <= MaxModules
  BY <1>1, <1>5 DEF Inv, TypeOK
<1> QED
  BY <1>1, <1>4, <1>6, <1>10, <1>11, StackStep

-----------------------------------------------------------------------------
(* The end of an invocation.                                               *)

LEMMA EndStep ==
    ASSUME Inv, EntryReturns \/ YieldTick PROVE Inv'
<1>1. /\ running /\ running' = FALSE /\ world' = hostWorld
      /\ state' = "Waiting" /\ wake' = tick + 1
      /\ UNCHANGED <<hostWorld, tick, instructions, outputBytes, loaded, loadedPaths,
                     sourceBytes, completed, loading, faulted, saved>>
  BY DEF EntryReturns, YieldTick, EndInvocation, budgets, resolver
<1>2. Coroutine' /\ depth' \in 0 .. MaxDepth + 1 /\ thread' \in {"fresh", "suspended"}
  <2>1. CASE EntryReturns
    <3>1. stack = <<Entry>> /\ stack' = <<>> /\ depth' = Less(depth, 1) /\ thread' = "fresh"
      BY <2>1 DEF EntryReturns, EndInvocation
    <3>2. loading = {} /\ CallsIn(stack) = 1
      BY <3>1, EntryStack DEF Inv, Coroutine
    <3>3. WellFormed(stack') /\ ModulesOf(stack') = {} /\ CallsIn(stack') = 0
      BY <3>1, EmptyStack
    <3>4. depth' \in 0 .. MaxDepth + 1 /\ depth' < MaxDepth /\ 0 <= depth'
      BY <1>1, <3>1, <3>2, RunningDepth DEF Less
    <3> QED
      BY <1>1, <3>1, <3>2, <3>3, <3>4 DEF Coroutine
  <2>2. CASE YieldTick
    <3>1. stack' = stack /\ depth' = depth /\ thread' = "suspended"
      BY <2>2 DEF YieldTick, EndInvocation
    <3>2. depth' \in 0 .. MaxDepth + 1
      BY <1>1, <3>1, RunningDepth
    <3> QED
      BY <1>1, <3>1, <3>2, RunningDepth DEF Inv, Coroutine
  <2> QED
    BY <2>1, <2>2
<1>3. wake' \in Nat
  BY <1>1 DEF Inv, TypeOK
<1>4. TypeOK'
  BY <1>1, <1>2, <1>3 DEF Inv, TypeOK
<1>5. Modules'
  BY <1>1, ModulesKept
<1> QED
  BY <1>1, <1>2, <1>4, <1>5 DEF Inv

-----------------------------------------------------------------------------
(* The theorems.                                                           *)

LEMMA NextInv == Inv /\ [Next]_vars => Inv'
<1> SUFFICES ASSUME Inv, [Next]_vars PROVE Inv'
  OBVIOUS
<1>1. CASE UNCHANGED vars
  BY <1>1 DEF vars, Inv, TypeOK, Coroutine, Modules, ModuleCompletesOnce
<1>2. ASSUME NEW c \in Cells, NEW v \in Values, WriteWorld(c, v) PROVE Inv'
  BY <1>2, WriteWorldStep
<1>3. CASE Resume
  BY <1>3, ResumeStep
<1>4. CASE ResumeFails \/ BeginTick \/ TakeSnapshot \/ Restore
  BY <1>4, IdleSteps
<1>5. ASSUME NEW c \in Cells, NEW v \in Values, WriteDevice(c, v) \/ WriteChannel(c, v)
      PROVE  Inv'
  BY <1>5, WriteStep
<1>6. CASE Require
  BY <1>6, RefusedStep, UnreadableStep, LoadsStep, ModuleReturnsStep DEF Require
<1>7. CASE Run
  <2>1. DeviceCells \subseteq Cells /\ ChannelCells \subseteq Cells
    BY DEF Cells
  <2> QED
    BY <1>5, <1>6, <1>7, <2>1, RaisesStep, CountStep, PrintStep, CallStep, ReturnStep,
       CoroutineStep, YieldStep, EndStep DEF Run
<1> QED
  BY <1>1, <1>2, <1>3, <1>4, <1>7 DEF Next

LEMMA InvHolds == Spec => []Inv
BY InitInv, NextInv, PTL DEF Spec

\* The limits of the sandbox (lua.rs, validate_limits and the hooks): for any
\* limits and any program, the output, the modules and the source taken stay
\* within them, and the counters of calls and hooks pass theirs by one at most.
THEOREM TypeCorrect == Spec => []TypeOK
<1>1. Inv => TypeOK
  BY DEF Inv
<1> QED
  BY <1>1, InvHolds, PTL

\* What install_require remembers is what happened: the names being loaded are
\* those of the modules on the stack, each once, after any errors and yields;
\* and the body of a module completes at most once, cached from then on.
THEOREM RequireIsExact == Spec => []RequireExact
<1>1. Inv => RequireExact
  BY DEF Inv, RequireExact, LoadingExact, Coroutine, WellFormed, Modules
<1> QED
  BY <1>1, InvHolds, PTL

\* The call hook never counts fewer calls than the coroutine is in, and no
\* running program is beyond the recursion limit.
THEOREM DepthIsCovered == Spec => []DepthCovers
<1>1. Inv => DepthCovers
  BY DEF Inv, DepthCovers, Coroutine
<1> QED
  BY <1>1, InvHolds, PTL

\* step replaces the shared world once, at the end of an invocation that
\* succeeds: a failed one leaves what it began with.
THEOREM InvocationsAtomic == Spec => AllOrNothing
<1>1. ASSUME Inv, [Next]_vars
      PROVE  [running => world' = IF running' \/ thread' = "dead" THEN begun
                                                              ELSE hostWorld]_vars
  <2> SUFFICES ASSUME running, Next
               PROVE  world' = IF running' \/ thread' = "dead" THEN begun ELSE hostWorld
    BY <1>1
  <2>0. Inv /\ world = begun
    BY <1>1 DEF Inv
  <2>1. ASSUME NEW d \in {depth, depth + 1, depth + 2}, d <= MaxDepth + 1, Throw(d, loading)
        PROVE  world' = world /\ (running' \/ thread' = "dead")
    BY <2>0, <2>1, ThrowStep
  <2>2. /\ depth \in Nat /\ MaxDepth \in Nat /\ depth <= MaxDepth
        /\ depth <= MaxDepth + 1 /\ depth + 1 <= MaxDepth + 1
        /\ depth < MaxDepth => depth + 2 <= MaxDepth + 1
        /\ thread # "dead"
    BY <2>0, RunningDepth
  <2>3. CASE HostRaises \/ DeniedCall \/ CountInstructions \/ PrintLine \/ CallFunction
    <3>1. \/ \E d \in {depth, depth + 1} : Throw(d, loading)
          \/ UNCHANGED <<world, running>>
      BY <2>3 DEF HostRaises, DeniedCall, Raises, CountInstructions, PrintLine, CallFunction
    <3>2. CASE \E d \in {depth, depth + 1} : Throw(d, loading)
      <4>1. PICK d \in {depth, depth + 1} : Throw(d, loading)
        BY <3>2
      <4>2. d \in {depth, depth + 1, depth + 2} /\ d <= MaxDepth + 1
        BY <4>1, <2>2
      <4> QED
        BY <2>0, <2>1, <4>1, <4>2
    <3> QED
      BY <2>0, <3>1, <3>2
  <2>4. CASE Require
    <3>1. \/ \E d \in {depth + 1, depth + 2} : d <= MaxDepth + 1 /\ Throw(d, loading)
          \/ UNCHANGED <<world, running>>
      BY <2>2, <2>4
         DEF Require, RequireRefused, RequireUnreadable, RequireLoads, NamesAfterRead,
             ModuleReturns
    <3>2. CASE \E d \in {depth + 1, depth + 2} : d <= MaxDepth + 1 /\ Throw(d, loading)
      <4>1. PICK d \in {depth + 1, depth + 2} : d <= MaxDepth + 1 /\ Throw(d, loading)
        BY <3>2
      <4> QED
        BY <2>0, <2>1, <4>1
    <3> QED
      BY <2>0, <3>1, <3>2
  <2>5. CASE ReturnFunction \/ ResumeCoroutine \/ CoroutineYields
    BY <2>0, <2>5 DEF ReturnFunction, ResumeCoroutine, CoroutineYields
  <2>6. CASE EntryReturns \/ YieldTick
    BY <2>6 DEF EntryReturns, YieldTick, EndInvocation
  <2>7. ASSUME NEW c, NEW v, WriteDevice(c, v) \/ WriteChannel(c, v)
        PROVE  world' = world /\ running'
    BY <2>7 DEF WriteDevice, WriteChannel
  <2>8. Run
    BY DEF Next, WriteWorld, Resume, ResumeFails, BeginTick, TakeSnapshot, Restore
  <2> QED
    BY <2>0, <2>3, <2>4, <2>5, <2>6, <2>7, <2>8 DEF Run
<1> QED
  BY <1>1, InvHolds, PTL DEF Spec, AllOrNothing
=============================================================================
