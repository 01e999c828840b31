----------------------------- MODULE Ic10Build -----------------------------
(***************************************************************************)
(* Deployment builds (ic10-build): a program is validated, its comment and *)
(* blank lines are dropped, and at the compact level its defines are put   *)
(* in place, its private aliases shortened and the labels only absolute    *)
(* branches use replaced by line numbers.  Branches are then rewritten so  *)
(* that they still lead where they led, or the build is refused.           *)
(*                                                                         *)
(* A kept line is a pair: the source line it comes from, and its text now. *)
(***************************************************************************)
EXTENDS Ic10Analysis

CONSTANTS ShortNames    \* private alias -> the shorter names tried for it, in order

Levels == {"none", "readable", "compact"}

Kept(n, line) == [from |-> n, text |-> line]

-----------------------------------------------------------------------------
(* The lines that stay.                                                    *)

IsDefine(doc, x) == x \in Names(doc) /\ SymbolKind(doc, x) = "define"

\* resolve_define: the end of a chain of defines, NoToken for a cycle.
ResolveDefine(doc, x) ==
    LET defines == {y \in Names(doc) : IsDefine(doc, y)}
        at[k \in 0 .. Cardinality(defines)] ==
            IF k = 0 THEN Name(x)
            ELSE IF IsName(at[k - 1]) /\ at[k - 1][2] \in defines
                 THEN SymbolValue(doc, at[k - 1][2])
            ELSE at[k - 1]
        last == at[Cardinality(defines)]
    IN  IF IsName(last) /\ last[2] \in defines THEN NoToken ELSE last

Substituted(doc) == {x \in Names(doc) : IsDefine(doc, x) /\ ResolveDefine(doc, x) # NoToken}

PrivateAliases(doc) ==
    {x \in Names(doc) \cap DOMAIN ShortNames : SymbolKind(doc, x) = "alias"}

\* The first candidate no symbol of the program has.
ShortName(doc, x) ==
    LET free == {i \in DOMAIN ShortNames[x] : ShortNames[x][i] \notin Names(doc)}
    IN  ShortNames[x][Min(free)]

\* replace_tokens: every token of the line, its mnemonic included.
ReplaceToken(doc, t) ==
    IF ~ IsName(t) THEN t
    ELSE IF t[2] \in PrivateAliases(doc) THEN Name(ShortName(doc, t[2]))
    ELSE IF t[2] \in Substituted(doc) THEN ResolveDefine(doc, t[2])
    ELSE t

ReplaceTokens(doc, line) ==
    IF line.kind # "instruction" THEN line
    ELSE [line EXCEPT
            !.op = IF @ \in Substituted(doc) \cup PrivateAliases(doc) THEN NoOp ELSE @,
            !.args = [i \in DOMAIN @ |-> ReplaceToken(doc, @[i])]]

\* Mutant: a label that a relative branch also uses counts as removable.
RemovableLabels_AnyBranch(doc) ==
    {x \in Names(doc) : /\ SymbolKind(doc, x) = "label"
                        /\ \A n \in UsesOf(doc, x) :
                              LineAt(doc, n).op \in Branches \cup DeviceBranches}

\* The labels that only absolute branches use.
RemovableLabels(doc) ==
    {x \in Names(doc) : /\ SymbolKind(doc, x) = "label"
                        /\ \A n \in UsesOf(doc, x) : LineAt(doc, n).op \in AbsoluteBranches}

Removed(src, level) ==
    LET doc == Document(src)
    IN  {n \in Lines(src) :
            \/ LineAt(src, n).kind = "empty"
            \/ /\ level = "compact"
               /\ \/ LineAt(src, n).op = "define" /\ NameOn(src, n) \in Substituted(doc)
                  \/ \E x \in RemovableLabels(doc) : DeclarationLine(doc, x) = n}

\* The output before branches are rewritten.
Output(src, level) ==
    LET doc == Document(src)
        kept == SetToSortSeq(Lines(src) \ Removed(src, level), <)
    IN  [g \in DOMAIN kept |->
            Kept(kept[g], IF level = "compact" THEN ReplaceTokens(doc, LineAt(src, kept[g]))
                          ELSE LineAt(src, kept[g]))]

-----------------------------------------------------------------------------
(* Branches.                                                               *)

(***************************************************************************)
(* generated_line_map and translate_target: the generated line of the      *)
(* first kept line at or after a source line; -1 when none is left.        *)
(***************************************************************************)
TranslateTarget(output, n) ==
    LET later == {g \in DOMAIN output : output[g].from >= n}
    IN  IF later = {} THEN -1 ELSE Min(later) - 1

\* An absolute branch to a label that was removed.
LeadsToRemoved(doc, output, level, g) ==
    /\ level = "compact"
    /\ LineAt(doc, output[g].from).op \in AbsoluteBranches
    /\ IsName(Target(output[g].text))
    /\ Target(output[g].text)[2] \in RemovableLabels(doc)

LabelTarget(doc, output, g) ==
    TranslateTarget(output, DeclarationLine(doc, Target(output[g].text)[2]))

\* The branches that are looked at: not an absolute branch to a label that stays.
Rewritten(doc, output, level, g) ==
    LET op == LineAt(doc, output[g].from).op
    IN  \/ op \in RelativeBranches
        \/ /\ op \in AbsoluteBranches
           /\ ~ LeadsToRemoved(doc, output, level, g)
           /\ ~ IsLabel(doc, Target(output[g].text))

\* Where the source branch leads, and what the generated branch must say.
OriginalTarget(doc, output, g) ==
    LET v == Target(output[g].text)[2]
    IN  IF LineAt(doc, output[g].from).op \in RelativeBranches THEN output[g].from + v ELSE v

\* Mutant: the offset of a relative branch is not recomputed.
Adjusted_RelativeKept(doc, output, g) ==
    IF LineAt(doc, output[g].from).op \in RelativeBranches
    THEN Target(output[g].text)[2]
    ELSE TranslateTarget(output, OriginalTarget(doc, output, g))

Adjusted(doc, output, g) ==
    LET generated == TranslateTarget(output, OriginalTarget(doc, output, g))
    IN  IF LineAt(doc, output[g].from).op \in RelativeBranches
        THEN generated - (g - 1) ELSE generated

\* Why a branch cannot be rewritten.
RefusalsAt(src, output, level, g) ==
    LET doc == Document(src)
        t == Target(output[g].text)
        literal == t[1] = "num"
        original == OriginalTarget(doc, output, g)
    IN  (IF LeadsToRemoved(doc, output, level, g) /\ LabelTarget(doc, output, g) = -1
         THEN {"unmappable-label"} ELSE {})
        \cup
        (IF ~ Rewritten(doc, output, level, g) \/ output[g].text.args = <<>> THEN {}
         ELSE IF ~ literal
              THEN IF Len(output) # Len(src) THEN {"unsafe-branch"} ELSE {}
         ELSE IF original \notin Lines(src) THEN {"branch-out-of-range"}
         ELSE IF TranslateTarget(output, original) = -1 THEN {"unmappable-branch"}
         ELSE {})

\* replace_last_token, and replace_tokens for every mention of a removed label.
WithTarget(line, v) == [line EXCEPT !.args = [@ EXCEPT ![Len(@)] = Num(v)]]

WithoutLabel(line, v) ==
    [line EXCEPT !.args = [i \in DOMAIN @ |-> IF @[i] = Target(line) THEN Num(v) ELSE @[i]]]

Generated(src, output, level, g) ==
    LET doc == Document(src)
    IN  IF LeadsToRemoved(doc, output, level, g)
        THEN WithoutLabel(output[g].text, LabelTarget(doc, output, g))
        ELSE IF Rewritten(doc, output, level, g) /\ Target(output[g].text)[1] = "num"
        THEN WithTarget(output[g].text, Adjusted(doc, output, g))
        ELSE output[g].text

-----------------------------------------------------------------------------
(***************************************************************************)
(* build, of a source without errors: refused for a branch it cannot keep  *)
(* or for too many lines; otherwise the generated lines and, for each, the *)
(* source line it comes from.                                              *)
(***************************************************************************)
Refusals(src, level, output) ==
    IF level = "none"
    THEN IF Len(src) > MaximumProgramLines THEN {"program-line-limit"} ELSE {}
    ELSE UNION {RefusalsAt(src, output, level, g) : g \in DOMAIN output}
         \cup (IF Len(output) > MaximumProgramLines THEN {"program-line-limit"} ELSE {})

BuildOutput(src, level, output) ==
    IF level = "none"
    THEN [lines |-> src, origin |-> [g \in Lines(src) |-> g]]
    ELSE [lines |-> [g \in DOMAIN output |-> Generated(src, output, level, g)],
          origin |-> [g \in 0 .. (Len(output) - 1) |-> output[g + 1].from]]
=============================================================================
