--------------------------- MODULE KconfigSymbols ---------------------------
(***************************************************************************)
(* The values of the build configuration while somebody edits it           *)
(* (symbol.c and confdata.c of kconfig): what the conditions, defaults,    *)
(* selects, ranges and choices make of what was chosen, kept until the     *)
(* next change, and what is left of it after it was saved and read again.  *)
(*                                                                         *)
(* No MODULES is defined (KconfigMenu), so a symbol that could be a module *)
(* is treated as a boolean one.  A choice is never optional: the           *)
(* configuration files of this repository have no optional ones.  So what  *)
(* was entered for a choice or its members makes no difference to their    *)
(* values beyond which member was chosen last, and only that is kept.      *)
(***************************************************************************)
EXTENDS KconfigExpr, TLC

CONSTANTS
    Order,      \* the symbols, each one after those that its conditions read
    Config,     \* of a symbol: type, prompt, defaults, rev_dep, choice, members, ranges
    Numbers,    \* that may be entered
    Edited,     \* the symbols whose line of a saved file somebody may change
    None        \* no choice; nothing entered or read

VARIABLES
    user,       \* the value last entered or read
    new,        \* the symbols for which it does not count (SYMBOL_NEW)
    chosen,     \* of a choice: the member last chosen (user.val)
    curr,       \* what was last calculated for every symbol
    changed,    \* sym_change_count is not 0
    swallowed   \* symbols whose newly entered value was taken for the old one

vars == <<user, new, chosen, curr, changed, swallowed>>

Symbols == Range(Order)
IsChoice(s) == Config[s].members # <<>>
IsMember(s) == Config[s].choice # None
IsNumber(s) == Config[s].type = "int"
Plain == {s \in Symbols : ~IsChoice(s) /\ ~IsMember(s)}

-----------------------------------------------------------------------------
\* Conditions, over the symbols calculated so far.
Value(acc, e) == expr_calc_value(e, [s \in DOMAIN acc |-> acc[s].tri])
NotMod(v) == IF v = "m" THEN "y" ELSE v

\* The first default, or range, whose condition holds.
FirstHolding(acc, props) == SelectSeq(props, LAMBDA p : Value(acc, p.if) # "n")

sym_calc_visibility(acc, s) == NotMod(Value(acc, Config[s].prompt))
RevDep(acc, s) == IF IsMember(s) THEN "n" ELSE NotMod(Value(acc, Config[s].rev_dep))

DefaultOf(acc, s) ==
    LET found == FirstHolding(acc, Config[s].defaults)
    IN  IF found = <<>> THEN "n" ELSE NotMod(Value(acc, found[1].value))

\* A number is kept within the range that holds.
sym_validate_range(acc, s, v) ==
    LET found == FirstHolding(acc, Config[s].ranges)
    IN  IF found = <<>> THEN v
        ELSE IF v < found[1].low THEN found[1].low
        ELSE IF v > found[1].high THEN found[1].high ELSE v

\* The user's member whether it can be seen or not.
sym_calc_choiceUnseen(acc, s, picks) ==
    IF picks[s] # None THEN picks[s] ELSE Config[s].members[1]

\* The member that is chosen: the user's if it can be seen, else a default, else the first.
sym_calc_choice(acc, s, picks) ==
    LET Seen(m) == sym_calc_visibility(acc, m) # "n"
        found == FirstHolding(acc, Config[s].defaults)
        candidates == (IF picks[s] = None THEN <<>> ELSE <<picks[s]>>)
                      \o [i \in DOMAIN found |-> found[i].value] \o Config[s].members
        seen == SelectSeq(candidates, Seen)
    IN  IF seen = <<>> THEN None ELSE seen[1]

Outcome(tri, val, visible, rev) == [tri |-> tri, val |-> val, visible |-> visible, rev |-> rev]

TristateValue(acc, s, visible, rev, values, fresh) ==
    CASE IsMember(s) /\ visible = "y" -> IF acc[Config[s].choice].val = s THEN "y" ELSE "n"
      [] {visible, rev} = {"n"} ->
           IF IsChoice(s) THEN "n" ELSE DefaultOf(acc, s)
      [] OTHER ->
           LET asked == CASE IsChoice(s) -> "n"
                          [] s \in Plain /\ s \notin fresh -> values[s]
                          [] OTHER -> DefaultOf(acc, s)
           IN  NotMod(Highest({Lowest({asked, visible}), rev}))

NumberValue(acc, s, visible, values, fresh) ==
    LET found == FirstHolding(acc, Config[s].defaults)
    IN  sym_validate_range(acc, s,
            IF visible # "n" /\ s \notin fresh THEN values[s]
            ELSE IF found = <<>> THEN 0 ELSE found[1].value)

sym_calc_value(acc, s, values, fresh, picks) ==
    LET visible == sym_calc_visibility(acc, s)
        rev == RevDep(acc, s)
        tri == TristateValue(acc, s, visible, rev, values, fresh)
        pick == sym_calc_choice(acc @@ (s :> Outcome(tri, None, visible, rev)), s, picks)
    IN  IF IsNumber(s) THEN Outcome("n", NumberValue(acc, s, visible, values, fresh), visible, rev)
        ELSE IF IsChoice(s) /\ tri = "y"
        THEN Outcome(IF pick = None THEN "n" ELSE "y", pick, visible, rev)
        ELSE Outcome(tri, None, visible, rev)

Calculated(values, fresh, picks) ==
    FoldLeft(LAMBDA acc, s : acc @@ (s :> sym_calc_value(acc, s, values, fresh, picks)), <<>>, Order)

Init ==
    /\ user = [s \in Plain |-> IF IsNumber(s) THEN None ELSE "n"]
    /\ new = Plain
    /\ chosen = [c \in {s \in Symbols : IsChoice(s)} |-> None]
    /\ curr = Calculated(user, new, chosen)
    /\ changed = FALSE /\ swallowed = {}

-----------------------------------------------------------------------------

\* A new value is entered, and everything is calculated anew at its next use.
Recalculate ==
    /\ curr' = Calculated(user', new', chosen')
    /\ changed' = TRUE /\ swallowed' = {}

sym_tristate_within_range(s, v) ==
    /\ curr[s].visible # "n" /\ v # "m"
    /\ Rank[curr[s].visible] > Rank[curr[s].rev]
    /\ IF IsMember(s) /\ curr[s].visible = "y" THEN v = "y"
       ELSE Rank[v] >= Rank[curr[s].rev] /\ Rank[v] <= Rank[curr[s].visible]

Settable(s, v) == curr[s].tri = v \/ sym_tristate_within_range(s, v)

\* Setting a member chooses it.
sym_set_tristate_value(s, v) ==
    /\ Settable(s, v)
    /\ user' = IF s \in Plain THEN [user EXCEPT ![s] = v] ELSE user
    /\ new' = new \ {s}
    /\ chosen' = IF IsMember(s) /\ v = "y" THEN [chosen EXCEPT ![Config[s].choice] = s] ELSE chosen
    /\ IF curr[s].tri # v THEN Recalculate ELSE UNCHANGED <<curr, changed, swallowed>>

SetTristate(s) ==
    /\ ~IsNumber(s) /\ curr[s].visible # "n"
    /\ \E v \in Constants : sym_set_tristate_value(s, v)

\* The next value in the order n, m, y that can be set.
sym_toggle_tristate_value(s) ==
    /\ ~IsNumber(s) /\ curr[s].visible # "n"
    /\ LET cycle == CASE curr[s].tri = "n" -> <<"m", "y", "n">> [] curr[s].tri = "y" -> <<"n", "m", "y">>
       IN  sym_set_tristate_value(s, Head(SelectSeq(cycle, LAMBDA v : Settable(s, v))))

sym_string_within_range(acc, s, v) == sym_validate_range(acc, s, v) = v

\* A number is entered.  If it is the one that was entered or read before nothing is
\* calculated, though it may not have counted until now.
sym_set_string_value(s, v) ==
    /\ IsNumber(s) /\ curr[s].visible # "n"
    /\ sym_string_within_range(curr, s, v)
    /\ new' = new \ {s}
    /\ user' = [user EXCEPT ![s] = v] /\ UNCHANGED chosen
    /\ IF user[s] # v THEN Recalculate
       ELSE /\ swallowed' = IF s \in new THEN swallowed \cup {s} ELSE swallowed
            /\ UNCHANGED <<curr, changed>>

-----------------------------------------------------------------------------
\* Only what is set gets a line.
WrittenIfSet(values) ==
    [s \in {t \in Symbols : ~IsChoice(t)} |->
       IF IsNumber(s) THEN values[s].val ELSE IF values[s].tri = "n" THEN None ELSE values[s].tri]

\* The configuration file: a line for every symbol but the choices, seen or not.
Written(values) ==
    [s \in {t \in Symbols : ~IsChoice(t)} |-> IF IsNumber(s) THEN values[s].val ELSE values[s].tri]

conf_write ==
    /\ curr' = IF changed THEN curr ELSE Calculated(user, new, chosen)
    /\ swallowed' = IF changed THEN swallowed ELSE {}
    /\ changed' = FALSE
    /\ UNCHANGED <<user, new, chosen>>

\* What is made of the lines of a file: the values, the symbols without one, and of every
\* choice the first member that is set.
conf_read_simple(file) ==
    LET Given(s) == file[s] # None
        Set(c) == SelectSeq(Config[c].members, LAMBDA m : Given(m) /\ file[m] = "y")
    IN  [values |-> [s \in Plain |-> IF Given(s) \/ IsNumber(s) THEN file[s] ELSE "n"],
         fresh |-> {s \in Plain : ~Given(s)},
         picks |-> [c \in DOMAIN chosen |-> IF Set(c) = <<>> THEN None ELSE Set(c)[1]]]

\* Reading it: what was read for a symbol that is not visible, or a number out of its
\* range, does not count; the latter is calculated once more.
Checked(in, first) ==
    LET wrong == {s \in Plain \ in.fresh :
                     IsNumber(s) /\ ~sym_string_within_range(first, s, in.values[s])}
        hidden == {s \in Plain \ in.fresh : first[s].visible = "n"}
        fresh == in.fresh \cup wrong \cup hidden
        Again(again) == [s \in Symbols |-> IF s \in wrong THEN again[s] ELSE first[s]]
    IN  [values |-> in.values, fresh |-> fresh, picks |-> in.picks,
         calculated |-> Again(Calculated(in.values, fresh, in.picks))]
Loaded(file) ==
    LET Check(in) == Checked(in, Calculated(in.values, in.fresh, in.picks))
    IN  Check(conf_read_simple(file))

Edits(file) ==
    UNION {{[file EXCEPT ![s] = v] : v \in {None} \cup (IF IsNumber(s) THEN Numbers ELSE {"n", "y"})} :
           s \in Edited}

\* The saved configuration is read again, by this run or the next one; somebody may have
\* changed or removed one of its lines.  Whether conf_read reports a difference is left open.
conf_read ==
    /\ ~changed
    /\ \E file \in {Written(curr)} \cup Edits(Written(curr)) :
         LET Take(got) == /\ user' = got.values /\ new' = got.fresh /\ chosen' = got.picks
                          /\ curr' = got.calculated
         IN  Take(Loaded(file))
    /\ changed' \in BOOLEAN /\ swallowed' = {}

Next ==
    \/ \E s \in Symbols : SetTristate(s) \/ sym_toggle_tristate_value(s)
    \/ \E s \in Symbols, v \in Numbers : sym_set_string_value(s, v)
    \/ conf_write \/ conf_read

-----------------------------------------------------------------------------
\* What is shown is what would be calculated now (SYMBOL_VALID), but for numbers entered a
\* second time.
ValuesAreCurrent ==
    LET now == Calculated(user, new, chosen)
    IN  \A s \in Symbols \ swallowed : curr[s] = now[s]

\* Of a choice that can be seen exactly one member is set, and it can be seen; a number is
\* in its range; whatever is selected is set.
ValuesFitTogether ==
    /\ \A c \in Symbols : IsChoice(c) /\ curr[c].tri = "y" =>
         \E m \in Range(Config[c].members) :
            /\ curr[m].visible # "n"
            /\ \A other \in Range(Config[c].members) : curr[other].tri = "y" <=> other = m
    /\ \A s \in Symbols : IsNumber(s) => sym_string_within_range(curr, s, curr[s].val)
    /\ \A s \in Symbols \ {t \in Symbols : IsNumber(t)} :
         Rank[curr[s].tri] >= Rank[NotMod(Value(curr, Config[s].rev_dep))] \/ IsMember(s)

\* Who saves and reads the configuration again finds the values that were shown.
SaveKeepsValues ==
    LET AsShown(again) ==
            \A s \in Symbols : again[s].tri = curr[s].tri /\ again[s].val = curr[s].val
    IN  AsShown(Loaded(Written(curr)).calculated)
=============================================================================
