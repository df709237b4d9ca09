---------------------------- MODULE KconfigMenu ----------------------------
(***************************************************************************)
(* The entries of one menu of the build configuration (menu.c of kconfig): *)
(* the conditions an entry is given are joined with those of its menu and  *)
(* simplified, and an entry that depends on the one before it is moved     *)
(* into a submenu of that one.                                             *)
(*                                                                         *)
(* The configuration files of this repository define no MODULES, so no     *)
(* symbol ever has the value m (sym_get_type, symbol.c:88).                *)
(***************************************************************************)
EXTENDS KconfigExpr

CONSTANTS
    Outer,      \* conditions of the menu
    Deps,       \* what each entry may depend on, entry by entry
    Conds,      \* the conditions each entry's prompt may have, NoPrompt for none
    Symbols,    \* the symbol each entry defines
    NoPrompt,
    Top         \* the menu itself, as a parent

VARIABLES
    outer,      \* the condition of the menu, as written
    entries,    \* the entries so far: as written, and as the code has rewritten them
    parents     \* of the entries placed so far

vars == <<outer, entries, parents>>

\* An 'm' in a condition asks for modules as well.
RECURSIVE menu_check_dep(_)
menu_check_dep(e) ==
    CASE e = Sym("m") -> Chain("and", <<e, Sym("MODULES")>>)
      [] IsChain(e) -> Chain(e.op, [i \in DOMAIN e.args |-> menu_check_dep(e.args[i])])
      [] e.op = "not" -> Not(menu_check_dep(e.args[1]))
      [] OTHER -> e

Rewritten(above, e) ==
    expr_eliminate_dups(expr_alloc_and(above, expr_transform(menu_check_dep(e))))

Init ==
    /\ outer \in Outer
    /\ entries = <<>> /\ parents = <<>>

AddEntry ==
    /\ Len(entries) < Len(Symbols)
    /\ LET i == Len(entries) + 1
           parentdep == Rewritten(Null, outer)
           Visible(joined) == IF TypeOf[Symbols[i]] = "tristate" THEN joined ELSE expr_trans_bool(joined)
           Entry(dep, cond, basedep) ==
               [sym |-> Symbols[i], given |-> dep, cond |-> cond, dep |-> basedep,
                visible |-> Visible(IF cond = NoPrompt THEN Null ELSE Rewritten(basedep, cond))]
       IN  \E dep \in Deps[i], cond \in Conds[i] :
             entries' = Append(entries, Entry(dep, cond, Rewritten(parentdep, dep)))
    /\ UNCHANGED <<outer, parents>>

-----------------------------------------------------------------------------
\* Whether an entry belongs into a submenu of an earlier one: it depends on the symbol of
\* that, or it mentions it and asks for all that the earlier one's prompt asks for.
Shown(entry) == IF entry.cond = NoPrompt THEN entry.dep ELSE entry.visible
NotNo(e) == expr_eliminate_dups(expr_transform(expr_trans_compare(e, "ne", "n")))
FollowsIfMentioned(entry, above) == expr_contains_symbol(Shown(entry), above.sym)
Follows(entry, above) ==
    LET dep == Shown(entry)
    IN  /\ expr_contains_symbol(dep, above.sym)
        /\ \/ expr_depends_symbol(dep, above.sym)
           \/ expr_eliminate_eq(NotNo(dep), NotNo(above.visible))[2] = Sym("y")

\* The entries whose submenus may still grow, the innermost first: the last one placed and
\* those above it.
RECURSIVE Open(_)
Open(i) == IF i = Top THEN <<>> ELSE <<i>> \o Open(parents[i])

\* One step of the walk over the siblings: the entry goes under the innermost entry it
\* follows.
Place ==
    /\ Len(entries) = Len(Symbols) /\ Len(parents) < Len(entries)
    /\ LET i == Len(parents) + 1
           open == IF i = 1 THEN <<>> ELSE Open(i - 1)
           under == SelectSeq(open, LAMBDA k : Follows(entries[i], entries[k]))
       IN  parents' = Append(parents, IF under = <<>> THEN Top ELSE Head(under))
    /\ UNCHANGED <<outer, entries>>

Next == AddEntry \/ Place

-----------------------------------------------------------------------------
Assignments == [{Symbols[i] : i \in DOMAIN Symbols} -> {"n", "y"}]

\* Rewriting changes no condition: whatever is chosen, a prompt can be seen exactly if the
\* conditions of its menu, its entry and itself, as they were written, all hold (the joins
\* and eliminations of expr.c).
ConditionsMeanWhatTheySay ==
    \A i \in DOMAIN entries : \A env \in Assignments :
      LET entry == entries[i]
          value(e) == expr_calc_value(menu_check_dep(e), env)
          base == Lowest({value(outer), value(entry.given)})
      IN  /\ value(entry.dep) = base
          /\ entry.cond # NoPrompt => value(entry.visible) = Lowest({base, value(entry.cond)})

\* Whoever can see an entry of a submenu can see the entry that opens it, or that one's
\* symbol is set (menu_finalize).  An entry without a prompt opens none: what is under it
\* moves up to the entry above, which says nothing of when that one can be seen.
SubmenusFollow ==
    \A i \in DOMAIN parents : LET k == parents[i] IN
      (k # Top /\ entries[k].cond # NoPrompt) =>
        \A env \in Assignments :
          expr_calc_value(Shown(entries[i]), env) # "n" =>
            env[entries[k].sym] # "n" \/ expr_calc_value(entries[k].visible, env) # "n"
=============================================================================
