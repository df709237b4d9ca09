----------------------------- MODULE RepoConfig -----------------------------
(***************************************************************************)
(* The build configuration of the repository, cut down to what its parts   *)
(* do to one another: the timer with its two choices, one of which depends *)
(* on the other, and the bus, which selects the list (sdk/module/Kconfig,  *)
(* sdk/framework/Kconfig).  DEPTH stands for the numbers that kconfig      *)
(* knows and these files do not use yet.  And conditions to rewrite, for   *)
(* KconfigMenu.                                                            *)
(***************************************************************************)
EXTENDS Integers

CONSTANT None

\* The expressions of KconfigExpr.
Expr(op, s, t, args) == [op |-> op, s |-> s, t |-> t, args |-> args]
Always == Expr("null", "", "", <<>>)
Is(s) == Expr("sym", s, "", <<>>)
Compared(op, s, t) == Expr(op, s, t, <<>>)
All(es) == Expr("and", "", "", es)
Some(es) == Expr("or", "", "", es)
Isnt(e) == Expr("not", "", "", <<e>>)

-----------------------------------------------------------------------------
Plainly == [type |-> "boolean", prompt |-> Always, defaults |-> <<>>, rev_dep |-> Is("n"),
            choice |-> None, members |-> <<>>, ranges |-> <<>>]
Default(v) == <<[value |-> v, if |-> Always]>>
Choice(prompt, default, members) ==
    [Plainly EXCEPT !.prompt = prompt, !.rev_dep = All(<<prompt, Is("m")>>),
                    !.defaults = default, !.members = members]
Member(choice, prompt) == [Plainly EXCEPT !.choice = choice, !.prompt = prompt]

Files ==
    [TIMER     |-> Plainly,
     BUS       |-> [Plainly EXCEPT !.defaults = Default(Is("y"))],
     WLIST     |-> [Plainly EXCEPT !.rev_dep = Is("BUS")],
     PERCISION |-> Choice(Is("TIMER"), Default("P_1S"), <<"P_100MS", "P_1S">>),
     P_100MS   |-> Member("PERCISION", Is("PERCISION")),
     P_1S      |-> Member("PERCISION", Is("PERCISION")),
     TICK      |-> Choice(Is("TIMER"), <<>>, <<"SLEEP", "SELECT">>),
     SLEEP     |-> Member("TICK", All(<<Is("TICK"), Is("P_1S")>>)),
     SELECT    |-> Member("TICK", Is("TICK")),
     DEPTH     |-> [Plainly EXCEPT !.type = "int", !.prompt = Is("TIMER"), !.defaults = Default(2),
                      !.ranges = <<[low |-> 1, high |-> 2, if |-> Is("BUS")],
                                   [low |-> 2, high |-> 3, if |-> Always]>>]]
FileOrder == <<"TIMER", "BUS", "WLIST", "PERCISION", "P_100MS", "P_1S", "TICK", "SLEEP", "SELECT",
               "DEPTH">>
FileTypes == [s \in DOMAIN Files |-> Files[s].type]

-----------------------------------------------------------------------------
\* Three entries of a menu, one of which could be a module.
EntryTypes == [A |-> "boolean", B |-> "tristate", C |-> "boolean"]
Entries == <<"A", "B", "C">>

Basic == {Is("A"), Is("B"), Is("m"), Compared("eq", "A", "n"), Compared("ne", "B", "n"),
          Compared("ne", "B", "m")}
Joined == UNION {{All(<<x, y>>), Some(<<x, y>>)} : x \in Basic, y \in Basic}
Either == Some(<<Is("A"), Is("B")>>)

MenuConditions == {Always, Some(<<Is("A"), Is("C")>>)}
EntryConditions ==
    <<{Always, Either}, {Always, Is("A"), Isnt(Either)}, Joined \cup {Isnt(e) : e \in Joined}>>
PromptConditions ==
    <<{Always, Is("B")}, {Always, None}, {Always, Either}>>
=============================================================================
