---------------------------- MODULE CommandTable ----------------------------
(***************************************************************************)
(* The commands and aliases: a ternary search tree (ternary.c) that        *)
(* /ALIAS and /UNALIAS change (tcommand.c t_bind, t_unbind) and that a     *)
(* command line is looked up in, by an abbreviation too.                   *)
(*                                                                         *)
(* A name is a sequence of letters, a letter a number.  A node is a record *)
(* as struct tnode; the definitions on it are recursive as the functions   *)
(* are.                                                                    *)
(***************************************************************************)
EXTENDS Integers, Sequences, FiniteSets, SequencesExt, FiniteSetsExt

CONSTANTS
    Letters,    \* a set of numbers
    MaxLength,  \* bound: the letters of a name
    BuiltIns    \* the sets of built-in commands to start from

VARIABLES
    tree,       \* t_commands
    builtIns    \* xaric_cmds

vars == <<tree, builtIns>>

Names == SeqOf(Letters, MaxLength) \ {<<>>}

Nil == <<>>             \* NULL

(* struct command: data is what an alias is bound to, itself a built-in.   *)
BuiltIn(name) == [name |-> name, data |-> Nil]
Bound(name, cmd) == [name |-> name, data |-> cmd.name]

(* The answers of t_search that are no command: NULL and C_AMBIG.          *)
Unknown == BuiltIn(<<0>>)
Ambiguous == BuiltIn(<<0, 0>>)

----------------------------------------------------------------------------
(* ternary.c.                                                              *)

RECURSIVE TInsert(_, _, _)
TInsert(p, s, data) ==
    LET q == IF p = Nil THEN [splitchar |-> s[1], low |-> Nil, eq |-> Nil, hi |-> Nil, data |-> Nil] ELSE p
    IN IF s[1] < q.splitchar THEN [q EXCEPT !.low = TInsert(@, s, data)]
       ELSE IF s[1] > q.splitchar THEN [q EXCEPT !.hi = TInsert(@, s, data)]
       ELSE IF Tail(s) = <<>> THEN [q EXCEPT !.data = data]
       ELSE [q EXCEPT !.eq = TInsert(@, Tail(s), data)]

\* A mutant: a node is freed with its data, whatever hangs on its sides.
UsedBelow(p) == p.eq # Nil \/ p.data # Nil

Used(p) == p.low # Nil \/ p.hi # Nil \/ p.eq # Nil \/ p.data # Nil

Pruned(p) == IF Used(p) THEN p ELSE Nil

RECURSIVE TRemove(_, _)
TRemove(p, s) ==
    IF p = Nil THEN Nil
    ELSE Pruned(IF s[1] < p.splitchar THEN [p EXCEPT !.low = TRemove(@, s)]
                ELSE IF s[1] > p.splitchar THEN [p EXCEPT !.hi = TRemove(@, s)]
                ELSE IF Tail(s) = <<>> THEN [p EXCEPT !.data = Nil]
                ELSE [p EXCEPT !.eq = TRemove(@, Tail(s))])

(* Only one way down may be left, and no name on the way.                  *)
Ways(p) == {way \in {"low", "eq", "hi"} : p[way] # Nil}

\* A mutant: a name that is the beginning of another is passed by.
WaysDown(p) == Cardinality(Ways(p))

Branches(p) == Cardinality(Ways(p)) + (IF p.data # Nil THEN 1 ELSE 0)

RECURSIVE OnlyOne(_)
OnlyOne(p) ==
    IF p = Nil \/ Branches(p) > 1 THEN Ambiguous
    ELSE IF Ways(p) = {} THEN p.data
    ELSE OnlyOne(p[CHOOSE way \in Ways(p) : TRUE])

FinishSearch(p) == IF p.data # Nil THEN p.data ELSE OnlyOne(p.eq)

RECURSIVE TSearch(_, _)
TSearch(p, s) ==
    IF p = Nil THEN Unknown
    ELSE IF s[1] < p.splitchar THEN TSearch(p.low, s)
    ELSE IF s[1] > p.splitchar THEN TSearch(p.hi, s)
    ELSE IF Tail(s) = <<>> THEN FinishSearch(p)
    ELSE TSearch(p.eq, Tail(s))

(* The middle of the sorted array first, then both halves.                 *)
RECURSIVE TBuild(_, _)
TBuild(root, c) ==
    IF c = <<>> THEN root
    ELSE LET m == Len(c) \div 2 + 1
         IN TBuild(TBuild(TInsert(root, c[m], BuiltIn(c[m])), SubSeq(c, 1, m - 1)), SubSeq(c, m + 1, Len(c)))

RECURSIVE LocalTraverse(_)
LocalTraverse(p) ==
    IF p = Nil THEN {}
    ELSE (IF p.data = Nil THEN {} ELSE {p.data})
         \cup LocalTraverse(p.low) \cup LocalTraverse(p.eq) \cup LocalTraverse(p.hi)

(* What is listed for an abbreviation.                                     *)
RECURSIVE TTraverse(_, _)
TTraverse(p, s) ==
    IF p = Nil \/ s = <<>> THEN LocalTraverse(p)
    ELSE IF s[1] < p.splitchar THEN TTraverse(p.low, s)
    ELSE IF s[1] > p.splitchar THEN TTraverse(p.hi, s)
    ELSE TTraverse(p.eq, Tail(s))

----------------------------------------------------------------------------
(* tcommand.c.                                                             *)

Failed(cmd) == cmd \in {Unknown, Ambiguous} \/ cmd.data # Nil

(* /ALIAS string command: not to a name nobody has, and not to an alias.   *)
Bind(string, command) ==
    LET cmd == TSearch(tree, command) IN
    /\ ~Failed(cmd)
    /\ tree' = TInsert(TRemove(tree, string), string, Bound(string, cmd))
    /\ UNCHANGED builtIns

(* /UNALIAS, of a built-in command too.                                    *)
Unbind(command) ==
    /\ tree' = TRemove(tree, command)
    /\ UNCHANGED builtIns

----------------------------------------------------------------------------
Less(s, t) ==
    \/ Len(s) < Len(t) /\ IsPrefix(s, t)
    \/ \E i \in DOMAIN s \cap DOMAIN t : SubSeq(s, 1, i - 1) = SubSeq(t, 1, i - 1) /\ s[i] < t[i]

InitCommands == TBuild(Nil, SetToSortSeq(builtIns, Less))

Init == builtIns \in BuiltIns /\ tree = InitCommands

Next == \E name \in Names : Unbind(name) \/ \E command \in Names : Bind(name, command)

Spec == Init /\ [][Next]_vars

----------------------------------------------------------------------------
Commands == LocalTraverse(tree)

TypeOK == \A cmd \in Commands : cmd.name \in Names /\ (cmd.data = Nil => cmd.name \in builtIns)

Begin(s) == {cmd \in Commands : IsPrefix(s, cmd.name)}

(* A line executes the command it names, else the only one it abbreviates, *)
(* else none; it is unknown only when it abbreviates nothing, and the      *)
(* completion of an ambiguous one lists all it abbreviates (t_search,      *)
(* t_finish_search, t_traverse), whatever has been bound and unbound.      *)
SearchIsRight ==
    \A s \in Names :
        LET found == TSearch(tree, s)
            named == {cmd \in Commands : cmd.name = s}
        IN CASE named # {} -> named = {found}
             [] Cardinality(Begin(s)) = 1 -> {found} = Begin(s)
             [] OTHER -> /\ found \in {Unknown, Ambiguous}
                         /\ Begin(s) # {} => found = Ambiguous
                         /\ found = Ambiguous => TTraverse(tree, s) = Begin(s)

(* /ALIAS and /UNALIAS touch the command of that name only (t_insert,      *)
(* t_remove).                                                              *)
ChangesOne ==
    \E name \in Names :
       {c \in Commands : c.name # name} = {c \in LocalTraverse(tree') : c.name # name}
=============================================================================
