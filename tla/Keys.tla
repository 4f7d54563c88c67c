-------------------------------- MODULE Keys --------------------------------
(***************************************************************************)
(* Key bindings (keys.c) and what a key does (edit_char in input.c): the   *)
(* maps, /BIND, /PARSEKEY and /TYPE, the metas, which make the next key be *)
(* looked up in another map, and /SAVE with the start that reads the file. *)
(*                                                                         *)
(* A key is its character; those from 128 on, which bind_it takes as a     *)
(* signed char and so below the table, are left out, as is the text bound  *)
(* with a function.                                                        *)
(***************************************************************************)
EXTENDS Integers, SequencesExt

CONSTANTS
    KeySet,       \* keys
    Metas,        \* the maps besides 0, 1..MAX_META
    Default,      \* the map and key of the default bindings (init_keys_2)
    Commands,     \* functions besides the metas and QUOTE_CHARACTER
    MaxBinds,     \* bound on the bindings that are not the default ones
    MaxUnsaved    \* bound on the functions that /BIND leaves other than saved

Space == 32
Quote == 34
Open == 123
Close == 125

Nothing == "NOTHING"
QuoteCharacter == "QUOTE_CHARACTER"
Meta(n) == <<"META1_CHARACTER", "META2_CHARACTER", "META3_CHARACTER", "META4_CHARACTER",
             "META5_CHARACTER", "META6_CHARACTER", "META7_CHARACTER", "META8_CHARACTER",
             "META9_CHARACTER">>[n]
Vi == 4             \* META4 is a switch
Functions == Commands \cup {QuoteCharacter} \cup {Meta(n) : n \in Metas}
Maps == Metas \cup {0}

KeysAssumption == KeySet \subseteq 0..127
MetasAssumption == Metas \subseteq 1..9
DefaultAssumption ==
    Default \in [Maps \X KeySet -> Functions \cup {Nothing}] /\ Nothing \notin Functions

VARIABLES
    keys,        \* per map and key: function (or Nothing, no entry) and changed
    meta_hit,    \* metas outstanding
    quote_hit,
    file,        \* the lines BIND of the file saved: map, key and function
    saved        \* history: the functions when the file was saved

vars == <<keys, meta_hit, quote_hit, file, saved>>

Places == Maps \X KeySet

----------------------------------------------------------------------------
(* Binding.                                                                *)

(* A mutant: a binding that is there already does not count as changed.    *)
NewIfDifferent(table, map, key, function, change) ==
    [table EXCEPT ![map, key] =
        [function |-> function, changed |-> change /\ function \notin {Nothing, @.function}]]

(* new_key: NOTHING only removes.                                          *)
NewKey(table, map, key, function, change) ==
    [table EXCEPT ![map, key] = [function |-> function, changed |-> change /\ function # Nothing]]

InitKeys == [p \in Places |-> [function |-> Default[p], changed |-> FALSE]]

(* parse_key: META and a number, or one key, or two, of which the first    *)
(* gives the map: 0 unless it is bound to a meta.                          *)
ParseKey(table, sequence) ==
    IF Len(sequence) = 1 THEN 0
    ELSE LET bound == table[0, sequence[1]].function
         IN  IF \E n \in Metas : bound = Meta(n) THEN CHOOSE n \in Metas : bound = Meta(n) ELSE 0

(* bind_it: a number that is no map is 0.                                  *)
BindIt(table, map, key, function) ==
    NewKey(table, IF map \in Metas THEN map ELSE 0, key, function, TRUE)

CmdBind(table, sequence, function) ==
    BindIt(table, ParseKey(table, sequence), sequence[Len(sequence)], function)

Bounded(table) ==
    /\ Cardinality({p \in Places : table[p].changed \/ table[p].function # Default[p]}) <= MaxBinds
    /\ Cardinality({p \in Places : table[p].function # saved[p]}) <= MaxUnsaved

(* /BIND with a sequence of keys, and with META and a number.              *)
Bind(sequence, function) ==
    /\ keys' = CmdBind(keys, sequence, function)
    /\ Bounded(keys')
    /\ UNCHANGED <<meta_hit, quote_hit, file, saved>>

BindMeta(n, key, function) ==
    /\ keys' = BindIt(keys, n, key, function)
    /\ Bounded(keys')
    /\ UNCHANGED <<meta_hit, quote_hit, file, saved>>

----------------------------------------------------------------------------
(* Typing.                                                                 *)

Input == [meta |-> meta_hit, quote |-> quote_hit]

(* The functions that edit_char calls, as far as the next key goes.        *)
Call(s, function) ==
    IF function = QuoteCharacter THEN [s EXCEPT !.quote = TRUE]
    ELSE IF \E n \in Metas : function = Meta(n)
    THEN LET n == CHOOSE m \in Metas : function = Meta(m)
         IN  [s EXCEPT !.meta = IF n = Vi /\ Vi \in @ THEN @ \ {Vi} ELSE @ \cup {n}]
    ELSE s

(* edit_char: the lowest meta outstanding picks the map and is over; the   *)
(* function is not called while another one (but META4) is outstanding.    *)
EditChar(s, key) ==
    LET map == IF s.meta = {} THEN 0 ELSE CHOOSE n \in s.meta : \A m \in s.meta : n <= m
        t == [s EXCEPT !.meta = @ \ {map}]
    IN  IF t.meta \ {Vi} # {} THEN t
        ELSE IF t.quote THEN [t EXCEPT !.quote = FALSE]
        ELSE Call(t, keys[map, key].function)

Typed(s) == meta_hit' = s.meta /\ quote_hit' = s.quote /\ UNCHANGED <<keys, file, saved>>

Key(key) == Typed(EditChar(Input, key))
CmdType(sequence) == Typed(FoldLeft(EditChar, Input, sequence))
CmdParsekey(function) == Typed(Call(Input, function))

----------------------------------------------------------------------------
(* Saving, map by map and key by key.  write_binding leaves out the space, *)
(* what is not changed and what is bound to nothing; a name with META goes *)
(* before the key.                                                         *)

WriteBinding(p) == p[2] # Space /\ keys[p].changed

Before(p, q) == p[1] < q[1] \/ (p[1] = q[1] /\ p[2] < q[2])

Save ==
    /\ LET places == SetToSortSeq({p \in Places : WriteBinding(p)}, Before)
       IN  file' = [n \in DOMAIN places |-> <<places[n][1], places[n][2], keys[places[n]].function>>]
    /\ saved' = [p \in Places |-> keys[p].function]
    /\ UNCHANGED <<keys, meta_hit, quote_hit>>

(* A double quote that stands alone opens an argument in quotes            *)
(* (new_next_arg); a brace opens or closes a block (load).                 *)
Unreadable(p) == p = <<0, Quote>> \/ p[2] \in {Open, Close}

(* load, for a line of the file.  In a block lines are only gathered, and  *)
(* the command that comes of them binds nothing: its function is none.     *)
LoadLine(s, l) ==
    IF l[2] = Open THEN [s EXCEPT !.paste_level = @ + 1]
    ELSE IF l[2] = Close THEN [s EXCEPT !.paste_level = IF @ = 0 THEN 0 ELSE @ - 1]
    ELSE IF s.paste_level > 0 \/ Unreadable(<<l[1], l[2]>>) THEN s
    ELSE [s EXCEPT !.keys = BindIt(@, l[1], l[2], l[3])]

(* The next start: init_keys_1, and the file is loaded.                    *)
Restart ==
    /\ keys' = FoldLeft(LoadLine, [keys |-> InitKeys, paste_level |-> 0], file).keys
    /\ meta_hit' = {} /\ quote_hit' = FALSE
    /\ UNCHANGED <<file, saved>>

Init ==
    /\ keys = InitKeys /\ meta_hit = {} /\ quote_hit = FALSE
    /\ file = <<>> /\ saved = Default

Next ==
    \/ \E key \in KeySet, function \in Functions \cup {Nothing} :
           \/ \E n \in Metas \cup {10} : BindMeta(n, key, function)
           \/ \E first \in KeySet : Bind(<<first, key>>, function)
           \/ Bind(<<key>>, function)
    \/ \E key \in KeySet : Key(key) \/ \E first \in KeySet : CmdType(<<first, key>>)
    \/ \E function \in Functions : CmdParsekey(function)
    \/ Save \/ Restart

Spec == Init /\ [][Next]_vars

----------------------------------------------------------------------------
(* Properties.                                                             *)

TypeOK ==
    /\ keys \in [Places -> [function : Functions \cup {Nothing}, changed : BOOLEAN]]
    /\ meta_hit \subseteq Metas /\ quote_hit \in BOOLEAN
    /\ file \in Seq(Maps \X KeySet \X Functions)
    /\ saved \in [Places -> Functions \cup {Nothing}]

(* Written, and not read back to its place: a brace, the double quote of   *)
(* map 0, and every line behind a brace that opens a block.                *)
LostInFile(p) ==
    \E n \in DOMAIN file :
        /\ <<file[n][1], file[n][2]>> = p
        /\ Unreadable(p) \/ \E m \in 1 .. n - 1 : file[m][2] = Open

(* Who saves the settings and starts again has the keys bound as before,   *)
(* except those that were bound to nothing, the space, and those lost in   *)
(* the file (write_binding, load, bind_it).                                *)
RestartBinds ==
    Restart => \A p \in Places :
        saved[p] # Nothing /\ p[2] # Space /\ ~LostInFile(p) => keys'[p].function = saved[p]
=============================================================================
