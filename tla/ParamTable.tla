----------------------------- MODULE ParamTable -----------------------------
(***************************************************************************)
(* The parameter table of a request, as a handler edits it and iterates    *)
(* over it through Apache::ParamTable (paramtable.c).  The table is an     *)
(* apr_table: an array of entries with keys that are compared without      *)
(* regard to case, moved to a larger place when it is full.                *)
(***************************************************************************)
EXTENDS Text, Loops

CONSTANTS
  Lower,        \* the upper case characters, and the lower case ones for them
  TableNelts,   \* DEFAULT_TABLE_NELTS, the entries a table has room for at first
  EditKeys,     \* the names handlers set
  EditValues,   \* the values they set: one, or those of an Apache::MultiVal
  MaxEdits      \* bound: edits of the table

VARIABLES
  parms,        \* the entries, [key, val]
  nalloc,       \* how many there is room for
  each,         \* the loop that runs: whether on, the index of the next entry,
                \* whether the entries were moved and what they were then,
                \* hdrs, whether it read past them, the keys there were and
                \* those seen, and the kinds of edits its block made
  edits         \* how many edits there were

tableVars == <<parms, nalloc, each, edits>>
NotLooping == [on |-> FALSE, next |-> 1, moved |-> FALSE, hdrs |-> <<>>,
               garbage |-> FALSE, keys |-> {}, seen |-> {}, edits |-> {}]

ASSUME TableAssumption ==
  /\ Lower \in [DOMAIN Lower -> Bytes]
  /\ TableNelts \in Nat \ {0}
  /\ EditKeys \subseteq Text /\ EditValues \subseteq Seq(Text)
  /\ MaxEdits \in Nat

Kinds == {"set", "add", "late", "multi", "unset", "clear"}
TableTypeOK ==
  /\ parms \in Seq(Entries)
  /\ nalloc \in Nat
  /\ each \in [on : BOOLEAN, next : Nat \ {0}, moved : BOOLEAN, hdrs : Seq(Entries),
               garbage : BOOLEAN, keys : SUBSET Text, seen : SUBSET Text,
               edits : SUBSET Kinds]
  /\ edits \in 0..MaxEdits

TableInit ==
  /\ parms = <<>>
  /\ nalloc = TableNelts
  /\ each = NotLooping
  /\ edits = 0

Fold(key) ==
  [i \in 1..Len(key) |-> IF key[i] \in DOMAIN Lower THEN Lower[key[i]] ELSE key[i]]
HasKey(entry, key) == Fold(entry.key) = Fold(key)

-----------------------------------------------------------------------------
(* apr_table_*, and room for what is added.                                *)

TableAdd(t, key, val) == Append(t, [key |-> key, val |-> val])
TableUnset(t, key) ==
  FlattenSeq([i \in 1..Len(t) |-> IF HasKey(t[i], key) THEN <<>> ELSE <<t[i]>>])
\* The first entry gets the value, the others go.
TableSet(t, key, val) ==
  LET first == SelectInSeq(t, LAMBDA e : HasKey(e, key))
  IN  IF first = 0 THEN TableAdd(t, key, val)
      ELSE Append(SubSeq(t, 1, first - 1), [t[first] EXCEPT !.val = val])
             \o TableUnset(SubSeq(t, first + 1, Len(t)), key)
\* paramtable_get: all values of the key.
Values(t, key) ==
  FlattenSeq([i \in 1..Len(t) |-> IF HasKey(t[i], key) THEN <<t[i].val>> ELSE <<>>])

\* The room there is for n entries: twice as much whenever it is all used.
Room(alloc, n) == While(LAMBDA a : a < n, LAMBDA a : 2 * a, alloc, n)

Become(t) ==
  /\ parms' = t
  /\ nalloc' = Room(nalloc, Len(t))

-----------------------------------------------------------------------------
(* Apache::ParamTable.                                                     *)

\* An edit, of a kind, that leaves t.
Edit(kind, t) ==
  /\ edits < MaxEdits
  /\ edits' = edits + 1
  /\ Become(t)
  /\ each' = IF each.on
       THEN [each EXCEPT !.edits = @ \cup {kind},
                         !.moved = @ \/ Len(t) > nalloc,
                         !.hdrs = IF ~ each.moved /\ Len(t) > nalloc
                                    THEN SubSeq(t, 1, nalloc) ELSE @]
       ELSE each

\* set(name, val) with a String, which replaces the values there are.
UnsetAndAdd(key, val) == TableAdd(TableUnset(parms, key), key, val)
SetFirst(key, val) == TableSet(parms, key, val)
Kind(key) ==
  LET first == SelectInSeq(parms, LAMBDA e : HasKey(e, key))
  IN  IF first = 0 THEN "add" ELSE IF first >= each.next - 1 THEN "set" ELSE "late"
ParamSet(key, val) == Edit(Kind(key), SetFirst(key, val))

\* set(name, val) with a MultiVal: the values there are go, then its own are
\* added, up to one that is no string.
AddAll(t, key, vals) == t \o [i \in 1..Len(vals) |-> [key |-> key, val |-> vals[i]]]
OldValuesGone(key) == TableUnset(parms, key)
ParamSetMulti(key, vals, strings) ==
  Edit("multi", AddAll(OldValuesGone(key), key, SubSeq(vals, 1, strings)))

ParamUnset(key) == Edit("unset", TableUnset(parms, key))
ParamClear == Edit("clear", <<>>)

\* each: the entries are read where they were when the loop began, as many
\* as there are now.
EachBegin ==
  /\ ~ each.on
  /\ each' = [NotLooping EXCEPT !.on = TRUE, !.keys = {Fold(e.key) : e \in ToSet(parms)}]
  /\ UNCHANGED <<parms, nalloc, edits>>

Hdrs == IF each.moved THEN each.hdrs ELSE parms
EachNext ==
  /\ each.on
  /\ each.next <= Len(parms)
  /\ each' = IF each.next <= Len(Hdrs)
       THEN [each EXCEPT !.next = @ + 1, !.seen = @ \cup {Fold(Hdrs[each.next].key)}]
       ELSE [each EXCEPT !.next = @ + 1, !.garbage = TRUE]
  /\ UNCHANGED <<parms, nalloc, edits>>

EachEnd ==
  /\ each.on
  /\ each.next > Len(parms)
  /\ each' = [each EXCEPT !.on = FALSE]
  /\ UNCHANGED <<parms, nalloc, edits>>

TableNext ==
  \/ \E key \in EditKeys, vals \in EditValues :
       \/ Len(vals) = 1 /\ ParamSet(key, vals[1])
       \/ \E strings \in 0..Len(vals) : ParamSetMulti(key, vals, strings)
  \/ \E key \in EditKeys : ParamUnset(key)
  \/ ParamClear
  \/ EachBegin
  \/ EachNext
  \/ EachEnd

-----------------------------------------------------------------------------
(* Properties.                                                             *)

\* A loop over the table whose block gives names new values (set with a
\* String) when it comes to them first, or before, comes to every name, and
\* reads no entry past the place the table was at when the loop began, though
\* set drops entries the loop has not come to.
EachSeesEveryName ==
  each.edits \subseteq {"set"} /\ each.keys # {} /\ ~ each.on =>
    each.keys \subseteq each.seen /\ ~ each.garbage
=============================================================================
