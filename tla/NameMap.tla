------------------------------- MODULE NameMap -------------------------------
(***************************************************************************)
(* What a directory promises: a map from names to metas.  A name is added  *)
(* and renamed only to a name that is not used.                            *)
(*                                                                         *)
(* A deletion is less than the map one would ask for.  It leaves a blank   *)
(* entry behind and loses the entry that sorts last, unless nothing sorts  *)
(* behind the mark it deletes with.  Any call may also be refused.         *)
(***************************************************************************)
EXTENDS Integers

CONSTANTS Names,        \* the names callers give, in the order of strcmp
          Metas,        \* the metas names lead to
          GONE,         \* the name that marks an entry for deletion
          BLANK,        \* the empty name
          NULL          \* the meta of a blank entry

VARIABLE map            \* the names in use, and the meta of each

Used == DOMAIN map

With(m, name, meta) ==
    [n \in DOMAIN m \cup {name} |-> IF n = name THEN meta ELSE m[n]]

Without(m, gone) == [n \in DOMAIN m \ gone |-> m[n]]

Init == map = [n \in {} |-> NULL]

Add(name, meta) ==
    /\ name \notin Used
    /\ map' = With(map, name, meta)

Rename(old, new) ==
    /\ old \in Used
    /\ new \notin Used
    /\ map' = With(Without(map, {old}), new, map[old])

(* The names that sort behind the mark.                                    *)
Behind(name) == {n \in Used \ {name} : n > GONE}

Delete(name) ==
    /\ name \in Used
    /\ \/ /\ Behind(name) = {}
          /\ map' = Without(map, {name})
       \/ \E last \in Behind(name) :
             /\ \A n \in Behind(name) : n <= last
             /\ map' = With(Without(map, {name, last}), BLANK, NULL)

Next ==
    \/ \E name \in Names, meta \in Metas : Add(name, meta)
    \/ \E old, new \in Names : Rename(old, new)
    \/ \E name \in Names : Delete(name)

Spec == Init /\ [][Next]_map
=============================================================================
