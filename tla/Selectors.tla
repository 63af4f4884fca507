----------------------------- MODULE Selectors ------------------------------
(***************************************************************************)
(* The two selectors of the portal's page, SingleSelector.tsx and           *)
(* MultiSelector.tsx.  Each keeps, apart from its parent, the options it    *)
(* offers and the ones it shows as chosen: a record [offered, chosen].      *)
(* The operators are what a selector becomes; its owner adds what onChange  *)
(* does with it.                                                            *)
(*                                                                          *)
(* External: CreatableSelect of react-select, which tells options apart by  *)
(* their values, and to which a new label is one if it differs from the     *)
(* label and from the value of every option.  Labels here are lower case.   *)
(***************************************************************************)
CONSTANTS
    Label,        \* the names of topics a user may choose or type
    Value         \* Value[l]: what createOption makes of label l

ASSUME ValueAssumption == DOMAIN Value = Label

Selector == [offered : SUBSET Label, chosen : SUBSET Label]

(* The labels of which createOption makes the value of l. *)
Alike(l) == {k \in Label : Value[k] = Value[l]}

(* A selector that is mounted: its options are made once, from its first properties. *)
NewSelector(labels, selected) == [offered |-> labels, chosen |-> selected]

(* The menu has an item "Create" for the text l. *)
IsNew(s, l) == \A o \in s.offered \cup s.chosen : l # o /\ l # Value[o]

Clear(s) == [s EXCEPT !.chosen = {}]

(* SingleSelector. *)

PickOne(s, l) == [s EXCEPT !.chosen = {l}]

CreateOne(s, l) == [offered |-> s.offered \cup {l}, chosen |-> {l}]

(* MultiSelector: options that have the value of a chosen one are not in the menu, and
   removing an option removes every one of its value. *)

InMenu(s) == {l \in s.offered : s.chosen \cap Alike(l) = {}}

Add(s, l) == [s EXCEPT !.chosen = @ \cup {l}]

CreateAndAdd(s, l) == Add([s EXCEPT !.offered = @ \cup {l}], l)

Remove(s, l) == [s EXCEPT !.chosen = @ \ Alike(l)]
=============================================================================
