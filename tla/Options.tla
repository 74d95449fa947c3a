------------------------------- MODULE Options -------------------------------
(***************************************************************************)
(* The options (option/option.go).  They are of three kinds, which a merge *)
(* treats differently: fields, whose zero value means "not given", flags,  *)
(* which only an OptionFunc sets, and Debug.  A field that nobody here     *)
(* reads may be left out of Fields.                                        *)
(***************************************************************************)
CONSTANTS
    Fields,                 \* strings, numbers and pointers: "APIKey", "HTTPHost" ...
    Flags,                  \* "IsSecure", "AutoConnect" ...
    Values, Zero,           \* of the fields
    Defaults                \* of the fields, in DefaultOption

FieldValues == [Fields -> Values \cup {Zero}]

ASSUME OptionsAssumption == Zero \notin Values /\ Defaults \in FieldValues

Option == [field : FieldValues, flag : [Flags -> BOOLEAN], Debug : BOOLEAN]

DefaultOption ==
    [field |-> Defaults, flag |-> [f \in Flags |-> TRUE], Debug |-> FALSE]

(* What is not given keeps its value; flags are left alone, but not Debug.   *)
MergeOption(dst, src) ==
    [field |-> [f \in Fields |-> IF src.field[f] = Zero THEN dst.field[f] ELSE src.field[f]],
     flag |-> dst.flag,
     Debug |-> src.Debug]
=============================================================================
