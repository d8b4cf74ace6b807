---------------------------- MODULE MCClassString ----------------------------
(***************************************************************************)
(* ScriptClass is a byte, so a program can hold any of 256 class values   *)
(* (a class read back from storage or converted from an integer) and ask  *)
(* for its name.                                                           *)
(***************************************************************************)
EXTENDS Classifier

VARIABLE class

Init == class \in 0 .. 255
Next == UNCHANGED class

(* The comment on ScriptClass.String promises "Invalid" for an invalid     *)
(* class and a name otherwise: String never panics, whatever the byte.    *)
ClassStringTotal == ClassString(class) # "panic"

=============================================================================
