------------------------------- MODULE MCGui -------------------------------
(* Small instances of Gui. *)
EXTENDS Gui

Itself == {<<o, o>> : o \in Origins}

\* One file's name is the end of the other's: events of "a" fit rows of "ba".
OneInOther == Itself \cup {<<"a", "ba">>}
=============================================================================
