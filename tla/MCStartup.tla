------------------------------ MODULE MCStartup -----------------------------
(***************************************************************************)
(* Startup for TLC: files of four lines of every shape that the parser     *)
(* tells apart, more lines than the list has entries; choices in the list, *)
(* one that is overwritten, and one beyond it.                             *)
(***************************************************************************)
EXTENDS Startup

Line(text, comment) == [text |-> text, comment |-> comment]

Shapes == {
  Line(<<"name", "int", "setting", "int", "int", "int">>, <<>>),
  Line(<<"name", "int", "setting", "int", "int", "">>, <<"name">>),
  Line(<<"name", "int", "setting", "">>, <<"int", "int">>),     \* cut short
  Line(<<"name", "int", "int", "int", "int", "int">>, <<>>),    \* no setting
  Line(<<"">>, <<"name", "int", "setting", "int", "int">>),     \* out of use
  Line(<<"">>, <<"int", "setting", "int", "int">>),
  Line(<<"long", "int", "setting", "int", "int">>, <<>>) }
=============================================================================
