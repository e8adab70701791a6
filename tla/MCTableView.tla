------------------------------ MODULE MCTableView ------------------------------
(* Four keys of two interfaces, interleaved.                                *)
EXTENDS TableView

MCKey == 1..4
MCOf  == <<1, 2, 1, 1>>

==============================================================================
