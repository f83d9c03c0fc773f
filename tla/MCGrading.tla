----------------------------- MODULE MCGrading -----------------------------
(***************************************************************************)
(* Texts of up to five tokens; results of one column and up to three rows  *)
(* of three cells, two of which print alike; a cap of three rows.          *)
(***************************************************************************)
EXTENDS Grading

MCTexts == UNION {[1..n -> Tokens] : n \in 1..5}

Null == [type |-> "null", text |-> 0]
One == [type |-> "number", text |-> 1]
TextOne == [type |-> "text", text |-> 1]

MCRows == {<<c>> : c \in {Null, One, TextOne}}

MCMaxRows == 3

MCQueries ==
  [rows : UNION {[1..n -> MCRows] : n \in 0..MCMaxRows}, end : {"rows"}]
    \cup [rows : {[i \in 1..n |-> <<One>>] : n \in {0, 2, MCMaxRows, MCMaxRows + 1}},
          end : Ends]

MCColumnLists == {<<"id">>, <<"name">>}

MCPinnedTasks ==
  [mode : {"ORDERED", "UNORDERED"},
   answer : [columns : {<<"id">>},
             rows : {<<>>, <<<<One>>, <<Null>>, <<TextOne>>>>,
                     <<<<Null>>, <<TextOne>>, <<Null>>>>}]]
=============================================================================
