---------------------------- MODULE MCTagPipeline ----------------------------
(***************************************************************************)
(* One statement of each kind the guard can tell apart, at both sides of   *)
(* every limit: RowCap rows and one more, a cost that just fits the budget *)
(* and the next that does not, alone and shared with EXPLAIN.              *)
(***************************************************************************)
EXTENDS TagPipeline

Plain == [select |-> TRUE, single |-> TRUE, permitted |-> TRUE, explain_cost |-> 1,
          cost |-> 1, runs |-> TRUE, rows |-> 1, json |-> TRUE]

MCStatements ==
    {Plain,
     [Plain EXCEPT !.select = FALSE],
     [Plain EXCEPT !.single = FALSE],
     [Plain EXCEPT !.permitted = FALSE],
     [Plain EXCEPT !.runs = FALSE],
     [Plain EXCEPT !.json = FALSE],
     [Plain EXCEPT !.rows = RowCap],
     [Plain EXCEPT !.rows = RowCap + 1]}
    \cup {[Plain EXCEPT !.explain_cost = e, !.cost = c] : e \in {1, 2, 3}, c \in {2, 3, 4, 5, 6}}
=============================================================================
