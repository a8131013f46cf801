----------------------------- MODULE MCPlanning -----------------------------
(* Instances of Planning for TLC. *)
EXTENDS Planning

G(id) == [id |-> id, statement |-> TRUE, doneWhen |-> TRUE]

\* Goals without ids, with ids that clash or are blank, one that is not complete, too many.
SomeGoals ==
    {<<>>, <<G(None)>>, <<G(2), G(None)>>, <<G(None), G(1)>>, <<G(0)>>,
     <<G(None), G(None), G(None)>>,
     <<G(None), [G(None) EXCEPT !.doneWhen = FALSE]>>}

\* "a", "a/b", "a/../b" with "./a", "a/../../b", "b/.." with "a", "/a" with " /a", what is no
\* text and "b/", and none at all; then "./ a", and "b /" with "b", whose results are no results.
SomeScopes ==
    {{}, {<<"a">>}, {<<"a", "b">>}, {<<"a", Up, "b">>, <<Here, "a">>},
     {<<"a", Up, Up, "b">>}, {<<"b", Up>>, <<"a">>},
     {<<Empty, "a">>, <<" ", "a">>, None, <<"b", Empty>>},
     {<<Here, " a">>}, {<<"b ", Empty>>, <<"b">>}}

Left == [s \in Segments |-> IF s = " a" THEN "a" ELSE IF s = " " THEN Empty ELSE s]
Right == [s \in Segments |-> IF s = "b " THEN "b" ELSE IF s = " " THEN Empty ELSE s]

\* Nothing, and the first item.
SomeDeps == {{}, {0}}

=============================================================================
