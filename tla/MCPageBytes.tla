---------------------------- MODULE MCPageBytes ----------------------------
(***************************************************************************)
(* Small pages for TLC.                                                    *)
(***************************************************************************)
EXTENDS PageBytes

MCSize   == [t \in Type |-> CASE t = VARCHAR_16 -> 2 [] t = "INT" -> 2 [] OTHER -> 1]
MCNumber == [t \in Type \ {VARCHAR_16} |->
               IF t = "INT" THEN {<<0, 1>>, <<1, 1>>} ELSE {<<0>>, <<1>>}]
MCText   == {<<>>, <<1>>, <<1, 1>>, <<1, 1, 1>>}

(* One row to a page, two, the most there are bits for, and none. *)
MCLayouts ==
  {<<"INT", VARCHAR_16>>, <<VARCHAR_16>>, <<"BOOL">>, <<"INT", "INT", VARCHAR_16>>}
=============================================================================
