----------------------------- MODULE MCConsole -----------------------------
(* The values that the run of the panels gives their constants.             *)
EXTENDS Console

T(n, u) == [n |-> n, unit |-> u]
CTexts ==
    {<<T(1, "h"), T(30, "m")>>, <<T(30, "m"), T(1, "h")>>, <<T(0, "m")>>, <<T(90, "m")>>,
     <<T(3, "w"), T(6, "d"), T(25, "h")>>, <<T(1, "y"), T(11, "M"), T(30, "d")>>,
     <<T(2, "M"), T(59, "m")>>, <<T(5, "M")>>}

CNaN == -1
CTyped == {CNaN, 0, 9999, 10000, 10005, 36000000, 36000010}

CTabs == <<"chat", "search", "alerts", "map">>

CParent(id) == CASE id = "s2" -> "s1" [] id = "s3" -> "s2" [] OTHER -> ""
=============================================================================
