------------------------------ MODULE MCRequests ------------------------------
(* An instance of Requests for TLC: a tree of two leaves, and tokens whose keys
   are a leaf, a leaf with a longer key after it, a leaf written with dot and
   slash, and everything below a branch.                                       *)
EXTENDS Requests

CONSTANTS w, k1, k2, g1, g2, a1, t1, t2, t3

leafC == <<"A", "B", "c">>
leafD == <<"A", "d">>
MCLeaves == {leafC, leafD}

Desc(type, kind, lo, hi, min, max, allowed) ==
  [type |-> type, kind |-> kind, lo |-> lo, hi |-> hi, min |-> min, max |-> max,
   allowed |-> allowed]
MCDescriptions ==
  LET number == Desc("number", "sensor", 0, 255, 10, 200, {}) IN
  {[l \in MCLeaves |-> IF l = leafC THEN d[1] ELSE d[2]] :
     d \in {<<number, Desc("array", "actuator", 0, 255, 0, 255, {})>>,
            <<number, Desc("boolean", "actuator", 0, 0, 0, 0, {})>>,
            <<number, Desc("string", "attribute", 0, 0, 0, 0, {"on"})>>,
            <<Desc("unsupported", "sensor", 0, 0, 0, 0, {}),
              Desc("string", "actuator", 0, 0, 0, 0, {"on"})>>}}

Perm(key, right) == [key |-> key, right |-> right]
Claim(exp, tree, perms) == [exp |-> exp, modifyTree |-> tree, perms |-> perms]
MCClaims ==
  [t \in {t1, t2, t3} |->
    CASE t = t1 -> Claim(TRUE, TRUE, <<Perm(<<"A", ".", "*">>, {"r"}),
                                       Perm(<<"A", ".", "B", ".", "c">>, {"r", "w", "x"}),
                                       Perm(<<"A", ".", "d">>, {"r", "w"})>>)
      [] t = t2 -> Claim(TRUE, FALSE, <<Perm(<<"A", ".", "B", ".", "c">>, {"r", "w"}),
                                        Perm(<<"A", ".", "B", ".", "c", "*">>, {"r"}),
                                        Perm(<<"A", ".", "B", "/", "c">>, {"w"})>>)
      [] t = t3 -> Claim(FALSE, FALSE, <<Perm(<<"*">>, {"r", "w"})>>)]

textC   == <<"A", "/", "B", "/", "c">>
textM   == <<"A", ".", "B", "/", "c">>
textD   == <<"A", ".", "d">>
textAll == <<"A", ".", "*">>
MCTexts == {textC, textM, textD, textAll}
array(n) == <<"array", <<<<"digits", n>>>> >>
MCValues == {<<"number", 300>>, <<"number", 201>>, <<"number", 50>>, <<"text", "on">>,
             <<"bool", "true">>, array(7), array(300)}
MCGetCalls == {<<>>, <<textC, textAll>>}
MCSetCalls == {<<<<textC, <<"number", 50>> >>>>, <<<<textAll, <<"bool", "true">> >>>>,
               <<<<textC, <<"number", 300>> >>, <<textD, <<"text", "on">> >> >>}
=============================================================================
