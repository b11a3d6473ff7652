---------------------------- MODULE MCTransformer ----------------------------
(* Transformer with three strings, one of which has a NUL after its first    *)
(* character, and results of every shape transform tells apart.              *)
EXTENDS Transformer

MCStrings == {"", "a", "a0b"}
MCCut == [s \in MCStrings |-> IF s = "a0b" THEN "a" ELSE s]
MCInputs == {<<"", <<>>>>, <<"a0b", <<"a", "a0b">>>>}

Number == Object
Good == {Array(<<Text(s), Array(q)>>) :
            s \in {"a0b"}, q \in {<<>>, <<Text("a0b"), Text("")>>}}
Bad  == {Undefined, Number, Array(<<Text("a")>>), Array(<<Number, Array(<<>>)>>),
         Array(<<Text("a"), Text("a")>>),
         Array(<<Text("a"), Array(<<Text("a"), Number>>)>>),
         \* a sparse array of two lines
         Array(<<Text("a"), [Array(<<Text("a")>>) EXCEPT !.length = 2]>>)}
Trapped == {[Object EXCEPT !.length = Trap], Array(<<Trap, Array(<<>>)>>),
            Array(<<Text("a"), Trap>>),
            Array(<<Text("a"), [Array(<<>>) EXCEPT !.length = Trap]>>),
            Array(<<Text("a"), [Array(<<>>) EXCEPT !.length = -1]>>),
            Array(<<Text("a"), Array(<<Text("a"), Trap>>)>>)}
MCGarbage == {<<>>, <<"a">>}
MCResults == Good \cup Bad \cup Trapped
=============================================================================
