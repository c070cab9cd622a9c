------------------------------ MODULE MCReaders ------------------------------
EXTENDS EvalCall

D(mant, exp) == [mant |-> mant, exp |-> exp]
N(n) == Decimal(n, 0)
Prim(shape, values, style, place, axis) ==
  [is |-> "primitive", shape |-> shape, values |-> values, style |-> style,
   at |-> place, axis |-> axis]
Bool(op, operands) == [is |-> "boolean", op |-> op, operands |-> operands]
Unit(spelling) == [is |-> "unit", spelling |-> spelling]
Tolerance(v) == [is |-> "tolerance", value |-> v]
BodyItem(name, statements) == [is |-> "body", name |-> name, statements |-> statements]
Vec(x, y, z) == <<N(x), N(y), N(z)>>

\* One program with an item of each kind, and one program per constructor that
\* varies the style, the unit and the placement
Small == <<Unit("cm"),
           BodyItem(<<"w">>, <<Prim("box", <<N(2), D(5, 0 - 1), N(4)>>, "mixed", <<>>, <<>>),
                               Prim("sphere", <<N(3)>>, "placed", Vec(1, 0 - 2, 0), <<>>)>>)>>
Mixed == <<Tolerance(D(1, 0 - 2)),
           BodyItem(<<"w">>, <<Bool("union", <<"w", "d">>)>>),
           Unit("in"),
           BodyItem(<<"d", "2">>, <<Prim("torus", <<N(5), N(1)>>, "reversed", Vec(0, 1, 0), Vec(1, 0, 0))>>)>>
Shapes == <<Unit("mm"),
            BodyItem(<<"w">>, <<Prim("cylinder", <<N(1), N(2)>>, "reversed", <<>>, Vec(0, 0, 0)),
                                Prim("cone", <<N(2), N(0), N(3)>>, "reversed", Vec(1, 2, 3), Vec(0, 0, 1)),
                                Prim("cone", <<N(0), N(0), N(3)>>, "mixed", <<>>, <<>>)>>),
            Unit("foot"),
            BodyItem(<<"e">>, <<>>),
            Unit("meter"),
            BodyItem(<<"d">>, <<Prim("box", <<D(1, 1), N(0), N(1)>>, "named", <<>>, <<>>),
                                Prim("cylinder", <<N(1), N(20)>>, "mixed", Vec(1, 1, 1), <<>>)>>)>>
MCLayouts == {<<>>, <<"\n", "/", "/", "\"", "\n">>, <<"/", "*", "*", "/">>}
MCDrafts == [program : {Small}, layout : MCLayouts] \cup
            [program : {Mixed, Shapes}, layout : {<<>>}]

\* Short sources of every symbol the lexer tells apart
Alphabet == {"e", "2", "-", ".", "/", "*", "\"", "\\", "\n"}
MCFragments == UNION {[1..n -> Alphabet] : n \in 0..3} \cup
               {<<"/", "*">> \o s : s \in [1..2 -> Alphabet]} \cup
               {<<"2", "e">> \o s : s \in [1..2 -> Alphabet]}

MCKeys == {";", "}", "{", ")", ",", "box", "body", "unit", "w", "2", "\"", "-"}

MCSlips == -2 .. 1

Entry(key, v) == <<<<key>>, v>>
MCExtras ==
  {<<>>,
   <<Entry("source", Text(<<"w">>))>>,
   <<Entry("w", Value("Array", <<Null, Value("Bool", TRUE), Value("Bool", FALSE),
                                 Value("NotFinite", <<>>)>>)),
     Entry("w", Object(<<>>))>>,
   <<Entry("w", Value("Array", <<Value("Int", 127), Value("Int", 0 - 128), Value("Int", 0)>>))>>,
   <<Entry("w", Value("Array", [i \in 1..7 |->
        Value("Double", <<D(15, 0), D(0 - 15, 0 - 1), D(1, 0 - 4), D(1, 0 - 5),
                          D(12, 3), D(9, 1), D(1, 2)>>[i])]))>>,
   <<Entry("w", Value("Array", <<Value("Array", <<>>), Object(<<Entry("e", Text(<<>>))>>)>>)),
     <<<<"\"", "\\", "\n", "\t", Control>>, Text(<<"\"", "\\", "\\", "n", Control>>)>>>> }
==============================================================================
