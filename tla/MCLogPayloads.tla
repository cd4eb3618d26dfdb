--------------------------- MODULE MCLogPayloads ---------------------------
(* Small instances of LogPayloads for TLC.                                 *)
EXTENDS LogPayloads, FiniteSets, TLC

Preset(depth, items, keys, length) ==
  [maxDepth |-> depth, maxArrayItems |-> items, maxObjectKeys |-> keys, maxStringLength |-> length]
SmallBodyPreset == Preset(2, 2, 2, 5)
SmallQueryPreset == Preset(1, 1, 1, 3)
SmallDetailsPreset == Preset(2, 1, 1, 3)

Secrets == {"cardnumber", "password"}
Lower == [cardNumber |-> "cardnumber", PASSWORD |-> "password", user |-> "user"]

Objects(keys, Values) == {Object(keys, values) : values \in [DOMAIN keys -> Values]}
Lists(sizes, Values) == UNION {{List(items) : items \in [1..n -> Values]} : n \in sizes}

(* Texts that fit every preset, the body's alone, and none.                *)
Flat == Lists({0, 2, 3}, {Text(3), Text(6)}) \cup Objects(<<"user">>, {Text(5), Scalar}) \cup
        Objects(<<"user", "PASSWORD">>, {Text(3), Text(6)}) \cup
        {Object(<<"user", "cardNumber", "PASSWORD">>, <<Text(3), Scalar, Text(5)>>)}
Nested == Lists({1}, Flat) \cup Objects(<<"user">>, Flat)
SomeBodies == {Text(3), Text(5), Text(6)} \cup Flat \cup Nested \cup Lists({1}, Nested)

(* Card numbers of four digits and of more.                                *)
Inner == Objects(<<"cardNumber", "user">>, {Text(4), Text(5), BigNumber}) \cup
         Lists({1}, {Text(4), BigNumber})
SomeData ==
  {Text(4)} \cup Inner \cup Lists({2}, Inner) \cup Objects(<<"PASSWORD">>, Inner) \cup
  {Object(<<"user", "PASSWORD">>, <<List(<<inner>>), Text(4)>>) : inner \in Inner}

(* The payloads by how deeply they are nested, with their parts.           *)
Level0 == {Text(length) : length \in 3..6} \cup {Scalar, BigNumber}
Level1 == Flat \cup Inner
Level2 == Nested \cup Lists({1, 2}, Inner) \cup Objects(<<"PASSWORD">>, Inner)
SomePayloads == Level0 \cup Level1 \cup Level2 \cup SomeBodies \cup SomeData
LevelOf ==
  [value \in SomePayloads |->
     IF value \in Level0 THEN 0 ELSE IF value \in Level1 THEN 1 ELSE IF value \in Level2 THEN 2 ELSE 3]

SomePaths == UNION {[1..n -> 1..2] : n \in 0..3}
=============================================================================
