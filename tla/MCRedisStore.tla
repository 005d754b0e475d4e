---------------------------- MODULE MCRedisStore ----------------------------
(***************************************************************************)
(* RedisStore for TLC: two keys, two fields, and texts of which one holds  *)
(* blanks and would be a key or a field if it were split at them.          *)
(***************************************************************************)
EXTENDS RedisStore

MCDecimal == [n \in -1 .. 1 |-> CASE n = -1 -> "-1" [] n = 0 -> "0" [] n = 1 -> "1"]
MCWidth   == [t \in {"-1", "0", "1", "v", "v l v", "edited", "", "k", "l", "f", "k l"} |->
                CASE t = "" -> 0 [] t = "-1" -> 2 [] t = "k l" -> 3 [] t = "v l v" -> 5
                  [] t = "edited" -> 6 [] OTHER -> 1]
MCWords   == [t \in DOMAIN MCWidth |->
                CASE t = "" -> <<>> [] t = "v l v" -> <<"v", "l", "v">>
                  [] t = "k l" -> <<"k", "l">> [] OTHER -> <<t>>]

MCKeyLists   == {<<>>, <<"k">>, <<"l", "k">>, <<"k l">>}
MCFieldLists == {<<"f">>, <<"f", "l">>}
MCIntegers   == {-1, 0, 1, 4}

MCUses == [a |-> Method, b |-> {"set", "del", "hset"}]

Database(e, g) == ("k" :> e) @@ ("l" :> g)
Entries == {Absent, String("1"), Volatile(String("v")), List(<<"1", "v l v">>),
            Hash("f" :> "v"), Hash(("f" :> "1") @@ ("l" :> "v"))}
MCDatabases == {Database(e, Absent) : e \in Entries} \cup {Database(String("1"), String("v"))}
=============================================================================
