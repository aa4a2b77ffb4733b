------------------------------ MODULE MCQueries ------------------------------
EXTENDS Queries

Number(op, n, v) == [op |-> op, caps |-> FALSE, kind |-> "num", arity |-> n, v |-> v]
Loud(f) == [f EXCEPT !.caps = TRUE]
Text(kind) == [op |-> "", caps |-> FALSE, kind |-> kind, arity |-> 1, v |-> 0]
Plain(v) == [Text("plain") EXCEPT !.v = v]

\* Two neighbouring numbers under every comparator, and the ends of every range.
Core == {Number(op, 1, v) : op \in {"", "gt", "gte", "lt", "lte"}, v \in {3, 4}}
Edges ==
  {Number("eq", 1, 3), Number("ne", 1, 3), Number("lt", 1, 0), Number("lt", 3, 0),
   Number("gt", 1, MaxLong), Number("gt", 3, MaxPacked), Number("lte", 3, MaxEntity),
   Number("", 1, MaxLong + 1), Number("", 1, MaxInt32 + 1), Number("", 1, 0),
   Number("", 1, -1), Number("gt", 3, 3), Loud(Number("gt", 1, 3)), Loud(Number("eq", 1, 3)),
   Number("gt", 2, 3)}
Texts == {Text(k) : k \in Kinds \ {"num", "plain"}}
PrefixedTexts == {[Text("alias") EXCEPT !.op = "eq"], [Text("evm") EXCEPT !.op = "gt"],
                  [Text("hash") EXCEPT !.op = "eq"], [Text("hex") EXCEPT !.op = "gte"]}

MCFirst(rule) ==
  CASE rule.by = "word" -> {Plain(v) : v \in {0, 1, 2, 3, 101, 201, 10001}}
                             \cup {Text("null"), Loud(Plain(0)), Loud(Plain(1))}
    [] rule.by = "any" -> {Plain(v) : v \in 0 .. 2}
                            \cup {Loud(Plain(1)), Text("null"), Text("junk"), Number("", 1, 3)}
    [] OTHER -> Core \cup Edges \cup Texts \cup PrefixedTexts

MCLater(rule) ==
  CASE rule.by \in {"word", "any"} -> {Plain(0), Plain(1), Loud(Plain(1))}
    [] rule.by \in {"account", "contract"} -> Core \cup {Text("alias"), Text("evm")}
    [] rule.by \in {"topic", "hash", "transaction", "hederaTransaction"} -> {Text("hash"), Text("hex")}
    [] rule.by = "timestamp" ->
         {Number(op, 1, 3) : op \in {"", "gt", "gte"}} \cup {Number(op, 1, 5) : op \in {"lt", "lte"}}
           \cup {Number("gt", 1, 4), Number("lte", 1, 3)}
    [] rule.by = "key" -> {Number("gte", 1, 3), Number("lt", 1, 3)}
    [] OTHER -> Core \ {Number("", 1, 4), Number("gt", 1, 4), Number("lt", 1, 3)}

MCMaxValues(e) ==
  IF e = "accounts_nftAllowances" THEN 4
  ELSE IF e \in Logs \cup {"accounts_tokenAllowances", "accounts_nfts"} THEN 3
  ELSE 2
==============================================================================
