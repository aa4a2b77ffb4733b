------------------------------- MODULE Filters -------------------------------
(***************************************************************************)
(* The validators of core/utils.ts, as predicates over filters and lists   *)
(* of filters.  A filter "gte:0.0.5" is a comparator and a payload: its    *)
(* kind (what the text looks like), the number of its dot-separated parts  *)
(* and its number.  The caller may write the comparator, or a word, in     *)
(* capitals.                                                               *)
(*                                                                         *)
(* A rule is a validator with the options a builder or a mapper calls it   *)
(* with; Accepts(list, rule) is that call returning instead of throwing.   *)
(***************************************************************************)
EXTENDS Integers, Sequences, SequencesExt, FiniteSetsExt

CONSTANTS
  MaxLong,     \* MAX_SIGNED_INT64: integers, and timestamps in nanoseconds
  MaxInt32,
  MaxEntity,   \* the largest request ID
  MaxPacked,   \* the largest ID of a range: its shard has nine bits, not ten
  MaxKey,      \* 2^256 - 1, the largest storage key
  Most,        \* how often a parameter may be repeated
  Window       \* seven days of nanoseconds

ASSUME FiltersAssumption ==
  /\ {MaxLong, MaxInt32, MaxEntity, MaxPacked, MaxKey} \subseteq Nat \ {0}
  /\ MaxPacked <= MaxEntity /\ MaxPacked <= MaxLong
  /\ Most \in Nat \ {0, 1} /\ Window \in Nat \ {0}

AllOps == {"eq", "ne", "gt", "gte", "lt", "lte"}
EqualOps == {"eq"}
NoNeOps == AllOps \ {"ne"}
EqualOrLessOps == {"eq", "lt", "lte"}

Lower == {"gt", "gte"}
Upper == {"lt", "lte"}

\* The payloads: "num" is decimal parts (of an ID, or seconds and nanoseconds), "hex" 0x
\* and digits, "evm" forty hex digits, "solidity" such an address that encodes an entity,
\* "alias" and "short" a canonical account alias of a usual and of another length, "hash"
\* and "hash48" 64 and 96 hex digits, "txid" a transaction ID, "plain" a word, a flag or a
\* length that a set of the rule lists, "null" itself, "junk" anything else.
Kinds == {"num", "hex", "evm", "solidity", "alias", "short", "hash", "hash48", "txid",
          "plain", "null", "junk"}

\* A word has no comparator, and only a comparator or a word has capitals that count.
Filter ==
  {f \in [op : AllOps \cup {""}, caps : BOOLEAN, kind : Kinds, arity : 1 .. 3, v : Int] :
     /\ f.kind = "plain" => f.op = ""
     /\ f.caps => f.op # "" \/ f.kind = "plain"}

\* The comparator a filter has; no prefix means equality.
Operator(f) == IF f.op = "" THEN "eq" ELSE f.op

\* What a filter means: the numbers that satisfy it.
Satisfies(x, f) ==
  CASE Operator(f) = "eq" -> x = f.v [] f.op = "ne" -> x # f.v
    [] f.op = "gt" -> x > f.v        [] f.op = "gte" -> x >= f.v
    [] f.op = "lt" -> x < f.v        [] f.op = "lte" -> x <= f.v

\* parseComparatorValue, requireComparator aside: an allowed comparator or none; only some
\* callers fold its case.
parseComparatorValue(f, ops, fold) == f.op = "" \/ (f.op \in ops /\ (f.caps => fold))

------------------------------------------------------------------------------
(***************************************************************************)
(* Payloads.                                                               *)
(***************************************************************************)
IsEvm(f) == f.kind \in {"evm", "solidity"}
IsHexDigits(f) == (f.kind = "num" /\ f.arity = 1) \/ f.kind \in {"hex", "evm", "solidity", "hash"}
Decimal(f, low, high) == f.kind = "num" /\ f.arity = 1 /\ f.v \in low .. high
Instant(f) == f.kind = "num" /\ f.arity <= 2 /\ f.v \in 0 .. MaxLong
HexNumber(f) == f.kind = "hex" /\ f.v \in 0 .. MaxLong

isRequestEntityId(f) == f.kind = "num" /\ f.v \in 0 .. MaxEntity

validateEntityIdRangeValue(f) ==
  /\ f.kind = "num" /\ f.v \in 0 .. MaxPacked
  /\ ~(f.op = "gt" /\ f.v = MaxPacked)

validateEntityIdFilter(f, ops) ==
  parseComparatorValue(f, ops, TRUE) /\ validateEntityIdRangeValue(f)

validatePrimaryEntityIdRangeFilter(f, ops) ==
  /\ validateEntityIdFilter(f, ops)
  /\ ~(f.op = "lt" /\ f.arity = 3 /\ f.v = 0)

validateAccountIdFilter(f, ops) ==
  /\ parseComparatorValue(f, ops, FALSE)
  /\ \/ isRequestEntityId(f)
     \/ Operator(f) = "eq" /\ (IsEvm(f) \/ f.kind \in {"alias", "short"})

validateEntityIdOrEvm(f) == isRequestEntityId(f) \/ IsEvm(f)

validateEntityIdOrAliasOrEvm(f) == validateEntityIdOrEvm(f) \/ f.kind \in {"alias", "short"}

validateJavaAccountIdPath(f) == validateEntityIdOrEvm(f) \/ f.kind = "alias"

validateTokenIdOrAddress(f) == isRequestEntityId(f) \/ f.kind = "solidity"

validateContractIdFilter(f, ops) ==
  /\ parseComparatorValue(f, ops, FALSE)
  /\ isRequestEntityId(f) \/ (Operator(f) = "eq" /\ IsEvm(f))

validateContractIdOrAddress(f) == isRequestEntityId(f) \/ IsEvm(f)

validateContractFromFilter(f, ops) ==
  parseComparatorValue(f, ops, FALSE) /\ validateEntityIdOrEvm(f)

validateIntegerFilter(f, ops, low, high) ==
  parseComparatorValue(f, ops, FALSE) /\ Decimal(f, low, high)

validateJavaLongRangeFilter(f, ops, low, rejectLtZero) ==
  /\ parseComparatorValue(f, ops, TRUE)
  /\ Decimal(f, low, MaxLong)
  /\ ~(f.op = "gt" /\ f.v = MaxLong)
  /\ ~(rejectLtZero /\ f.op = "lt" /\ f.v = 0)

\* Also validateContractResultBlockNumber, with equality only.
validateBlockNumberFilter(f, ops) ==
  parseComparatorValue(f, ops, FALSE) /\ (HexNumber(f) \/ Decimal(f, 0, MaxLong))

validateHookStorageKey(f) ==
  /\ parseComparatorValue(f, NoNeOps, FALSE)
  /\ IsHexDigits(f) /\ f.v \in 0 .. MaxKey
  /\ ~(f.op = "gt" /\ f.v = MaxKey) /\ ~(f.op = "lt" /\ f.v = 0)

validateTimestampFilter(f, ops) ==
  parseComparatorValue(f, ops, FALSE) /\ Instant(f)

validateJavaTimestampFilter(f) ==
  /\ parseComparatorValue(f, NoNeOps, TRUE)
  /\ Instant(f)
  /\ ~(f.op = "gt" /\ f.v = MaxLong)

validateContractStateSlot(f) == parseComparatorValue(f, NoNeOps, FALSE) /\ IsHexDigits(f)

validateContractHashFilter(f) ==
  parseComparatorValue(f, EqualOps, FALSE) /\ f.kind \in {"hash", "hash48"}

validateLogTopic(f) == f.op = "" /\ IsHexDigits(f)
validateTransactionIdOrHash(f) == f.op = "" /\ f.kind \in {"txid", "hash"}
\* Sixty-four hex digits are Base64 too.
validateTransactionIdOrHederaHash(f) == f.op = "" /\ f.kind \in {"txid", "hash", "hash48"}
validateBlockHashOrNumber(f) ==
  f.op = "" /\ (Decimal(f, 0, MaxLong) \/ f.kind \in {"hash", "hash48"})

------------------------------------------------------------------------------
(***************************************************************************)
(* Rules.                                                                  *)
(***************************************************************************)
\* A validator and its options; the options a caller leaves out are these.
Rule(by) ==
  [by |-> by, ops |-> AllOps, low |-> 0, high |-> MaxLong, allowed |-> {},
   rejectLtZero |-> FALSE, primary |-> FALSE, most |-> Most, alone |-> FALSE,
   lowers |-> Most, uppers |-> Most, fold |-> FALSE, ordered |-> FALSE, nullable |-> FALSE]

OfOps(rule, ops) == [rule EXCEPT !.ops = ops]
\* At most one equality, standing alone, or one lower and one upper bound.
Structured(rule) == [rule EXCEPT !.alone = TRUE, !.lowers = 1, !.uppers = 1]
\* At most one lower and one upper bound, and any equalities.
Bounded(rule) == [rule EXCEPT !.lowers = 1, !.uppers = 1]
Ordered(rule) == [rule EXCEPT !.ordered = TRUE]
Times(rule, n) == [rule EXCEPT !.most = n]

Nullable(rule) == [rule EXCEPT !.nullable = TRUE, !.most = 1]

\* Flags, numbers and lengths: the members a validator lists, compared as they are.
Word(allowed) == [Rule("word") EXCEPT !.allowed = allowed, !.most = 1]
Flag == Word({0, 1})
\* Words whose case a validator folds before it compares them, or does not look at.
Choice(allowed) == [Word(allowed) EXCEPT !.fold = TRUE]
Order == Choice({0, 1})
AnyText == Choice(0 .. 200)

EntityRange == [Rule("entityRange") EXCEPT !.most = 2]
Primary(rule) == [rule EXCEPT !.primary = TRUE]
JavaLong(low) == [Rule("javaLong") EXCEPT !.low = low, !.most = 2]
Decimals(low, high) == [Rule("integer") EXCEPT !.low = low, !.high = high]
Exactly(low, high) == [Decimals(low, high) EXCEPT !.ops = {}, !.most = 1]

LogIndex == Structured(OfOps(Decimals(0, MaxInt32), NoNeOps))

JavaTimes == [Rule("javaTimestamp") EXCEPT !.most = 2]

\* One value of a list.
ValueOk(f, r) ==
  CASE r.by = "word" -> f.kind = "plain" /\ f.v \in r.allowed /\ (f.caps => r.fold)
    [] r.by = "entityRange" -> IF r.primary THEN validatePrimaryEntityIdRangeFilter(f, r.ops)
                               ELSE validateEntityIdFilter(f, r.ops)
    [] r.by = "entity" -> f.op = "" /\ isRequestEntityId(f)
    [] r.by = "account" -> validateAccountIdFilter(f, r.ops)
    [] r.by = "anyAccount" -> f.op = "" /\ validateEntityIdOrAliasOrEvm(f)
    [] r.by = "javaAccount" -> f.op = "" /\ validateJavaAccountIdPath(f)
    [] r.by = "entityOrEvm" -> parseComparatorValue(f, r.ops, FALSE) /\ validateEntityIdOrEvm(f)
    [] r.by = "evm" -> f.op = "" /\ IsEvm(f)
    [] r.by = "token" -> parseComparatorValue(f, r.ops, FALSE) /\ validateTokenIdOrAddress(f)
    [] r.by = "contract" -> validateContractIdFilter(f, r.ops)
    [] r.by = "contractPath" -> f.op = "" /\ validateContractIdOrAddress(f)
    [] r.by = "from" -> validateContractFromFilter(f, r.ops)
    [] r.by = "integer" -> validateIntegerFilter(f, r.ops, r.low, r.high)
    [] r.by = "javaLong" -> validateJavaLongRangeFilter(f, r.ops, r.low, r.rejectLtZero)
    [] r.by = "block" -> validateBlockNumberFilter(f, r.ops)
    [] r.by = "key" -> validateHookStorageKey(f)
    [] r.by = "timestamp" -> validateTimestampFilter(f, r.ops)
    [] r.by = "javaTimestamp" -> validateJavaTimestampFilter(f)
    [] r.by = "slot" -> validateContractStateSlot(f)
    [] r.by = "hash" -> validateContractHashFilter(f)
    [] r.by = "topic" -> validateLogTopic(f)
    [] r.by = "transaction" -> validateTransactionIdOrHash(f)
    [] r.by = "hederaTransaction" -> validateTransactionIdOrHederaHash(f)
    [] r.by = "blockId" -> validateBlockHashOrNumber(f)
    [] r.by = "any" -> TRUE

------------------------------------------------------------------------------
(***************************************************************************)
(* Lists.                                                                  *)
(***************************************************************************)
CountOf(list, ops) == Cardinality({i \in DOMAIN list : Operator(list[i]) \in ops})

validateRepeatedValues(list, r) ==
  /\ Len(list) \in 1 .. r.most
  /\ \A i \in DOMAIN list : ValueOk(list[i], r) \/ (r.nullable /\ list[i].kind = "null")

\* The shape checks of validateRepeatedComparatorFilters, of validateEntityIdRangeFilters
\* (structured) and of validateJavaLongRangeFilters (equalityMustBeAlone).
ShapeOk(list, r) ==
  /\ r.alone /\ CountOf(list, {"eq"}) > 0 => Len(list) = 1
  /\ CountOf(list, Lower) <= r.lowers
  /\ CountOf(list, Upper) <= r.uppers

\* Inclusive bounds of some filters: none (an empty set) or the tightest.
LowerBounds(fs, ops) == {IF f.op = "gt" THEN f.v + 1 ELSE f.v : f \in {g \in fs : Operator(g) \in ops}}

\* Mutant: an excluded bound counts as an included one.
UpperBounds_Inclusive(fs, ops) == {f.v : f \in {g \in fs : Operator(g) \in ops}}

UpperBounds(fs, ops) == {IF f.op = "lt" THEN f.v - 1 ELSE f.v : f \in {g \in fs : Operator(g) \in ops}}

BoundsMeet(fs, lowerOps, upperOps) ==
  LET lower == LowerBounds(fs, lowerOps)
      upper == UpperBounds(fs, upperOps)
  IN  lower # {} /\ upper # {} => Max(lower) <= Min(upper)

\* orderedBounds: of IDs with the same number of parts, an equality counting as a lower
\* bound; of Java longs altogether, equalities left out.
OrderedBounds(list, r) ==
  IF r.by = "entityRange"
  THEN \A n \in 1 .. 3 :
         BoundsMeet({f \in ToSet(list) : f.arity = n}, Lower \cup {"eq"}, Upper)
  ELSE BoundsMeet(ToSet(list), Lower, Upper)

\* validateAccountIdFilters, over the distinct filters in the order of their first
\* occurrence: one alias or address at most, and no range comparator after it.
validateAccountIdFilters(list) ==
  LET isAddress(i) == ~isRequestEntityId(list[i])
      first(i) == \A j \in 1 .. i - 1 : list[j] # list[i]
  IN  /\ Cardinality({list[i] : i \in {j \in DOMAIN list : isAddress(j)}}) <= 1
      /\ \A i, j \in DOMAIN list :
           i < j /\ isAddress(i) /\ ~isAddress(j) /\ first(j) => Operator(list[j]) = "eq"

Accepts(list, r) ==
  /\ validateRepeatedValues(list, r)
  /\ ShapeOk(list, r)
  /\ r.ordered => OrderedBounds(list, r)
  /\ r.by = "account" => validateAccountIdFilters(list)

\* A filter that pages within another one needs it, and a bound needs the other to include
\* the page it starts from.
PagesWithin(inner, outer) ==
  /\ inner # <<>> => outer # <<>>
  /\ CountOf(inner, Upper) > 0 => CountOf(outer, {"lte", "eq"}) > 0
  /\ CountOf(inner, Lower) > 0 => CountOf(outer, {"gte", "eq"}) > 0

------------------------------------------------------------------------------
(***************************************************************************)
(* Time ranges of contract logs.                                           *)
(***************************************************************************)
\* getInclusiveTimestampBounds
TimeLowers(list) == LowerBounds(ToSet(list), Lower \cup {"eq"})
TimeUppers(list) == UpperBounds(ToSet(list), Upper \cup {"eq"})

hasEffectiveTimestampEquality(list) ==
  TimeLowers(list) # {} /\ TimeUppers(list) # {} /\ Max(TimeLowers(list)) = Min(TimeUppers(list))

\* Mutant: the window is one instant too wide.
enforceTopicTimestampWindow_OffByOne(list, hasTopic) ==
  hasTopic =>
    /\ TimeLowers(list) # {} /\ TimeUppers(list) # {}
    /\ Min(TimeUppers(list)) - Max(TimeLowers(list)) \in 0 .. Window

enforceTopicTimestampWindow(list, hasTopic) ==
  hasTopic =>
    /\ TimeLowers(list) # {} /\ TimeUppers(list) # {}
    /\ Min(TimeUppers(list)) - Max(TimeLowers(list)) + 1 \in 1 .. Window

\* What the comparators of an index of a log need of those of the timestamps: the two
\* builders and the mapper of the logs spell it out alike.
IndexFollowsTime(indexes, times) ==
  LET HasTime(op) == \E i \in DOMAIN times : times[i].op = op
      equality == hasEffectiveTimestampEquality(times)
      Follows(f) ==
        \/ equality
        \/ Operator(f) \in Lower /\ HasTime("gte")
        \/ Operator(f) \in Upper /\ HasTime("lte")
  IN  indexes # <<>> => times # <<>> /\ \A i \in DOMAIN indexes : Follows(indexes[i])
==============================================================================
