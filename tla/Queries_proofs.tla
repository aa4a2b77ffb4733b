---------------------------- MODULE Queries_proofs ----------------------------
(***************************************************************************)
(* Proofs about Filters and Queries: what the checks of bounds and of      *)
(* windows of time mean, which rules compare bounds, that a builder and    *)
(* its mapper agree field by field and so accept the same queries, that a  *)
(* check at every call refuses nothing more, and that keys tell answers.   *)
(***************************************************************************)
EXTENDS Queries, FiniteSetTheorems, WellFoundedInduction, TLAPS

(***************************************************************************)
(* Extrema.  The bounds of valid filters lie near 0 .. MaxLong, so that    *)
(* the well-foundedness of the naturals gives them a least and a greatest. *)
(***************************************************************************)
\* A nonempty set of naturals has a least member.
LEMMA NatHasLeast ==
  ASSUME NEW S \in SUBSET Nat, S # {}
  PROVE  \E x \in S : \A y \in S : x <= y
<1>1. PICK m \in S : \A n \in S : ~(<<n, m>> \in OpToRel(<, Nat))
  BY NatLessThanWellFounded, WFMin
<1>2. ASSUME NEW n \in S, n < m PROVE FALSE
  <2>1. <<n, m>> \in Nat \X Nat /\ <<n, m>>[1] < <<n, m>>[2]
    BY <1>2
  <2>2. <<n, m>> \in OpToRel(<, Nat)
    BY <2>1, Zenon DEF OpToRel
  <2> QED BY <1>1, <2>2, Zenon
<1>3. \A n \in S : n \in Nat /\ m \in Nat
  OBVIOUS
<1>4. \A n \in S : m <= n
  BY <1>2, <1>3
<1> QED BY <1>4

\* Min and Max are members, for sets bounded on one side.
LEMMA MinOf ==
  ASSUME NEW b \in Int, NEW S \in SUBSET Int, S # {}, \A x \in S : b <= x
  PROVE  Min(S) \in S /\ \A y \in S : Min(S) <= y
<1> DEFINE T == {x - b : x \in S}
<1>0. \A x \in S : x - b \in Nat
  OBVIOUS
<1>1. T \in SUBSET Nat /\ T # {}
  BY <1>0, Zenon
<1> HIDE DEF T
<1>2. PICK m \in T : \A n \in T : m <= n
  BY <1>1, NatHasLeast
<1>3. PICK x \in S : m = x - b
  BY <1>2 DEF T
<1>4. \A y \in S : x <= y
  BY <1>2, <1>3 DEF T
<1> QED BY <1>4 DEF Min

LEMMA MaxOf ==
  ASSUME NEW b \in Int, NEW S \in SUBSET Int, S # {}, \A x \in S : x <= b
  PROVE  Max(S) \in S /\ \A y \in S : y <= Max(S)
<1> DEFINE T == {b - x : x \in S}
<1>0. \A x \in S : b - x \in Nat
  OBVIOUS
<1>1. T \in SUBSET Nat /\ T # {}
  BY <1>0, Zenon
<1> HIDE DEF T
<1>2. PICK m \in T : \A n \in T : m <= n
  BY <1>1, NatHasLeast
<1>3. PICK x \in S : m = b - x
  BY <1>2 DEF T
<1>4. \A y \in S : x >= y
  BY <1>2, <1>3 DEF T
<1> QED BY <1>4 DEF Max

(***************************************************************************)
(* Bounds.  Filters that have been checked have a number and none of them  *)
(* is a "ne".                                                              *)
(***************************************************************************)
Valid(f) == f.v \in 0 .. MaxLong /\ Operator(f) \in NoNeOps

\* The inclusive bounds of valid filters are within one of the range.
LEMMA BoundsAreNumbers ==
  ASSUME NEW fs, \A f \in fs : Valid(f), NEW ops
  PROVE  /\ LowerBounds(fs, ops) \in SUBSET Int
         /\ \A x \in LowerBounds(fs, ops) : 0 <= x /\ x <= MaxLong + 1
         /\ UpperBounds(fs, ops) \in SUBSET Int
         /\ \A x \in UpperBounds(fs, ops) : -1 <= x /\ x <= MaxLong
BY FiltersAssumption DEF Valid, LowerBounds, UpperBounds

\* There is a bound just when a filter has one of the comparators.
LEMMA BoundsExist ==
  ASSUME NEW fs, NEW ops
  PROVE  /\ LowerBounds(fs, ops) # {} <=> \E x \in fs : Operator(x) \in ops
         /\ UpperBounds(fs, ops) # {} <=> \E x \in fs : Operator(x) \in ops
<1>1. LowerBounds(fs, ops) # {} <=> \E x \in fs : Operator(x) \in ops
  BY DEF LowerBounds
<1>2. UpperBounds(fs, ops) # {} <=> \E x \in fs : Operator(x) \in ops
  BY DEF UpperBounds
<1> QED BY <1>1, <1>2

LEMMA LongIsNat == MaxLong \in Nat
BY FiltersAssumption

\* An integer satisfies a filter just when it is within its inclusive bounds.
LEMMA SatisfiesIsBetween ==
  ASSUME NEW f, Valid(f), NEW t \in Int
  PROVE  Satisfies(t, f) <=>
           /\ Operator(f) \in Lower \cup {"eq"} => (IF f.op = "gt" THEN f.v + 1 ELSE f.v) <= t
           /\ Operator(f) \in Upper \cup {"eq"} => t <= (IF f.op = "lt" THEN f.v - 1 ELSE f.v)
<1>1. f.v \in Int
  BY FiltersAssumption DEF Valid
<1>2. f.op \in {"", "eq", "gt", "gte", "lt", "lte"}
  BY DEF Valid, Operator, NoNeOps, AllOps
<1>3. CASE f.op \in {"", "eq"}
  <2>1. Operator(f) = "eq" /\ f.op \notin {"ne", "gt", "gte", "lt", "lte"}
    BY <1>3 DEF Operator
  <2>2. Satisfies(t, f) <=> t = f.v
    BY <2>1, Zenon DEF Satisfies
  <2> QED BY <1>1, <2>1, <2>2 DEF Lower, Upper
<1>4. CASE f.op = "gt"
  BY <1>1, <1>4 DEF Satisfies, Operator, Lower, Upper
<1>5. CASE f.op = "gte"
  BY <1>1, <1>5 DEF Satisfies, Operator, Lower, Upper
<1>6. CASE f.op = "lt"
  BY <1>1, <1>6 DEF Satisfies, Operator, Lower, Upper
<1>7. CASE f.op = "lte"
  BY <1>1, <1>7 DEF Satisfies, Operator, Lower, Upper
<1> QED BY <1>2, <1>3, <1>4, <1>5, <1>6, <1>7

\* A number satisfies all filters just when it is within all their bounds.
LEMMA AllSatisfyBetween ==
  ASSUME NEW fs, \A f \in fs : Valid(f), NEW t \in Int
  PROVE  (\A f \in fs : Satisfies(t, f)) <=>
           /\ \A x \in LowerBounds(fs, Lower \cup {"eq"}) : x <= t
           /\ \A x \in UpperBounds(fs, Upper \cup {"eq"}) : t <= x
BY SatisfiesIsBetween DEF LowerBounds, UpperBounds

(***************************************************************************)
(* What the checks of bounds mean (utils.ts, orderedBounds and             *)
(* enforceTopicTimestampWindow).                                           *)
(***************************************************************************)
\* Opposed bounds meet just when a number of the range lies between them.
LEMMA MeetingBounds ==
  ASSUME NEW fs, \A f \in fs : Valid(f), NEW lowerOps, NEW upperOps
  PROVE  BoundsMeet(fs, lowerOps, upperOps) <=>
           (LowerBounds(fs, lowerOps) # {} /\ UpperBounds(fs, upperOps) # {} =>
              \E t \in 0 .. MaxLong : /\ \A x \in LowerBounds(fs, lowerOps) : x <= t
                                     /\ \A x \in UpperBounds(fs, upperOps) : t <= x)
<1> DEFINE L == LowerBounds(fs, lowerOps)
           U == UpperBounds(fs, upperOps)
<1> SUFFICES ASSUME L # {}, U # {}
             PROVE  Max(L) <= Min(U) <=> \E t \in 0 .. MaxLong : /\ \A x \in L : x <= t
                                                                /\ \A x \in U : t <= x
  BY DEF BoundsMeet
<1>1. L \in SUBSET Int /\ \A x \in L : 0 <= x /\ x <= MaxLong + 1
  BY BoundsAreNumbers
<1>2. U \in SUBSET Int /\ \A x \in U : -1 <= x /\ x <= MaxLong
  BY BoundsAreNumbers
<1>3. MaxLong \in Int /\ MaxLong + 1 \in Int
  BY FiltersAssumption
<1> HIDE DEF L, U
<1>4. Max(L) \in L /\ \A x \in L : x <= Max(L)
  BY <1>1, <1>3, MaxOf
<1>5. Min(U) \in U /\ \A x \in U : Min(U) <= x
  BY <1>2, MinOf
<1>6. Max(L) \in Int /\ Min(U) \in Int /\ 0 <= Max(L) /\ Min(U) <= MaxLong
  BY <1>1, <1>2, <1>4, <1>5
<1>7. ASSUME Max(L) <= Min(U)
      PROVE  \E t \in 0 .. MaxLong : (\A x \in L : x <= t) /\ (\A x \in U : t <= x)
  <2>1. \A x \in U : x \in Int /\ Max(L) <= x
    BY <1>2, <1>5, <1>6, <1>7
  <2>2. Max(L) \in 0 .. MaxLong
    BY <1>3, <1>6, <1>7
  <2> QED BY <1>4, <2>1, <2>2
<1>8. ASSUME NEW t \in 0 .. MaxLong, \A x \in L : x <= t, \A x \in U : t <= x
      PROVE  Max(L) <= Min(U)
  <2>1. Max(L) <= t /\ t <= Min(U) /\ t \in Int
    BY <1>3, <1>4, <1>5, <1>8
  <2> QED BY <1>6, <2>1
<1> QED BY <1>7, <1>8

\* Timestamps accepted beside a topic are satisfied by one instant at least and by as many as
\* the window has at most.
LEMMA WindowedTimes ==
  ASSUME NEW list, \A f \in ToSet(list) : Valid(f), enforceTopicTimestampWindow(list, TRUE)
  PROVE  Cardinality({t \in 0 .. MaxLong : \A f \in ToSet(list) : Satisfies(t, f)}) \in 1 .. Window
<1> DEFINE fs == ToSet(list)
           L == LowerBounds(fs, Lower \cup {"eq"})
           U == UpperBounds(fs, Upper \cup {"eq"})
           lo == Max(L)
           hi == Min(U)
<1>1. L # {} /\ U # {} /\ hi - lo + 1 \in 1 .. Window
  BY DEF enforceTopicTimestampWindow, TimeLowers, TimeUppers
<1>2. /\ L \in SUBSET Int /\ \A x \in L : x <= MaxLong + 1
      /\ U \in SUBSET Int /\ \A x \in U : -1 <= x
  BY BoundsAreNumbers
<1>3. \A x \in L : 0 <= x
  BY FiltersAssumption DEF LowerBounds, Valid
<1>4. \A x \in U : x <= MaxLong
  BY FiltersAssumption DEF UpperBounds, Valid
<1>5. \A t \in Int : (\A f \in fs : Satisfies(t, f)) <=>
                     (\A x \in L : x <= t) /\ (\A x \in U : t <= x)
  BY AllSatisfyBetween
<1>6. MaxLong \in Nat /\ Window \in Nat
  BY FiltersAssumption
<1> HIDE DEF fs, L, U
<1>7. lo \in L /\ \A x \in L : x <= lo
  <2>1. MaxLong + 1 \in Int /\ L \in SUBSET Int /\ L # {} /\ \A x \in L : x <= MaxLong + 1
    BY <1>1, <1>2, <1>6
  <2> QED BY <2>1, MaxOf
<1>8. hi \in U /\ \A x \in U : hi <= x
  <2>1. -1 \in Int /\ U \in SUBSET Int /\ U # {} /\ \A x \in U : -1 <= x
    BY <1>1, <1>2
  <2> QED BY <2>1, MinOf
<1>9. lo \in Int /\ hi \in Int /\ 0 <= lo /\ hi <= MaxLong
  BY <1>2, <1>3, <1>4, <1>7, <1>8
<1> HIDE DEF lo, hi
<1>10. {t \in 0 .. MaxLong : \A f \in fs : Satisfies(t, f)} = lo .. hi
  <2>1. ASSUME NEW t \in 0 .. MaxLong, \A f \in fs : Satisfies(t, f) PROVE t \in lo .. hi
    BY <1>5, <1>6, <1>7, <1>8, <1>9, <2>1
  <2>2. ASSUME NEW t \in lo .. hi PROVE t \in 0 .. MaxLong /\ \A f \in fs : Satisfies(t, f)
    <3>1. t \in Int /\ lo <= t /\ t <= hi
      BY <1>9
    <3>2. (\A x \in L : x <= t) /\ (\A x \in U : t <= x)
      BY <1>2, <1>7, <1>8, <1>9, <3>1
    <3> QED BY <1>5, <1>6, <1>9, <3>1, <3>2
  <2> QED BY <2>1, <2>2
<1>11. hi - lo + 1 \in 1 .. Window
  BY <1>1 DEF lo, hi
<1>12. Cardinality(lo .. hi) = hi - lo + 1
  BY <1>6, <1>9, <1>11, FS_Interval
<1> QED BY <1>10, <1>11, <1>12 DEF fs

------------------------------------------------------------------------------
(***************************************************************************)
(* Queries for logs.                                                       *)
(***************************************************************************)
\* The rule of the timestamps of logs takes any comparator but ne.
LEMMA RuleOfLogTimes ==
  /\ LogTimes.rule.by = "timestamp"
  /\ LogTimes.rule.ops = NoNeOps
  /\ LogTimes.rule.nullable = FALSE
BY DEF LogTimes, Field, Structured, OfOps, Rule

LEMMA AcceptedTimesAreValid ==
  ASSUME NEW list, list = <<>> \/ Accepts(list, LogTimes.rule)
  PROVE  \A f \in ToSet(list) : Valid(f)
<1> DEFINE r == LogTimes.rule
<1>1. CASE list = <<>>
  BY <1>1 DEF ToSet
<1>2. CASE Accepts(list, r)
  <2>1. \A i \in DOMAIN list : ValueOk(list[i], r)
    BY <1>2, RuleOfLogTimes DEF Accepts, validateRepeatedValues
  <2>2. \A f : ValueOk(f, r) => validateTimestampFilter(f, NoNeOps)
    BY RuleOfLogTimes, Zenon DEF ValueOk
  <2>3. \A f : validateTimestampFilter(f, NoNeOps) => Valid(f)
    BY DEF validateTimestampFilter, parseComparatorValue, Instant, Valid, Operator, NoNeOps,
       AllOps
  <2> QED BY <2>1, <2>2, <2>3 DEF ToSet
<1> QED BY <1>1, <1>2

\* A query for logs that its mapper takes has passed the window and the rule of timestamps.
LEMMA MappedLogs ==
  ASSUME NEW e \in Logs, NEW q, Maps(e, q)
  PROVE  /\ logs_across(q)
         /\ q.timestamp = <<>> \/ Accepts(q.timestamp, LogTimes.rule)
<1>1. /\ e # "accounts_tokenAllowances" /\ e # "accounts_nftAllowances"
      /\ e # "accounts_nfts" /\ e # "tokens_list" /\ e # "contracts_call"
      /\ e \notin Results
  BY DEF Logs, Results
<1>2. logs_across(q)
  BY <1>1, Zenon DEF Maps
<1>3. "timestamp" \in DOMAIN Mapper[e] /\ Mapper[e].timestamp = LogTimes
  BY DEF Logs, Mapper, Contracts_logsList, Contracts_logsByContract
<1>4. q.timestamp # <<>> => Accepts(q.timestamp, LogTimes.rule)
  BY <1>3 DEF Maps, FieldsMap
<1> QED BY <1>2, <1>4

\* A query for logs goes through the mapper in both of its forms.
LEMMA BoundedTopics == TopicQueriesAreBounded
<1> SUFFICES ASSUME endpoint \in Logs, query["topic0"] # <<>> \/ query["topic1"] # <<>>,
                    Object \/ Fluent
             PROVE  Cardinality({t \in 0 .. MaxLong : \A i \in DOMAIN query["timestamp"] :
                                   Satisfies(t, query["timestamp"][i])}) \in 1 .. Window
  BY DEF TopicQueriesAreBounded
<1>1. Maps(endpoint, query)
  BY DEF Object, Fluent, Logs, Direct
<1>2. \A f \in ToSet(query.timestamp) : Valid(f)
  BY <1>1, MappedLogs, AcceptedTimesAreValid
<1>3. enforceTopicTimestampWindow(query.timestamp, TRUE)
  BY <1>1, MappedLogs DEF logs_across, enforceTopicTimestampWindow
<1>4. \A t : (\A f \in ToSet(query.timestamp) : Satisfies(t, f))
          <=> (\A i \in DOMAIN query.timestamp : Satisfies(t, query.timestamp[i]))
  BY DEF ToSet
<1> QED BY <1>2, <1>3, <1>4, WindowedTimes

------------------------------------------------------------------------------
(***************************************************************************)
(* The tables: which of their rules compare bounds, and that a builder and *)
(* a mapper of one endpoint have the same fields.                          *)
(***************************************************************************)
\* A rule that does not compare bounds, and a field with such a rule.  The limits of every
\* rule are numbers.
HasRuleFields(r) ==
  {"ops", "ordered", "most", "alone", "lowers", "uppers", "nullable", "allowed", "low", "high",
   "fold", "primary", "rejectLtZero"} \subseteq DOMAIN r
HasLimits(r) == r.most \in Nat /\ r.lowers \in Nat /\ r.uppers \in Nat
IsUnordered(r) == HasRuleFields(r) /\ HasLimits(r) /\ r.ordered = FALSE
Unordered(field) ==
  {"rule", "required", "key", "reads"} \subseteq DOMAIN field /\ IsUnordered(field.rule)

\* The options of a rule other than ordered leave ordered alone.
LEMMA UnorderedRules ==
  /\ \A by : IsUnordered(Rule(by))
  /\ \A r, ops : IsUnordered(r) => IsUnordered(OfOps(r, ops))
  /\ \A r : IsUnordered(r) => IsUnordered(Structured(r))
  /\ \A r : IsUnordered(r) => IsUnordered(Bounded(r))
  /\ \A r : IsUnordered(r) => IsUnordered(Times(r, 1)) /\ IsUnordered(Times(r, Most))
  /\ \A r : IsUnordered(r) => IsUnordered(Nullable(r))
<1>1. \A by : IsUnordered(Rule(by))
  BY FiltersAssumption DEF IsUnordered, HasRuleFields, HasLimits, Rule
<1>2. \A r, ops : IsUnordered(r) => IsUnordered(OfOps(r, ops))
  BY DEF IsUnordered, HasRuleFields, HasLimits, OfOps
<1>3. \A r : IsUnordered(r) => IsUnordered(Structured(r))
  BY DEF IsUnordered, HasRuleFields, HasLimits, Structured
<1>4. \A r : IsUnordered(r) => IsUnordered(Bounded(r))
  BY DEF IsUnordered, HasRuleFields, HasLimits, Bounded
<1>5. \A r : IsUnordered(r) => IsUnordered(Times(r, 1)) /\ IsUnordered(Times(r, Most))
  BY FiltersAssumption DEF IsUnordered, HasRuleFields, HasLimits, Times
<1>6. \A r : IsUnordered(r) => IsUnordered(Nullable(r))
  BY DEF IsUnordered, HasRuleFields, HasLimits, Nullable
<1> QED BY <1>1, <1>2, <1>3, <1>4, <1>5, <1>6

\* The rules the tables start from are unordered.
LEMMA UnorderedChoices ==
  /\ \A allowed : IsUnordered(Word(allowed)) /\ IsUnordered(Choice(allowed))
  /\ \A low, high : IsUnordered(Decimals(low, high)) /\ IsUnordered(Exactly(low, high))
  /\ \A low : IsUnordered(JavaLong(low))
  /\ IsUnordered(EntityRange) /\ IsUnordered(JavaTimes)
<1>1. \A allowed : IsUnordered(Word(allowed))
  BY FiltersAssumption DEF Word, IsUnordered, HasRuleFields, HasLimits, Rule
<1>w. \A allowed : IsUnordered(Choice(allowed))
  BY <1>1 DEF Choice, IsUnordered, HasRuleFields, HasLimits
<1>2. \A low, high : IsUnordered(Decimals(low, high))
  BY FiltersAssumption DEF Decimals, IsUnordered, HasRuleFields, HasLimits, Rule
<1>3. \A low, high : IsUnordered(Exactly(low, high))
  BY <1>2 DEF Exactly, IsUnordered, HasRuleFields, HasLimits
<1>4. \A low : IsUnordered(JavaLong(low))
  BY FiltersAssumption DEF JavaLong, IsUnordered, HasRuleFields, HasLimits, Rule
<1>5. IsUnordered(EntityRange)
  BY FiltersAssumption DEF EntityRange, IsUnordered, HasRuleFields, HasLimits, Rule
<1>6. IsUnordered(JavaTimes)
  BY FiltersAssumption DEF JavaTimes, IsUnordered, HasRuleFields, HasLimits, Rule
<1> QED BY <1>1, <1>w, <1>2, <1>3, <1>4, <1>5, <1>6
\* A field has the rule it is made of.
LEMMA UnorderedFields ==
  \A r, param : IsUnordered(r) => Unordered(Field(r, param)) /\ Unordered(PathField(r))
<1>1. \A r, param : IsUnordered(r) => Unordered(Field(r, param))
  BY DEF Field, Unordered
<1>2. \A r : IsUnordered(r) => Unordered(PathField(r))
  BY DEF PathField, Field, Unordered
<1> QED BY <1>1, <1>2

LEMMA UnorderedChanges ==
  ASSUME NEW field, Unordered(field)
  PROVE  /\ Unordered(Required(field)) /\ Unordered(LastCounts(field))
         /\ \A how : Unordered(Keyed(field, how))
<1>1. Unordered(Required(field))
  BY DEF Required, Unordered
<1>2. Unordered(LastCounts(field))
  BY DEF LastCounts, Unordered
<1>3. \A how : Unordered(Keyed(field, how))
  BY DEF Keyed, Unordered
<1> QED BY <1>1, <1>2, <1>3

\* The named rules and fields of the mappers are unordered.
LEMMA UnorderedHelpers ==
  /\ IsUnordered(Flag) /\ IsUnordered(AnyText) /\ IsUnordered(AContract) /\ IsUnordered(LogIndex)
  /\ Unordered(Sorted) /\ Unordered(KeyedTimes) /\ Unordered(Hbar) /\ Unordered(LogTimes)
  /\ \A ops : Unordered(Timestamps(ops))
  /\ \A r : IsUnordered(r) => Unordered(KeyedPath(r))
<1>1. IsUnordered(Flag) /\ IsUnordered(Order) /\ IsUnordered(AnyText)
  BY UnorderedChoices DEF Flag, Order, AnyText
<1>2. IsUnordered(AContract)
  BY UnorderedRules DEF AContract
<1>3. IsUnordered(LogIndex)
  BY UnorderedRules, UnorderedChoices DEF LogIndex
<1>4. Unordered(Sorted)
  BY <1>1, UnorderedFields DEF Sorted
<1>5. Unordered(KeyedTimes)
  BY UnorderedChoices, UnorderedFields, UnorderedChanges DEF KeyedTimes
<1>6. Unordered(Hbar)
  <2>1. Unordered(Keyed(Field(Flag, "hbar"), "falsehood"))
    BY <1>1, UnorderedFields, UnorderedChanges
  <2> QED BY <2>1 DEF Hbar, Unordered
<1>7. Unordered(LogTimes)
  BY UnorderedRules, UnorderedFields DEF LogTimes
<1>8. \A ops : Unordered(Timestamps(ops))
  BY UnorderedRules, UnorderedFields DEF Timestamps
<1>9. \A r : IsUnordered(r) => Unordered(KeyedPath(r))
  BY UnorderedFields, UnorderedChanges DEF KeyedPath
<1> QED BY <1>1, <1>2, <1>3, <1>4, <1>5, <1>6, <1>7, <1>8, <1>9

\* A rule that does: of numbers, or of at most two IDs.
RangeRule(r) ==
  /\ HasLimits(r)
  /\ r.ops \subseteq NoNeOps /\ r.nullable = FALSE
  /\ (r.by = "javaLong" /\ r.low = 0) \/ (r.by = "entityRange" /\ r.most = 2)
RangeField(field) == RangeRule(field.rule)

\* The four kinds of fields whose bounds are compared.
LEMMA RangeFields ==
  /\ \A p : RangeField(Field(Primary(Ordered(Structured(OfOps(EntityRange, NoNeOps)))), p))
  /\ \A p : RangeField(Field(Primary(Ordered(OfOps(EntityRange, NoNeOps))), p))
  /\ \A p : RangeField(Field(Times(RangedNode, Most), p))
  /\ \A p : RangeField(Field([RangedNode EXCEPT !.alone = TRUE], p))
<1>1. RangeRule(Primary(Ordered(Structured(OfOps(EntityRange, NoNeOps)))))
  BY FiltersAssumption DEF RangeRule, HasLimits, Primary, Ordered, Structured, OfOps,
     EntityRange, Rule
<1>2. RangeRule(Primary(Ordered(OfOps(EntityRange, NoNeOps))))
  BY FiltersAssumption DEF RangeRule, HasLimits, Primary, Ordered, OfOps, EntityRange, Rule
<1>3. RangeRule(Times(RangedNode, Most))
  BY FiltersAssumption DEF RangeRule, HasLimits, Times, RangedNode, OfOps, JavaLong, Rule
<1>4. RangeRule([RangedNode EXCEPT !.alone = TRUE])
  BY FiltersAssumption DEF RangeRule, HasLimits, RangedNode, OfOps, JavaLong, Rule
<1>5. \A r, p : Field(r, p).rule = r
  BY DEF Field
<1> QED BY <1>1, <1>2, <1>3, <1>4, <1>5 DEF RangeField

Soundly(table) == \A f \in DOMAIN table : Unordered(table[f]) \/ RangeField(table[f])

\* Every field of every mapper is of one sort or the other.
LEMMA Tables ==
  /\ Soundly(Accounts_accountNftsOwned)
  /\ Soundly(Accounts_accountTokens)
  /\ Soundly(Accounts_cryptoAllowances)
  /\ Soundly(Accounts_hookStorage)
  /\ Soundly(Accounts_hooks)
  /\ Soundly(Accounts_list)
  /\ Soundly(Accounts_nftAllowances)
  /\ Soundly(Accounts_one)
  /\ Soundly(Accounts_outstandingAirdrops)
  /\ Soundly(Accounts_pendingAirdrops)
  /\ Soundly(Accounts_rewards)
  /\ Soundly(Accounts_tokenAllowances)
  /\ Soundly(Balances_list)
  /\ Soundly(Blocks_list)
  /\ Soundly(Blocks_one)
  /\ Soundly(Contracts_actionsByResult)
  /\ Soundly(Contracts_callQuery)
  /\ Soundly(Contracts_list)
  /\ Soundly(Contracts_logsByContract)
  /\ Soundly(Contracts_logsList)
  /\ Soundly(Contracts_one)
  /\ Soundly(Contracts_opcodes)
  /\ Soundly(Contracts_resultByTimestamp)
  /\ Soundly(Contracts_resultByTransaction)
  /\ Soundly(Contracts_resultsByContract)
  /\ Soundly(Contracts_resultsList)
  /\ Soundly(Contracts_stateQuery)
  /\ Soundly(Network_estimateFees)
  /\ Soundly(Network_exchangeRate)
  /\ Soundly(Network_fees)
  /\ Soundly(Network_nodes)
  /\ Soundly(Network_registeredNodes)
  /\ Soundly(Network_supply)
  /\ Soundly(Schedules_list)
  /\ Soundly(Schedules_one)
  /\ Soundly(Tokens_balances)
  /\ Soundly(Tokens_list)
  /\ Soundly(Tokens_nftOne)
  /\ Soundly(Tokens_nftTx)
  /\ Soundly(Tokens_nftsList)
  /\ Soundly(Tokens_one)
  /\ Soundly(Topics_messageBySequence)
  /\ Soundly(Topics_messageByTimestamp)
  /\ Soundly(Topics_messagesList)
  /\ Soundly(Topics_topicOne)
  /\ Soundly(Transactions_byId)
  /\ Soundly(Transactions_list)
<1>1. Soundly(Accounts_accountNftsOwned)
  BY UnorderedRules, UnorderedChoices, UnorderedHelpers, UnorderedFields DEF Soundly,
     Accounts_accountNftsOwned
<1>2. Soundly(Accounts_accountTokens)
  BY UnorderedRules, UnorderedHelpers, UnorderedFields DEF Soundly, Accounts_accountTokens
<1>3. Soundly(Accounts_cryptoAllowances)
  BY UnorderedRules, UnorderedHelpers, UnorderedFields DEF Soundly, Accounts_cryptoAllowances
<1>4. Soundly(Accounts_hookStorage)
  BY UnorderedRules, UnorderedChoices, UnorderedHelpers, UnorderedFields DEF Soundly,
     Accounts_hookStorage
<1>5. Soundly(Accounts_hooks)
  BY UnorderedRules, UnorderedChoices, UnorderedHelpers, UnorderedFields DEF Soundly,
     Accounts_hooks
<1>6. Soundly(Accounts_list)
  BY UnorderedRules, UnorderedChoices, UnorderedHelpers, UnorderedFields DEF Soundly,
     Accounts_list
<1>7. Soundly(Accounts_nftAllowances)
  <2>1. Unordered(Accounts_nftAllowances.idOrAliasOrEvmAddress)
    BY UnorderedRules, UnorderedFields DEF Accounts_nftAllowances
  <2>2. Unordered(Accounts_nftAllowances.view)
    BY UnorderedHelpers, UnorderedFields DEF Accounts_nftAllowances
  <2>3. RangeField(Accounts_nftAllowances.counterpartyId)
    BY RangeFields DEF Accounts_nftAllowances
  <2>4. Unordered(Accounts_nftAllowances.tokenId)
    BY UnorderedRules, UnorderedChoices, UnorderedFields DEF Accounts_nftAllowances
  <2>5. Unordered(Accounts_nftAllowances.order)
    BY UnorderedHelpers DEF Accounts_nftAllowances
  <2> QED BY <2>1, <2>2, <2>3, <2>4, <2>5 DEF Soundly, Accounts_nftAllowances
<1>8. Soundly(Accounts_one)
  <2>1. Unordered(Accounts_one.idOrAliasOrEvmAddress)
    BY UnorderedRules, UnorderedHelpers DEF Accounts_one
  <2>2. Unordered(Accounts_one.timestamp)
    BY UnorderedHelpers, UnorderedChanges DEF Accounts_one
  <2>3. Unordered(Accounts_one.transactiontype)
    BY UnorderedHelpers, UnorderedFields, UnorderedChanges DEF Accounts_one
  <2>4. Unordered(Accounts_one.transactions)
    BY UnorderedHelpers, UnorderedFields, UnorderedChanges DEF Accounts_one
  <2>5. Unordered(Accounts_one.order)
    BY UnorderedHelpers, UnorderedChanges DEF Accounts_one
  <2> QED BY <2>1, <2>2, <2>3, <2>4, <2>5 DEF Soundly, Accounts_one
<1>9. Soundly(Accounts_outstandingAirdrops)
  <2>1. Unordered(Accounts_outstandingAirdrops.idOrAliasOrEvmAddress)
    BY UnorderedRules, UnorderedFields DEF Accounts_outstandingAirdrops
  <2>2. RangeField(Accounts_outstandingAirdrops.receiverId)
    BY RangeFields DEF Accounts_outstandingAirdrops
  <2>3. Unordered(Accounts_outstandingAirdrops.tokenId)
    BY UnorderedRules, UnorderedChoices, UnorderedFields DEF Accounts_outstandingAirdrops
  <2>4. Unordered(Accounts_outstandingAirdrops.serialNumber)
    BY UnorderedRules, UnorderedChoices, UnorderedFields DEF Accounts_outstandingAirdrops
  <2>5. Unordered(Accounts_outstandingAirdrops.order)
    BY UnorderedHelpers DEF Accounts_outstandingAirdrops
  <2> QED BY <2>1, <2>2, <2>3, <2>4, <2>5 DEF Soundly, Accounts_outstandingAirdrops
<1>10. Soundly(Accounts_pendingAirdrops)
  <2>1. Unordered(Accounts_pendingAirdrops.idOrAliasOrEvmAddress)
    BY UnorderedRules, UnorderedFields DEF Accounts_pendingAirdrops
  <2>2. RangeField(Accounts_pendingAirdrops.senderId)
    BY UnorderedRules, UnorderedChoices, UnorderedFields, RangeFields DEF Accounts_pendingAirdrops
  <2>3. Unordered(Accounts_pendingAirdrops.tokenId)
    BY UnorderedRules, UnorderedChoices, UnorderedFields DEF Accounts_pendingAirdrops
  <2>4. Unordered(Accounts_pendingAirdrops.serialNumber)
    BY UnorderedRules, UnorderedChoices, UnorderedFields DEF Accounts_pendingAirdrops
  <2>5. Unordered(Accounts_pendingAirdrops.order)
    BY UnorderedHelpers DEF Accounts_pendingAirdrops
  <2> QED BY <2>1, <2>2, <2>3, <2>4, <2>5 DEF Soundly, Accounts_pendingAirdrops
<1>11. Soundly(Accounts_rewards)
  BY UnorderedRules, UnorderedHelpers, UnorderedFields DEF Soundly, Accounts_rewards
<1>12. Soundly(Accounts_tokenAllowances)
  BY UnorderedRules, UnorderedHelpers, UnorderedFields DEF Soundly, Accounts_tokenAllowances
<1>13. Soundly(Balances_list)
  BY UnorderedRules, UnorderedChoices, UnorderedHelpers, UnorderedFields DEF Soundly,
     Balances_list
<1>14. Soundly(Blocks_list)
  BY UnorderedRules, UnorderedHelpers, UnorderedFields DEF Soundly, Blocks_list
<1>15. Soundly(Blocks_one)
  BY UnorderedRules, UnorderedHelpers DEF Soundly, Blocks_one
<1>16. Soundly(Contracts_actionsByResult)
  BY UnorderedRules, UnorderedChoices, UnorderedHelpers, UnorderedFields DEF Soundly,
     Contracts_actionsByResult
<1>17. Soundly(Contracts_callQuery)
  BY UnorderedRules, UnorderedChoices, UnorderedHelpers, UnorderedFields, UnorderedChanges DEF
     Soundly, Contracts_callQuery
<1>18. Soundly(Contracts_list)
  BY UnorderedRules, UnorderedHelpers, UnorderedFields DEF Soundly, Contracts_list
<1>19. Soundly(Contracts_logsByContract)
  BY UnorderedRules, UnorderedHelpers, UnorderedFields DEF Soundly, Contracts_logsByContract
<1>20. Soundly(Contracts_logsList)
  BY UnorderedRules, UnorderedHelpers, UnorderedFields DEF Soundly, Contracts_logsList
<1>21. Soundly(Contracts_one)
  <2>1. Unordered(Contracts_one.idOrAddress)
    BY UnorderedHelpers DEF Contracts_one
  <2>2. Unordered(Contracts_one.timestamp)
    <3>1. Unordered(Keyed(Timestamps(AllOps), "sorted"))
      BY UnorderedHelpers, UnorderedChanges
    <3> QED BY <3>1 DEF Contracts_one, Unordered
  <2> QED BY <2>1, <2>2 DEF Soundly, Contracts_one
<1>22. Soundly(Contracts_opcodes)
  BY UnorderedRules, UnorderedHelpers, UnorderedFields DEF Soundly, Contracts_opcodes
<1>23. Soundly(Contracts_resultByTimestamp)
  BY UnorderedRules, UnorderedHelpers DEF Soundly, Contracts_resultByTimestamp
<1>24. Soundly(Contracts_resultByTransaction)
  <2>1. Unordered(Contracts_resultByTransaction.transactionIdOrHash)
    BY UnorderedRules, UnorderedHelpers DEF Contracts_resultByTransaction
  <2>2. Unordered(Contracts_resultByTransaction.nonce)
    BY UnorderedRules, UnorderedChoices, UnorderedFields, UnorderedChanges DEF
       Contracts_resultByTransaction
  <2>3. Unordered(Contracts_resultByTransaction.hbar)
    BY UnorderedHelpers DEF Contracts_resultByTransaction
  <2> QED BY <2>1, <2>2, <2>3 DEF Soundly, Contracts_resultByTransaction
<1>25. Soundly(Contracts_resultsByContract)
  BY UnorderedRules, UnorderedChoices, UnorderedHelpers, UnorderedFields, UnorderedChanges DEF
     Soundly, Contracts_resultsByContract
<1>26. Soundly(Contracts_resultsList)
  BY UnorderedRules, UnorderedChoices, UnorderedHelpers, UnorderedFields, UnorderedChanges DEF
     Soundly, Contracts_resultsList
<1>27. Soundly(Contracts_stateQuery)
  BY UnorderedRules, UnorderedHelpers, UnorderedFields DEF Soundly, Contracts_stateQuery
<1>28. Soundly(Network_estimateFees)
  BY UnorderedChoices, UnorderedHelpers, UnorderedFields, UnorderedChanges DEF Soundly,
     Network_estimateFees
<1>29. Soundly(Network_exchangeRate)
  BY UnorderedHelpers DEF Soundly, Network_exchangeRate
<1>30. Soundly(Network_fees)
  BY UnorderedChoices, UnorderedHelpers, UnorderedFields DEF Soundly, Network_fees
<1>31. Soundly(Network_nodes)
  <2>1. IsUnordered(OfOps(Rule("entityRange"), EqualOps))
    BY UnorderedRules DEF IsUnordered, HasRuleFields, HasLimits
  <2>2. Unordered(Network_nodes.fileId)
    BY <2>1, UnorderedRules, UnorderedFields DEF Network_nodes
  <2>3. RangeField(Network_nodes.nodeId)
    BY RangeFields DEF Network_nodes
  <2>4. Unordered(Network_nodes.order)
    BY UnorderedHelpers DEF Network_nodes
  <2> QED BY <2>2, <2>3, <2>4 DEF Soundly, Network_nodes
<1>32. Soundly(Network_registeredNodes)
  BY UnorderedChoices, UnorderedHelpers, UnorderedFields, UnorderedChanges, RangeFields DEF
     Soundly, Network_registeredNodes
<1>33. Soundly(Network_supply)
  <2>1. Unordered(Network_supply.timestamp)
    BY UnorderedHelpers DEF Network_supply
  <2>2. Unordered(Network_supply.q)
    <3>1. Unordered(Keyed(Field(Choice({0, 1}), "q"), "folded"))
      BY UnorderedChoices, UnorderedFields, UnorderedChanges
    <3> QED BY <3>1 DEF Network_supply, Unordered
  <2> QED BY <2>1, <2>2 DEF Soundly, Network_supply
<1>34. Soundly(Schedules_list)
  BY UnorderedRules, UnorderedHelpers, UnorderedFields DEF Soundly, Schedules_list
<1>35. Soundly(Schedules_one)
  BY UnorderedRules, UnorderedHelpers DEF Soundly, Schedules_one
<1>36. Soundly(Tokens_balances)
  BY UnorderedRules, UnorderedChoices, UnorderedHelpers, UnorderedFields DEF Soundly,
     Tokens_balances
<1>37. Soundly(Tokens_list)
  BY UnorderedRules, UnorderedChoices, UnorderedHelpers, UnorderedFields DEF Soundly, Tokens_list
<1>38. Soundly(Tokens_nftOne)
  BY UnorderedRules, UnorderedChoices, UnorderedHelpers DEF Soundly, Tokens_nftOne
<1>39. Soundly(Tokens_nftTx)
  BY UnorderedRules, UnorderedChoices, UnorderedHelpers, UnorderedFields DEF Soundly, Tokens_nftTx
<1>40. Soundly(Tokens_nftsList)
  BY UnorderedRules, UnorderedChoices, UnorderedHelpers, UnorderedFields DEF Soundly,
     Tokens_nftsList
<1>41. Soundly(Tokens_one)
  <2>1. Unordered(Tokens_one.tokenId)
    BY UnorderedRules, UnorderedHelpers DEF Tokens_one
  <2>2. Unordered(Tokens_one.timestamp)
    BY UnorderedHelpers, UnorderedChanges DEF Tokens_one
  <2> QED BY <2>1, <2>2 DEF Soundly, Tokens_one
<1>42. Soundly(Topics_messageBySequence)
  BY UnorderedRules, UnorderedChoices, UnorderedHelpers DEF Soundly, Topics_messageBySequence
<1>43. Soundly(Topics_messageByTimestamp)
  BY UnorderedRules, UnorderedHelpers DEF Soundly, Topics_messageByTimestamp
<1>44. Soundly(Topics_messagesList)
  BY UnorderedRules, UnorderedChoices, UnorderedHelpers, UnorderedFields DEF Soundly,
     Topics_messagesList
<1>45. Soundly(Topics_topicOne)
  BY UnorderedRules, UnorderedHelpers DEF Soundly, Topics_topicOne
<1>46. Soundly(Transactions_byId)
  <2>1. Unordered(Transactions_byId.transactionId)
    BY UnorderedRules, UnorderedHelpers DEF Transactions_byId
  <2>2. Unordered(Transactions_byId.nonce)
    BY UnorderedRules, UnorderedChoices, UnorderedFields, UnorderedChanges DEF Transactions_byId
  <2>3. Unordered(Transactions_byId.scheduled)
    BY UnorderedRules, UnorderedHelpers, UnorderedFields, UnorderedChanges DEF Transactions_byId
  <2> QED BY <2>1, <2>2, <2>3 DEF Soundly, Transactions_byId
<1>47. Soundly(Transactions_list)
  BY UnorderedRules, UnorderedChoices, UnorderedHelpers, UnorderedFields DEF Soundly,
     Transactions_list
<1> QED BY <1>1, <1>2, <1>3, <1>4, <1>5, <1>6, <1>7, <1>8, <1>9, <1>10, <1>11, <1>12, <1>13,
          <1>14, <1>15, <1>16, <1>17, <1>18, <1>19, <1>20, <1>21, <1>22, <1>23, <1>24, <1>25,
          <1>26, <1>27, <1>28, <1>29, <1>30, <1>31, <1>32, <1>33, <1>34, <1>35, <1>36, <1>37,
          <1>38, <1>39, <1>40, <1>41, <1>42, <1>43, <1>44, <1>45, <1>46, <1>47

\* A builder has the fields of its mapper.
LEMMA FieldsAgree ==
  ASSUME NEW e \in Endpoints
  PROVE  DOMAIN Builder[e] = DOMAIN Mapper[e]
<1>1. CASE e = "accounts_list"
  BY <1>1 DEF Builder, Mapper, AccountsListQueryDSL, Accounts_list
<1>2. CASE e = "accounts_one"
  BY <1>2 DEF Builder, Mapper, AccountOneQueryDSL, Accounts_one
<1>3. CASE e = "accounts_hooks"
  BY <1>3 DEF Builder, Mapper, AccountHooksDSL, Accounts_hooks
<1>4. CASE e = "accounts_hookStorage"
  BY <1>4 DEF Builder, Mapper, AccountHookStorageDSL, Accounts_hookStorage
<1>5. CASE e = "accounts_cryptoAllowances"
  BY <1>5 DEF Builder, Mapper, AccountCryptoAllowancesDSL, Accounts_cryptoAllowances
<1>6. CASE e = "accounts_tokenAllowances"
  BY <1>6 DEF Builder, Mapper, AccountTokenAllowancesDSL, Accounts_tokenAllowances
<1>7. CASE e = "accounts_nftAllowances"
  BY <1>7 DEF Builder, Mapper, AccountNftAllowancesDSL, Accounts_nftAllowances
<1>8. CASE e = "accounts_tokens"
  BY <1>8 DEF Builder, Mapper, AccountTokensDSL, Accounts_accountTokens
<1>9. CASE e = "accounts_nfts"
  BY <1>9 DEF Builder, Mapper, AccountNftsOwnedDSL, Accounts_accountNftsOwned
<1>10. CASE e = "accounts_rewards"
  BY <1>10 DEF Builder, Mapper, AccountRewardsDSL, Accounts_rewards
<1>11. CASE e = "accounts_outstandingAirdrops"
  BY <1>11 DEF Builder, Mapper, AccountOutstandingAirdropsDSL, Accounts_outstandingAirdrops
<1>12. CASE e = "accounts_pendingAirdrops"
  BY <1>12 DEF Builder, Mapper, AccountPendingAirdropsDSL, Accounts_pendingAirdrops
<1>13. CASE e = "balances_list"
  BY <1>13 DEF Builder, Mapper, BalancesListQueryBuilder, Balances_list
<1>14. CASE e = "blocks_list"
  BY <1>14 DEF Builder, Mapper, BlocksListQueryBuilder, Blocks_list
<1>15. CASE e = "blocks_one"
  BY <1>15 DEF Builder, Mapper, BlocksOneQueryBuilder, Blocks_one
<1>16. CASE e = "topics_one"
  BY <1>16 DEF Builder, Mapper, TopicOneQueryBuilder, Topics_topicOne
<1>17. CASE e = "topics_messages"
  BY <1>17 DEF Builder, Mapper, TopicMessagesListQueryBuilder, Topics_messagesList
<1>18. CASE e = "topics_bySequence"
  BY <1>18 DEF Builder, Mapper, TopicMessageBySequenceQueryBuilder, Topics_messageBySequence
<1>19. CASE e = "topics_byTimestamp"
  BY <1>19 DEF Builder, Mapper, TopicMessageByTimestampQueryBuilder, Topics_messageByTimestamp
<1>20. CASE e = "tokens_list"
  BY <1>20 DEF Builder, Mapper, TokensListQueryBuilder, Tokens_list
<1>21. CASE e = "tokens_one"
  BY <1>21 DEF Builder, Mapper, TokenOneQueryBuilder, Tokens_one
<1>22. CASE e = "tokens_balances"
  BY <1>22 DEF Builder, Mapper, TokenBalancesQueryBuilder, Tokens_balances
<1>23. CASE e = "tokens_nfts"
  BY <1>23 DEF Builder, Mapper, TokenNftsListQueryBuilder, Tokens_nftsList
<1>24. CASE e = "tokens_nft"
  BY <1>24 DEF Builder, Mapper, TokenNftOneQueryBuilder, Tokens_nftOne
<1>25. CASE e = "tokens_nftTransactions"
  BY <1>25 DEF Builder, Mapper, TokenNftTransactionsQueryBuilder, Tokens_nftTx
<1>26. CASE e = "network_supply"
  BY <1>26 DEF Builder, Mapper, NetworkSupplyQueryBuilder, Network_supply
<1>27. CASE e = "network_fees"
  BY <1>27 DEF Builder, Mapper, NetworkFeesQueryBuilder, Network_fees
<1>28. CASE e = "network_estimateFees"
  BY <1>28 DEF Builder, Mapper, NetworkFeeEstimateRequestBuilder, Network_estimateFees
<1>29. CASE e = "network_exchangeRate"
  BY <1>29 DEF Builder, Mapper, NetworkExchangeRateQueryBuilder, Network_exchangeRate
<1>30. CASE e = "network_nodes"
  BY <1>30 DEF Builder, Mapper, NetworkNodesQueryBuilder, Network_nodes
<1>31. CASE e = "network_registeredNodes"
  BY <1>31 DEF Builder, Mapper, NetworkRegisteredNodesQueryBuilder, Network_registeredNodes
<1>32. CASE e = "schedules_list"
  BY <1>32 DEF Builder, Mapper, SchedulesListQueryBuilder, Schedules_list
<1>33. CASE e = "schedules_one"
  BY <1>33 DEF Builder, Mapper, SchedulesOneQueryBuilder, Schedules_one
<1>34. CASE e = "transactions_list"
  BY <1>34 DEF Builder, Mapper, TransactionsListQueryBuilder, Transactions_list
<1>35. CASE e = "transactions_byId"
  BY <1>35 DEF Builder, Mapper, TransactionByIdQueryBuilder, Transactions_byId
<1>36. CASE e = "contracts_list"
  BY <1>36 DEF Builder, Mapper, ContractsListQueryBuilder, Contracts_list
<1>37. CASE e = "contracts_one"
  BY <1>37 DEF Builder, Mapper, ContractOneQueryBuilder, Contracts_one
<1>38. CASE e = "contracts_results"
  BY <1>38 DEF Builder, Mapper, ContractResultsListQueryBuilder, Contracts_resultsList
<1>39. CASE e = "contracts_resultsByContract"
  BY <1>39 DEF Builder, Mapper, ContractResultsByContractQueryBuilder, Contracts_resultsByContract
<1>40. CASE e = "contracts_resultByTimestamp"
  BY <1>40 DEF Builder, Mapper, ContractResultByTimestampQueryBuilder, Contracts_resultByTimestamp
<1>41. CASE e = "contracts_resultByTransaction"
  BY <1>41 DEF Builder, Mapper, ContractResultByTransactionQueryBuilder,
     Contracts_resultByTransaction
<1>42. CASE e = "contracts_logs"
  BY <1>42 DEF Builder, Mapper, ContractLogsListQueryBuilder, Contracts_logsList
<1>43. CASE e = "contracts_logsByContract"
  BY <1>43 DEF Builder, Mapper, ContractLogsByContractQueryBuilder, Contracts_logsByContract
<1>44. CASE e = "contracts_state"
  BY <1>44 DEF Builder, Mapper, ContractStateQueryBuilder, Contracts_stateQuery
<1>45. CASE e = "contracts_call"
  BY <1>45 DEF Builder, Mapper, ContractCallRequestBuilder, Contracts_callQuery
<1>46. CASE e = "contracts_actions"
  BY <1>46 DEF Builder, Mapper, ContractActionsQueryBuilder, Contracts_actionsByResult
<1>47. CASE e = "contracts_opcodes"
  BY <1>47 DEF Builder, Mapper, ContractOpcodesQueryBuilder, Contracts_opcodes
<1> QED BY <1>1, <1>2, <1>3, <1>4, <1>5, <1>6, <1>7, <1>8, <1>9, <1>10, <1>11, <1>12, <1>13,
          <1>14, <1>15, <1>16, <1>17, <1>18, <1>19, <1>20, <1>21, <1>22, <1>23, <1>24, <1>25,
          <1>26, <1>27, <1>28, <1>29, <1>30, <1>31, <1>32, <1>33, <1>34, <1>35, <1>36, <1>37,
          <1>38, <1>39, <1>40, <1>41, <1>42, <1>43, <1>44, <1>45, <1>46, <1>47 DEF Endpoints,
          Builder

\* So only ranges of numbers and of at most two IDs have their bounds compared.
LEMMA OrderedRules ==
  ASSUME NEW e \in Endpoints, NEW f \in DOMAIN Builder[e], Mapper[e][f].rule.ordered
  PROVE  RangeRule(Mapper[e][f].rule)
<1>1. e \in DOMAIN Mapper
  BY DEF Endpoints, Builder, Mapper
<1>2. Soundly(Mapper[e])
  BY <1>1, Tables DEF Mapper
<1>3. Unordered(Mapper[e][f]) \/ RangeField(Mapper[e][f])
  BY <1>2, FieldsAgree DEF Soundly
<1> QED BY <1>3 DEF Unordered, IsUnordered, RangeField

------------------------------------------------------------------------------
(***************************************************************************)
(* Ranges whose bounds are compared.                                       *)
(***************************************************************************)
Comparable(x) == Valid(x) /\ x.op \in NoNeOps \cup {""}

\* The values of such a list have a number of the range and no "ne".
LEMMA RangeValues ==
  ASSUME NEW list, NEW r, RangeRule(r), validateRepeatedValues(list, r)
  PROVE  \A x \in ToSet(list) : Comparable(x)
<1>1. \A i \in DOMAIN list : ValueOk(list[i], r)
  BY DEF validateRepeatedValues, RangeRule
<1>2. CASE r.by = "javaLong"
  <2>1. \A x : ValueOk(x, r) => validateJavaLongRangeFilter(x, r.ops, r.low, r.rejectLtZero)
    BY <1>2, Zenon DEF ValueOk
  <2>2. \A x : validateJavaLongRangeFilter(x, r.ops, 0, r.rejectLtZero)
                => Comparable(x)
    BY DEF Comparable, validateJavaLongRangeFilter, parseComparatorValue, Decimal, Valid,
       Operator,
           RangeRule, NoNeOps, AllOps
  <2>3. r.low = 0
    BY <1>2 DEF RangeRule
  <2> QED BY <1>1, <2>1, <2>2, <2>3 DEF ToSet
<1>3. CASE r.by = "entityRange"
  <2>1. \A x : ValueOk(x, r) => validateEntityIdFilter(x, r.ops)
    BY <1>3, Zenon DEF ValueOk, validatePrimaryEntityIdRangeFilter
  <2>2. \A x : validateEntityIdFilter(x, r.ops) => x.op \in NoNeOps \cup {""}
    BY DEF validateEntityIdFilter, parseComparatorValue, RangeRule
  <2>3. 0 .. MaxPacked \subseteq 0 .. MaxLong
    BY FiltersAssumption
  <2>4. \A x : validateEntityIdFilter(x, r.ops) => x.v \in 0 .. MaxLong
    BY <2>3 DEF validateEntityIdFilter, validateEntityIdRangeValue
  <2>5. \A x : x.op \in NoNeOps \cup {""} => Operator(x) \in NoNeOps
    BY DEF Operator, NoNeOps, AllOps
  <2> QED BY <1>1, <2>1, <2>2, <2>4, <2>5 DEF ToSet, Valid, Comparable
<1> QED BY <1>2, <1>3 DEF RangeRule

IsUpper(x) == x.op \in Upper
Unequal(fs) == {x \in fs : x.op \notin {"", "eq"}}

\* Numbers: equalities are not compared.
LEMMA NumberRanges ==
  ASSUME NEW fs, \A x \in fs : Comparable(x),
         NEW A, A = Unequal(fs)
  PROVE  BoundsMeet(fs, Lower, Upper) <=>
           ((\E x \in A : IsUpper(x)) /\ (\E x \in A : ~IsUpper(x))
              => \E v \in 0 .. MaxLong : \A x \in A : Satisfies(v, x))
<1>1. \A x \in A : /\ Valid(x)
                   /\ IsUpper(x) => Operator(x) \in Upper /\ Operator(x) \notin Lower \cup {"eq"}
                   /\ ~IsUpper(x) => Operator(x) \in Lower /\ Operator(x) \notin Upper \cup {"eq"}
  BY DEF IsUpper, Unequal, Comparable, Operator, NoNeOps, AllOps, Lower, Upper
<1>2. {x \in fs : Operator(x) \in Lower} = {x \in A : Operator(x) \in Lower \cup {"eq"}}
  BY DEF Unequal, Comparable, Operator, NoNeOps, AllOps, Lower, Upper
<1>3. {x \in fs : Operator(x) \in Upper} = {x \in A : Operator(x) \in Upper \cup {"eq"}}
  BY DEF Unequal, Comparable, Operator, NoNeOps, AllOps, Lower, Upper
<1>4. /\ LowerBounds(fs, Lower) = LowerBounds(A, Lower \cup {"eq"})
      /\ UpperBounds(fs, Upper) = UpperBounds(A, Upper \cup {"eq"})
  BY <1>2, <1>3, Zenon DEF LowerBounds, UpperBounds
<1>5. /\ LowerBounds(fs, Lower) # {} <=> \E x \in A : ~IsUpper(x)
      /\ UpperBounds(fs, Upper) # {} <=> \E x \in A : IsUpper(x)
  <2>1. LowerBounds(fs, Lower) # {} <=> \E x \in A : Operator(x) \in Lower \cup {"eq"}
    BY <1>4, BoundsExist
  <2>2. UpperBounds(fs, Upper) # {} <=> \E x \in A : Operator(x) \in Upper \cup {"eq"}
    BY <1>4, BoundsExist
  <2> QED BY <1>1, <2>1, <2>2
<1>6. \A v \in 0 .. MaxLong :
        (\A x \in A : Satisfies(v, x)) <=>
          /\ \A b \in LowerBounds(fs, Lower) : b <= v
          /\ \A b \in UpperBounds(fs, Upper) : v <= b
  <2> TAKE v \in 0 .. MaxLong
  <2>1. v \in Int
    BY LongIsNat
  <2>2. \A x \in A : Valid(x)
    BY <1>1
  <2> QED BY <1>4, <2>1, <2>2, AllSatisfyBetween
<1>7. \A x \in fs : Valid(x)
  BY DEF Comparable
<1> QED BY <1>5, <1>6, <1>7, MeetingBounds

AtMostTwo(S) == \A x, y, z \in S : x = y \/ y = z \/ x = z

\* IDs: of two of one shape, an equality counts as a lower bound.
LEMMA IdRanges ==
  ASSUME NEW A, \A x \in A : Comparable(x),
         AtMostTwo(A)
  PROVE  BoundsMeet(A, Lower \cup {"eq"}, Upper) <=>
           ((\E x \in A : IsUpper(x)) /\ (\E x \in A : ~IsUpper(x))
              => \E v \in 0 .. MaxLong : \A x \in A : Satisfies(v, x))
<1> DEFINE L == LowerBounds(A, Lower \cup {"eq"})
           U == UpperBounds(A, Upper)
<1>1. \A x \in A : /\ Valid(x)
                   /\ IsUpper(x) => Operator(x) \in Upper /\ Operator(x) \notin Lower \cup {"eq"}
                   /\ ~IsUpper(x) => Operator(x) \in Lower \cup {"eq"} /\ Operator(x) \notin Upper
  BY DEF IsUpper, Comparable, Operator, NoNeOps, AllOps, Lower, Upper
<1>2. L # {} <=> \E x \in A : ~IsUpper(x)
  BY <1>1, BoundsExist
<1>3. U # {} <=> \E x \in A : IsUpper(x)
  BY <1>1, BoundsExist
<1>4. BoundsMeet(A, Lower \cup {"eq"}, Upper) <=>
        (L # {} /\ U # {} => \E t \in 0 .. MaxLong : (\A x \in L : x <= t) /\ (\A x \in U : t <= x))
  BY <1>1, MeetingBounds
<1> SUFFICES ASSUME NEW u \in A, IsUpper(u), NEW w \in A, ~IsUpper(w)
             PROVE  (\E t \in 0 .. MaxLong : (\A x \in L : x <= t) /\ (\A x \in U : t <= x))
                      <=> \E v \in 0 .. MaxLong : \A x \in A : Satisfies(v, x)
  BY <1>2, <1>3, <1>4
<1> HIDE DEF L, U
<1> DEFINE low == IF w.op = "gt" THEN w.v + 1 ELSE w.v
           high == IF u.op = "lt" THEN u.v - 1 ELSE u.v
<1>5. \A x \in A : x = u \/ x = w
  BY DEF AtMostTwo
<1>6. L = {low} /\ U = {high}
  <2>1. {x \in A : Operator(x) \in Lower \cup {"eq"}} = {w}
    BY <1>1, <1>5
  <2>2. {x \in A : Operator(x) \in Upper} = {u}
    BY <1>1, <1>5
  <2> QED BY <2>1, <2>2 DEF L, U, LowerBounds, UpperBounds
<1>7. w.v \in 0 .. MaxLong /\ u.v \in 0 .. MaxLong
  BY <1>1 DEF Valid
<1>8. \A v \in 0 .. MaxLong : Satisfies(v, u) <=> v <= high
  <2> TAKE v \in 0 .. MaxLong
  <2>1. Operator(u) \in Upper /\ Operator(u) \notin Lower \cup {"eq"}
    BY <1>1
  <2>2. v \in Int /\ Valid(u)
    BY <1>1, LongIsNat
  <2> QED BY <2>1, <2>2, SatisfiesIsBetween
<1>9. CASE Operator(w) \in Lower
  <2>1. \A v \in 0 .. MaxLong : Satisfies(v, w) <=> low <= v
    <3> TAKE v \in 0 .. MaxLong
    <3>1. Operator(w) \in Lower /\ Operator(w) \notin Upper \cup {"eq"}
      BY <1>9 DEF Lower, Upper
    <3>2. v \in Int /\ Valid(w)
      BY <1>1, LongIsNat
    <3> QED BY <3>1, <3>2, SatisfiesIsBetween
  <2> QED BY <1>5, <1>6, <1>8, <2>1
<1>10. CASE Operator(w) \notin Lower
  <2>1. Operator(w) = "eq"
    BY <1>1, <1>10
  <2>3. w.op # "gt" /\ w.op # "lt"
    BY <2>1 DEF Operator
  <2>2. \A v \in 0 .. MaxLong : Satisfies(v, w) <=> v = w.v
    <3> TAKE v \in 0 .. MaxLong
    <3>1. v \in Int /\ Valid(w)
      BY <1>1, LongIsNat
    <3> QED BY <1>7, <2>1, <2>3, <3>1, LongIsNat, SatisfiesIsBetween
  <2>4. (\E v \in 0 .. MaxLong : \A x \in A : Satisfies(v, x)) <=> low <= high
    BY <1>5, <1>7, <1>8, LongIsNat, <2>2, <2>3
  <2>5. (\E t \in 0 .. MaxLong : low <= t /\ t <= high) <=> low <= high
    BY <1>7, <2>3, LongIsNat
  <2> QED BY <1>6, <2>4, <2>5
<1> QED BY <1>9, <1>10

\* The two cases of orderedBounds, for the query of a typed state.
LEMMA SatisfiableBounds ==
  ASSUME TypeOK
  PROVE  BoundsAreSatisfiable
<1> SUFFICES ASSUME NEW f \in Fields,
                    Mapper[endpoint][f].rule.ordered,
                    validateRepeatedValues(query[f], Mapper[endpoint][f].rule),
                    ShapeOk(query[f], Mapper[endpoint][f].rule)
             PROVE  LET rule == Mapper[endpoint][f].rule
                        list == query[f]
                        Alike(n) == {x \in ToSet(list) :
                                       (rule.by = "javaLong" /\ x.op \notin {"", "eq"})
                                         \/ (rule.by = "entityRange" /\ x.arity = n)}
                        Empty(n) == \A v \in 0 .. MaxLong : \E x \in Alike(n) : ~Satisfies(v, x)
                        Opposed(n) == /\ \E x \in Alike(n) : x.op \in Upper
                                      /\ \E x \in Alike(n) : x.op \notin Upper
                    IN  Accepts(list, rule) <=> \A n \in 1 .. 3 : Opposed(n) => ~Empty(n)
  BY Zenon DEF BoundsAreSatisfiable
<1> DEFINE rule == Mapper[endpoint][f].rule
           list == query[f]
           fs == ToSet(list)
           Alike(n) == {x \in fs : (rule.by = "javaLong" /\ x.op \notin {"", "eq"})
                                     \/ (rule.by = "entityRange" /\ x.arity = n)}
           Sound(A) == (\E x \in A : IsUpper(x)) /\ (\E x \in A : ~IsUpper(x))
                         => \E v \in 0 .. MaxLong : \A x \in A : Satisfies(v, x)
<1>1. RangeRule(rule)
  BY OrderedRules DEF TypeOK, Fields
<1>2. \A x \in fs : Comparable(x)
  BY <1>1, RangeValues
<1>3. Accepts(list, rule) <=> OrderedBounds(list, rule)
  BY <1>1 DEF Accepts, RangeRule
<1>4. list \in Seq(Filter)
  BY FieldsAgree DEF TypeOK, Fields
<1> DEFINE Empty(n) == \A v \in 0 .. MaxLong : \E x \in Alike(n) : ~Satisfies(v, x)
           Opposed(n) == /\ \E x \in Alike(n) : x.op \in Upper
                         /\ \E x \in Alike(n) : x.op \notin Upper
<1>7. ASSUME NEW n PROVE (Opposed(n) => ~Empty(n)) <=> Sound(Alike(n))
  <2> HIDE DEF Alike
  <2> QED BY Zenon DEF IsUpper
<1> SUFFICES OrderedBounds(list, rule) <=> \A n \in 1 .. 3 : Sound(Alike(n))
  <2>1. (\A n \in 1 .. 3 : Opposed(n) => ~Empty(n)) <=> \A n \in 1 .. 3 : Sound(Alike(n))
    <3> HIDE DEF Opposed, Empty, Sound
    <3> QED BY <1>7
  <2> QED BY <1>3, <2>1, Zenon
<1>5. CASE rule.by = "javaLong"
  <2>1. \A n : Alike(n) = Unequal(fs)
    <3>1. rule.by # "entityRange"
      BY <1>5
    <3> HIDE DEF rule, fs
    <3> QED BY <1>5, <3>1 DEF Unequal
  <2>2. OrderedBounds(list, rule) <=> BoundsMeet(fs, Lower, Upper)
    BY <1>5 DEF OrderedBounds
  <2>3. BoundsMeet(fs, Lower, Upper) <=> Sound(Unequal(fs))
    <3> HIDE DEF fs
    <3> QED BY <1>2, NumberRanges
  <2>4. \A n \in 1 .. 3 : Sound(Alike(n)) <=> Sound(Unequal(fs))
    <3> HIDE DEF Alike, Sound
    <3> QED BY <2>1
  <2>5. 1 \in 1 .. 3
    OBVIOUS
  <2> HIDE DEF Alike, Sound
  <2> QED BY <2>2, <2>3, <2>4, <2>5, Zenon
<1>6. CASE rule.by = "entityRange"
  <2>1. \A n : Alike(n) = {x \in fs : x.arity = n}
    BY <1>6
  <2>2. OrderedBounds(list, rule) <=>
          \A n \in 1 .. 3 : BoundsMeet(Alike(n), Lower \cup {"eq"}, Upper)
    BY <1>6, <2>1 DEF OrderedBounds
  <2>3. ASSUME NEW n \in 1 .. 3
        PROVE  BoundsMeet(Alike(n), Lower \cup {"eq"}, Upper) <=> Sound(Alike(n))
    <3>1. AtMostTwo(Alike(n))
      <4>1. Len(list) <= 2 /\ Len(list) \in Nat /\ DOMAIN list = 1 .. Len(list)
        BY <1>1, <1>4, <1>6 DEF validateRepeatedValues, RangeRule
      <4>2. \A i \in DOMAIN list : i = 1 \/ i = 2
        BY <4>1
      <4>3. \A x \in fs : x = list[1] \/ x = list[2]
        BY <4>2 DEF ToSet
      <4> QED BY <4>3 DEF AtMostTwo
    <3>2. \A x \in Alike(n) : Comparable(x)
      BY <1>2
    <3> QED BY <3>1, <3>2, IdRanges, Zenon
  <2> QED BY <2>2, <2>3
<1> QED BY <1>1, <1>5, <1>6 DEF RangeRule

------------------------------------------------------------------------------
(***************************************************************************)
(* Types.                                                                  *)
(***************************************************************************)
\* The typical value of a required field is one of the filters tried.
LEMMA TypicalIsFilter ==
  ASSUME NEW e \in Endpoints, NEW f \in DOMAIN Builder[e], Builder[e][f].required
  PROVE  Typical[e][f] \in Filter
<1> DEFINE rule == Builder[e][f].rule
<1>1. \E x \in First(rule) : Accepts(<<x>>, rule)
  BY QueriesAssumption
<1>2. (CHOOSE x \in First(rule) : Accepts(<<x>>, rule)) \in First(rule)
  BY <1>1, Zenon
<1>3. Typical[e][f] = CHOOSE x \in First(rule) : Accepts(<<x>>, rule)
  BY DEF Typical
<1>4. First(rule) \subseteq Filter
  BY QueriesAssumption
<1> QED BY <1>2, <1>3, <1>4

LEMMA TypeInit == Init => TypeOK
<1> SUFFICES ASSUME Init PROVE TypeOK
  OBVIOUS
<1>1. endpoint \in Endpoints /\ alive \in BOOLEAN
  BY DEF Init
<1>2. \A f \in Fields : Rules(f).required => <<Typical[endpoint][f]>> \in Seq(Filter)
  BY <1>1, TypicalIsFilter DEF Fields, Rules
<1>3. query \in [Fields -> Seq(Filter)]
  BY <1>2 DEF Init
<1> QED BY <1>1, <1>3, FieldsAgree DEF TypeOK, Fields

LEMMA TypeStep == TypeOK /\ [Next]_vars => TypeOK'
<1> SUFFICES ASSUME TypeOK, [Next]_vars PROVE TypeOK'
  OBVIOUS
<1>1. query \in [Fields -> Seq(Filter)]
  BY FieldsAgree DEF TypeOK, Fields
<1>2. ASSUME NEW f \in Fields, NEW values \in Seq(Filter), NEW checked, Call(f, values, checked)
      PROVE  TypeOK'
  <2>1. query[f] \o values \in Seq(Filter)
    BY <1>1
  <2>2. query' \in [Fields -> Seq(Filter)]
    BY <1>1, <1>2, <2>1 DEF Call
  <2>3. endpoint' = endpoint /\ alive' \in BOOLEAN
    BY <1>2 DEF Call
  <2> QED BY <2>2, <2>3, FieldsAgree DEF TypeOK, Fields
<1>3. \A f \in Fields : Samples(f) \subseteq Filter
  BY TypicalIsFilter, QueriesAssumption DEF Samples, Rules, Fields, TypeOK
<1>4. ASSUME NEW f \in Fields, NEW x \in Samples(f)
      PROVE  <<x>> \in Seq(Filter) /\ <<x, x>> \in Seq(Filter)
  BY <1>3, <1>4
<1>5. ASSUME NEW f \in Fields, Give(f) PROVE TypeOK'
  BY <1>2, <1>4, <1>5 DEF Give
<1>6. ASSUME NEW f \in Fields, GiveArray(f) PROVE TypeOK'
  BY <1>2, <1>4, <1>6 DEF GiveArray
<1>7. ASSUME NEW f \in Fields, Compare(f) PROVE TypeOK'
  BY <1>2, <1>4, <1>7 DEF Compare
<1>8. CASE UNCHANGED vars
  BY <1>8 DEF vars, TypeOK
<1> QED BY <1>5, <1>6, <1>7, <1>8 DEF Next

------------------------------------------------------------------------------
(***************************************************************************)
(* Shapes.  What the fields of mappers and the entries of builders are     *)
(* made of.                                                                *)
(***************************************************************************)
\* What a mapper's field is made of.
IsField(m) == {"rule", "as", "required", "key", "reads"} \subseteq DOMAIN m
Has(m, rule, as, required, key) ==
  IsField(m) /\ m.rule = rule /\ m.as = as /\ m.required = required /\ m.key = key

\* What the options of a mapper's field change, and what they leave alone.
LEMMA FieldOptions ==
  /\ \A m : IsField(m) => Has(Required(m), m.rule, m.as, TRUE, m.key)
  /\ \A m, how : IsField(m) => Has(Keyed(m, how), m.rule, m.as, m.required, how)
  /\ \A m, how : IsField(m) => Keyed(m, how).reads = m.reads
  /\ \A m : IsField(m) => Has(LastCounts(m), m.rule, m.as, m.required, m.key)
  /\ \A m : IsField(m) => LastCounts(m).reads = "last"
<1>1. \A m : IsField(m) => Has(Required(m), m.rule, m.as, TRUE, m.key)
  BY DEF Required, Has, IsField
<1>2. \A m, how : IsField(m) => Has(Keyed(m, how), m.rule, m.as, m.required, how)
  BY DEF Keyed, Has, IsField
<1>3. \A m, how : IsField(m) => Keyed(m, how).reads = m.reads
  BY DEF Keyed, IsField
<1>4. \A m : IsField(m) => Has(LastCounts(m), m.rule, m.as, m.required, m.key)
  BY DEF LastCounts, Has, IsField
<1>5. \A m : IsField(m) => LastCounts(m).reads = "last"
  BY DEF LastCounts, IsField
<1> QED BY <1>1, <1>2, <1>3, <1>4, <1>5

\* What the fields that the mappers share are made of.
LEMMA FieldShapes ==
  /\ \A r, p : Has(Field(r, p), r, p, FALSE, "none")
  /\ \A r : Has(PathField(r), r, "path", TRUE, "none")
  /\ \A r : Has(KeyedPath(r), r, "path", TRUE, "all")
  /\ Has(Sorted, Order, "order", FALSE, "none")
  /\ \A ops : Has(Timestamps(ops), OfOps(Rule("timestamp"), ops), "timestamp", FALSE, "none")
  /\ Has(KeyedTimes, JavaTimes, "timestamp", FALSE, "all")
  /\ Has(Hbar, Flag, "hbar", FALSE, "falsehood") /\ Hbar.reads = "falsehood"
  /\ Has(LogTimes, Structured(OfOps(Rule("timestamp"), NoNeOps)), "timestamp", FALSE, "none")
<1>1. \A r, p : Has(Field(r, p), r, p, FALSE, "none")
  BY DEF Field, Has, IsField
<1>2. \A r : Has(PathField(r), r, "path", TRUE, "none")
  BY DEF PathField, Field, Has, IsField
<1>3. \A r : Has(KeyedPath(r), r, "path", TRUE, "all")
  BY <1>2, FieldOptions DEF KeyedPath, Has
<1>4. Has(KeyedTimes, JavaTimes, "timestamp", FALSE, "all")
  BY <1>1, FieldOptions DEF KeyedTimes, Has
<1>5. Has(Hbar, Flag, "hbar", FALSE, "falsehood") /\ Hbar.reads = "falsehood"
  <2>1. Has(Keyed(Field(Flag, "hbar"), "falsehood"), Flag, "hbar", FALSE, "falsehood")
    BY <1>1, FieldOptions DEF Has
  <2> QED BY <2>1 DEF Hbar, Has, IsField
<1>6. Has(Sorted, Order, "order", FALSE, "none")
  BY <1>1 DEF Sorted
<1>7. Has(LogTimes, Structured(OfOps(Rule("timestamp"), NoNeOps)), "timestamp", FALSE, "none")
  BY <1>1 DEF LogTimes
<1>8. \A ops : Has(Timestamps(ops), OfOps(Rule("timestamp"), ops), "timestamp", FALSE, "none")
  BY <1>1 DEF Timestamps
<1> QED BY <1>1, <1>2, <1>3, <1>4, <1>5, <1>6, <1>7, <1>8

\* What a builder's entry is made of.
IsEntry(b) ==
  {"rule", "as", "many", "arrays", "fluent", "pre", "required", "keyed"} \subseteq DOMAIN b
Holds(b, rule, as, fluent, pre, required, keyed) ==
  /\ IsEntry(b) /\ b.rule = rule /\ b.as = as /\ b.fluent = fluent /\ b.pre = pre
  /\ b.required = required /\ b.keyed = keyed

\* What the options of a builder's entry change, and what they leave alone.
LEMMA EntryOptions ==
  /\ \A b : IsEntry(b) =>
       Holds(Singly(b), b.rule, b.as, b.fluent, b.pre, b.required, b.keyed)
  /\ \A b : IsEntry(b) => Holds(Needed(b), b.rule, b.as, b.fluent, b.pre, TRUE, b.keyed)
  /\ \A b : IsEntry(b) => Holds(InKey(b), b.rule, b.as, b.fluent, b.pre, b.required, TRUE)
  /\ \A b, r : IsEntry(b) =>
       Holds(Bare(b, r), b.rule, b.as, b.fluent, r, b.required, b.keyed)
<1>1. \A b : IsEntry(b) => Holds(Singly(b), b.rule, b.as, b.fluent, b.pre, b.required, b.keyed)
  BY DEF Singly, Holds, IsEntry
<1>2. \A b : IsEntry(b) => Holds(Needed(b), b.rule, b.as, b.fluent, b.pre, TRUE, b.keyed)
  BY DEF Needed, Holds, IsEntry
<1>3. \A b : IsEntry(b) => Holds(InKey(b), b.rule, b.as, b.fluent, b.pre, b.required, TRUE)
  BY DEF InKey, Holds, IsEntry
<1>4. \A b, r : IsEntry(b) => Holds(Bare(b, r), b.rule, b.as, b.fluent, r, b.required, b.keyed)
  BY DEF Bare, Holds, IsEntry
<1> QED BY <1>1, <1>2, <1>3, <1>4

\* What the entries that the builders share are made of.
LEMMA EntryShapes ==
  /\ \A r, p : Holds(One(r, p), r, p, {}, Rule("any"), FALSE, FALSE)
  /\ \A r, p, fl : Holds(Each(r, p, fl), r, p, fl, Rule("any"), FALSE, FALSE)
  /\ \A r : Holds(Set(r), r, "mapped", {}, Rule("any"), FALSE, FALSE)
  /\ \A r, fl : Holds(Add(r, fl), r, "mapped", fl, Rule("any"), FALSE, FALSE)
  /\ \A r : Holds(Path(r), r, "path", {}, Rule("any"), TRUE, FALSE)
  /\ Holds(Sorting, Order, "order", {}, Rule("any"), FALSE, FALSE)
  /\ \A ops : Holds(Instants(ops), OfOps(Rule("timestamp"), ops), "timestamp", ops, Rule("any"),
                    FALSE, FALSE)
  /\ Holds(JavaInstants, JavaTimes, "mapped", NoNeOps, JavaTimes, FALSE, FALSE)
  /\ Holds(ContractPath, OfOps(Rule("contractPath"), {}), "path", {}, Rule("any"), TRUE, FALSE)
<1>1. \A r, p : Holds(One(r, p), r, p, {}, Rule("any"), FALSE, FALSE)
  BY DEF One, Holds, IsEntry
<1>2. \A r, p, fl : Holds(Each(r, p, fl), r, p, fl, Rule("any"), FALSE, FALSE)
  BY DEF Each, One, Holds, IsEntry
<1>3. \A r : Holds(Path(r), r, "path", {}, Rule("any"), TRUE, FALSE)
  BY DEF Path, One, Holds, IsEntry
<1>4. \A r : Holds(Set(r), r, "mapped", {}, Rule("any"), FALSE, FALSE)
  BY <1>1 DEF Set
<1>5. \A r, fl : Holds(Add(r, fl), r, "mapped", fl, Rule("any"), FALSE, FALSE)
  BY <1>2 DEF Add
<1>6. Holds(Sorting, Order, "order", {}, Rule("any"), FALSE, FALSE)
  BY <1>1 DEF Sorting
<1>7. \A ops : Holds(Instants(ops), OfOps(Rule("timestamp"), ops), "timestamp", ops, Rule("any"),
                     FALSE, FALSE)
  BY <1>2, EntryOptions DEF Instants, Holds
<1>8. Holds(JavaInstants, JavaTimes, "mapped", NoNeOps, JavaTimes, FALSE, FALSE)
  BY <1>5, EntryOptions DEF JavaInstants, Holds
<1>9. Holds(ContractPath, OfOps(Rule("contractPath"), {}), "path", {}, Rule("any"), TRUE, FALSE)
  BY <1>3 DEF ContractPath
<1> QED BY <1>1, <1>2, <1>3, <1>4, <1>5, <1>6, <1>7, <1>8, <1>9

------------------------------------------------------------------------------
(***************************************************************************)
(* Cache keys.  What enters the key of a field tells what is read of it,   *)
(* for every mapper that gives a key.                                      *)
(***************************************************************************)
\* What enters the key of a field tells what is read of it.
KeyServes(m) == m.key = "all" \/ m.key = m.reads \/ (m.key = "sorted" /\ m.reads = "set")

\* Two lists that leave the same in a key leave the same to be read.
LEMMA KeysTell ==
  ASSUME NEW left, NEW right, NEW m, KeyServes(m), Part(left, m.key) = Part(right, m.key)
  PROVE  Part(left, m.reads) = Part(right, m.reads)
<1>1. CASE m.key = "all"
  <2>1. \A list : Part(list, "all") = list
    BY DEF Part
  <2> QED BY <1>1, <2>1
<1>2. CASE m.key = m.reads
  BY <1>2
<1>3. CASE m.key = "sorted" /\ m.reads = "set"
  <2> DEFINE Sort(list) == [x \in ToSet(list) |-> Cardinality({i \in DOMAIN list : list[i] = x})]
  <2>1. \A list : Part(list, "sorted") = Sort(list) /\ Part(list, "set") = ToSet(list)
    BY DEF Part
  <2>2. \A list : DOMAIN Sort(list) = ToSet(list)
    OBVIOUS
  <2> HIDE DEF Sort
  <2> QED BY <1>3, <2>1, <2>2
<1> QED BY <1>1, <1>2, <1>3 DEF KeyServes

Unkeyed(table) == \A f \in DOMAIN table : table[f].key = "none"
WellKeyed(table) == \A f \in DOMAIN table : KeyServes(table[f])

\* Either a mapper gives no key, or the key of each of its fields tells what is read of it.
LEMMA Keys ==
  ASSUME NEW e \in Endpoints
  PROVE  Unkeyed(Mapper[e]) \/ WellKeyed(Mapper[e])
<1>1. CASE e = "accounts_list"
  <2>1. Unkeyed(Accounts_list)
    BY FieldShapes DEF Unkeyed, Has, Accounts_list
  <2> QED BY <1>1, <2>1 DEF Mapper
<1>2. CASE e = "accounts_one"
  <2>1. WellKeyed(Accounts_one)
    BY FieldShapes, FieldOptions DEF WellKeyed, KeyServes, Has, Accounts_one
  <2> QED BY <1>2, <2>1 DEF Mapper
<1>3. CASE e = "accounts_hooks"
  <2>1. Unkeyed(Accounts_hooks)
    BY FieldShapes DEF Unkeyed, Has, Accounts_hooks
  <2> QED BY <1>3, <2>1 DEF Mapper
<1>4. CASE e = "accounts_hookStorage"
  <2>1. Unkeyed(Accounts_hookStorage)
    BY FieldShapes DEF Unkeyed, Has, Accounts_hookStorage
  <2> QED BY <1>4, <2>1 DEF Mapper
<1>5. CASE e = "accounts_cryptoAllowances"
  <2>1. Unkeyed(Accounts_cryptoAllowances)
    BY FieldShapes DEF Unkeyed, Has, Accounts_cryptoAllowances
  <2> QED BY <1>5, <2>1 DEF Mapper
<1>6. CASE e = "accounts_tokenAllowances"
  <2>1. Unkeyed(Accounts_tokenAllowances)
    BY FieldShapes DEF Unkeyed, Has, Accounts_tokenAllowances
  <2> QED BY <1>6, <2>1 DEF Mapper
<1>7. CASE e = "accounts_nftAllowances"
  <2>1. Unkeyed(Accounts_nftAllowances)
    BY FieldShapes DEF Unkeyed, Has, Accounts_nftAllowances
  <2> QED BY <1>7, <2>1 DEF Mapper
<1>8. CASE e = "accounts_tokens"
  <2>1. Unkeyed(Accounts_accountTokens)
    BY FieldShapes DEF Unkeyed, Has, Accounts_accountTokens
  <2> QED BY <1>8, <2>1 DEF Mapper
<1>9. CASE e = "accounts_nfts"
  <2>1. Unkeyed(Accounts_accountNftsOwned)
    BY FieldShapes DEF Unkeyed, Has, Accounts_accountNftsOwned
  <2> QED BY <1>9, <2>1 DEF Mapper
<1>10. CASE e = "accounts_rewards"
  <2>1. Unkeyed(Accounts_rewards)
    BY FieldShapes DEF Unkeyed, Has, Accounts_rewards
  <2> QED BY <1>10, <2>1 DEF Mapper
<1>11. CASE e = "accounts_outstandingAirdrops"
  <2>1. Unkeyed(Accounts_outstandingAirdrops)
    BY FieldShapes DEF Unkeyed, Has, Accounts_outstandingAirdrops
  <2> QED BY <1>11, <2>1 DEF Mapper
<1>12. CASE e = "accounts_pendingAirdrops"
  <2>1. Unkeyed(Accounts_pendingAirdrops)
    BY FieldShapes DEF Unkeyed, Has, Accounts_pendingAirdrops
  <2> QED BY <1>12, <2>1 DEF Mapper
<1>13. CASE e = "balances_list"
  <2>1. Unkeyed(Balances_list)
    BY FieldShapes DEF Unkeyed, Has, Balances_list
  <2> QED BY <1>13, <2>1 DEF Mapper
<1>14. CASE e = "blocks_list"
  <2>1. Unkeyed(Blocks_list)
    BY FieldShapes DEF Unkeyed, Has, Blocks_list
  <2> QED BY <1>14, <2>1 DEF Mapper
<1>15. CASE e = "blocks_one"
  <2>1. WellKeyed(Blocks_one)
    BY FieldShapes, FieldOptions DEF WellKeyed, KeyServes, Has, Blocks_one
  <2> QED BY <1>15, <2>1 DEF Mapper
<1>16. CASE e = "topics_one"
  <2>1. WellKeyed(Topics_topicOne)
    BY FieldShapes, FieldOptions DEF WellKeyed, KeyServes, Has, Topics_topicOne
  <2> QED BY <1>16, <2>1 DEF Mapper
<1>17. CASE e = "topics_messages"
  <2>1. Unkeyed(Topics_messagesList)
    BY FieldShapes DEF Unkeyed, Has, Topics_messagesList
  <2> QED BY <1>17, <2>1 DEF Mapper
<1>18. CASE e = "topics_bySequence"
  <2>1. WellKeyed(Topics_messageBySequence)
    BY FieldShapes, FieldOptions DEF WellKeyed, KeyServes, Has, Topics_messageBySequence
  <2> QED BY <1>18, <2>1 DEF Mapper
<1>19. CASE e = "topics_byTimestamp"
  <2>1. WellKeyed(Topics_messageByTimestamp)
    BY FieldShapes, FieldOptions DEF WellKeyed, KeyServes, Has, Topics_messageByTimestamp
  <2> QED BY <1>19, <2>1 DEF Mapper
<1>20. CASE e = "tokens_list"
  <2>1. Unkeyed(Tokens_list)
    BY FieldShapes DEF Unkeyed, Has, Tokens_list
  <2> QED BY <1>20, <2>1 DEF Mapper
<1>21. CASE e = "tokens_one"
  <2>1. WellKeyed(Tokens_one)
    BY FieldShapes, FieldOptions DEF WellKeyed, KeyServes, Has, Tokens_one
  <2> QED BY <1>21, <2>1 DEF Mapper
<1>22. CASE e = "tokens_balances"
  <2>1. Unkeyed(Tokens_balances)
    BY FieldShapes DEF Unkeyed, Has, Tokens_balances
  <2> QED BY <1>22, <2>1 DEF Mapper
<1>23. CASE e = "tokens_nfts"
  <2>1. Unkeyed(Tokens_nftsList)
    BY FieldShapes DEF Unkeyed, Has, Tokens_nftsList
  <2> QED BY <1>23, <2>1 DEF Mapper
<1>24. CASE e = "tokens_nft"
  <2>1. WellKeyed(Tokens_nftOne)
    BY FieldShapes, FieldOptions DEF WellKeyed, KeyServes, Has, Tokens_nftOne
  <2> QED BY <1>24, <2>1 DEF Mapper
<1>25. CASE e = "tokens_nftTransactions"
  <2>1. Unkeyed(Tokens_nftTx)
    BY FieldShapes DEF Unkeyed, Has, Tokens_nftTx
  <2> QED BY <1>25, <2>1 DEF Mapper
<1>26. CASE e = "network_supply"
  <2>1. WellKeyed(Network_supply)
    <3>1. /\ IsField(Keyed(Field(Choice({0, 1}), "q"), "folded"))
          /\ Keyed(Field(Choice({0, 1}), "q"), "folded").key = "folded"
      BY FieldShapes, FieldOptions DEF Has
    <3>2. KeyServes([Keyed(Field(Choice({0, 1}), "q"), "folded") EXCEPT !.reads = "folded"])
      BY <3>1 DEF KeyServes, IsField
    <3>3. KeyServes(KeyedTimes)
      BY FieldShapes DEF KeyServes, Has
    <3> QED BY <3>2, <3>3 DEF WellKeyed, Network_supply
  <2> QED BY <1>26, <2>1 DEF Mapper
<1>27. CASE e = "network_fees"
  <2>1. Unkeyed(Network_fees)
    BY FieldShapes DEF Unkeyed, Has, Network_fees
  <2> QED BY <1>27, <2>1 DEF Mapper
<1>28. CASE e = "network_estimateFees"
  <2>1. Unkeyed(Network_estimateFees)
    BY FieldShapes, FieldOptions DEF Unkeyed, Has, Network_estimateFees
  <2> QED BY <1>28, <2>1 DEF Mapper
<1>29. CASE e = "network_exchangeRate"
  <2>1. WellKeyed(Network_exchangeRate)
    BY FieldShapes, FieldOptions DEF WellKeyed, KeyServes, Has, Network_exchangeRate
  <2> QED BY <1>29, <2>1 DEF Mapper
<1>30. CASE e = "network_nodes"
  <2>1. Unkeyed(Network_nodes)
    BY FieldShapes DEF Unkeyed, Has, Network_nodes
  <2> QED BY <1>30, <2>1 DEF Mapper
<1>31. CASE e = "network_registeredNodes"
  <2>1. Unkeyed(Network_registeredNodes)
    BY FieldShapes DEF Unkeyed, Has, Network_registeredNodes
  <2> QED BY <1>31, <2>1 DEF Mapper
<1>32. CASE e = "schedules_list"
  <2>1. Unkeyed(Schedules_list)
    BY FieldShapes DEF Unkeyed, Has, Schedules_list
  <2> QED BY <1>32, <2>1 DEF Mapper
<1>33. CASE e = "schedules_one"
  <2>1. WellKeyed(Schedules_one)
    BY FieldShapes, FieldOptions DEF WellKeyed, KeyServes, Has, Schedules_one
  <2> QED BY <1>33, <2>1 DEF Mapper
<1>34. CASE e = "transactions_list"
  <2>1. Unkeyed(Transactions_list)
    BY FieldShapes DEF Unkeyed, Has, Transactions_list
  <2> QED BY <1>34, <2>1 DEF Mapper
<1>35. CASE e = "transactions_byId"
  <2>1. WellKeyed(Transactions_byId)
    BY FieldShapes, FieldOptions DEF WellKeyed, KeyServes, Has, Transactions_byId
  <2> QED BY <1>35, <2>1 DEF Mapper
<1>36. CASE e = "contracts_list"
  <2>1. Unkeyed(Contracts_list)
    BY FieldShapes DEF Unkeyed, Has, Contracts_list
  <2> QED BY <1>36, <2>1 DEF Mapper
<1>37. CASE e = "contracts_one"
  <2>1. WellKeyed(Contracts_one)
    <3>1. /\ IsField(Keyed(Timestamps(AllOps), "sorted"))
          /\ Keyed(Timestamps(AllOps), "sorted").key = "sorted"
      BY FieldShapes, FieldOptions DEF Has
    <3>2. KeyServes([Keyed(Timestamps(AllOps), "sorted") EXCEPT !.reads = "set"])
      BY <3>1 DEF KeyServes, IsField
    <3>3. KeyServes(KeyedPath(AContract))
      BY FieldShapes DEF KeyServes, Has
    <3> QED BY <3>2, <3>3 DEF WellKeyed, Contracts_one
  <2> QED BY <1>37, <2>1 DEF Mapper
<1>38. CASE e = "contracts_results"
  <2>1. Unkeyed(Contracts_resultsList)
    BY FieldShapes, FieldOptions DEF Unkeyed, Has, Contracts_resultsList
  <2> QED BY <1>38, <2>1 DEF Mapper
<1>39. CASE e = "contracts_resultsByContract"
  <2>1. Unkeyed(Contracts_resultsByContract)
    BY FieldShapes, FieldOptions DEF Unkeyed, Has, Contracts_resultsByContract
  <2> QED BY <1>39, <2>1 DEF Mapper
<1>40. CASE e = "contracts_resultByTimestamp"
  <2>1. WellKeyed(Contracts_resultByTimestamp)
    BY FieldShapes, FieldOptions DEF WellKeyed, KeyServes, Has, Contracts_resultByTimestamp
  <2> QED BY <1>40, <2>1 DEF Mapper
<1>41. CASE e = "contracts_resultByTransaction"
  <2>1. WellKeyed(Contracts_resultByTransaction)
    BY FieldShapes, FieldOptions DEF WellKeyed, KeyServes, Has, Contracts_resultByTransaction
  <2> QED BY <1>41, <2>1 DEF Mapper
<1>42. CASE e = "contracts_logs"
  <2>1. Unkeyed(Contracts_logsList)
    BY FieldShapes DEF Unkeyed, Has, Contracts_logsList
  <2> QED BY <1>42, <2>1 DEF Mapper
<1>43. CASE e = "contracts_logsByContract"
  <2>1. Unkeyed(Contracts_logsByContract)
    BY FieldShapes DEF Unkeyed, Has, Contracts_logsByContract
  <2> QED BY <1>43, <2>1 DEF Mapper
<1>44. CASE e = "contracts_state"
  <2>1. Unkeyed(Contracts_stateQuery)
    BY FieldShapes DEF Unkeyed, Has, Contracts_stateQuery
  <2> QED BY <1>44, <2>1 DEF Mapper
<1>45. CASE e = "contracts_call"
  <2>1. Unkeyed(Contracts_callQuery)
    BY FieldShapes, FieldOptions DEF Unkeyed, Has, Contracts_callQuery
  <2> QED BY <1>45, <2>1 DEF Mapper
<1>46. CASE e = "contracts_actions"
  <2>1. Unkeyed(Contracts_actionsByResult)
    BY FieldShapes DEF Unkeyed, Has, Contracts_actionsByResult
  <2> QED BY <1>46, <2>1 DEF Mapper
<1>47. CASE e = "contracts_opcodes"
  <2>1. Unkeyed(Contracts_opcodes)
    BY FieldShapes DEF Unkeyed, Has, Contracts_opcodes
  <2> QED BY <1>47, <2>1 DEF Mapper
<1> QED BY <1>1, <1>2, <1>3, <1>4, <1>5, <1>6, <1>7, <1>8, <1>9, <1>10, <1>11, <1>12,
           <1>13, <1>14, <1>15, <1>16, <1>17, <1>18, <1>19, <1>20, <1>21, <1>22, <1>23,
           <1>24, <1>25, <1>26, <1>27, <1>28, <1>29, <1>30, <1>31, <1>32, <1>33, <1>34,
           <1>35, <1>36, <1>37, <1>38, <1>39, <1>40, <1>41, <1>42, <1>43, <1>44, <1>45,
           <1>46, <1>47
        DEF Endpoints, Builder

\* Two queries of an endpoint with the same cache key read the same from the Mirror Node.
LEMMA KeysDetermineAnswers ==
  ASSUME NEW e \in Endpoints, IsKeyed(e), NEW left, NEW right,
         CacheKey(e, left) = CacheKey(e, right)
  PROVE  Answer(e, left) = Answer(e, right)
<1> DEFINE table == Mapper[e]
<1>1. \A f \in DOMAIN table : KeyServes(table[f])
  BY Keys DEF IsKeyed, Unkeyed, WellKeyed
<1>2. \A f \in DOMAIN table : Part(left[f], table[f].key) = Part(right[f], table[f].key)
  <2> DEFINE Key(q) == [f \in DOMAIN table |-> Part(q[f], table[f].key)]
  <2>1. Key(left) = Key(right)
    BY DEF CacheKey
  <2>2. \A q : \A f \in DOMAIN table : Key(q)[f] = Part(q[f], table[f].key)
    OBVIOUS
  <2> HIDE DEF Key
  <2> QED BY <2>1, <2>2
<1>3. \A f \in DOMAIN table : Part(left[f], table[f].reads) = Part(right[f], table[f].reads)
  BY <1>1, <1>2, KeysTell
<1> QED BY <1>3 DEF Answer

\* The response cached for a query is the one its endpoint would give it.
LEMMA FittingAnswers == TypeOK => CachedAnswersFit
BY KeysDetermineAnswers DEF TypeOK, CachedAnswersFit

------------------------------------------------------------------------------
(***************************************************************************)
(* Comparator methods.  What a rule accepts as one string, the comparator  *)
(* methods of its field accept as a bare value.                            *)
(***************************************************************************)
\* Validators that read the comparators of their rule, and validators with their own.
Prefixed == {"entityRange", "account", "entityOrEvm", "token", "contract", "from", "integer",
             "javaLong", "block", "timestamp"}

\* A comparator of an accepted value is one its rule allows.
LEMMA Comparators ==
  ASSUME NEW x \in Filter, x.op \in AllOps, NEW r, ValueOk(x, r)
  PROVE  /\ r.by \in Prefixed => x.op \in r.ops
         /\ r.by \in {"key", "slot", "javaTimestamp"} => x.op \in NoNeOps
         /\ r.by = "hash" => x.op \in EqualOps
<1>0. \A ops, fold : parseComparatorValue(x, ops, fold) => x.op \in ops
  BY DEF parseComparatorValue, AllOps
<1>1. CASE r.by = "entityRange"
  <2>1. r.primary => validatePrimaryEntityIdRangeFilter(x, r.ops)
    BY <1>1, Zenon DEF ValueOk
  <2>2. ~r.primary => validateEntityIdFilter(x, r.ops)
    BY <1>1, Zenon DEF ValueOk
  <2> QED BY <1>0, <1>1, <2>1, <2>2 DEF validatePrimaryEntityIdRangeFilter, validateEntityIdFilter
<1>2. CASE r.by = "account"
  <2>1. validateAccountIdFilter(x, r.ops)
    BY <1>2, Zenon DEF ValueOk
  <2> QED BY <1>0, <1>2, <2>1 DEF validateAccountIdFilter
<1>3. CASE r.by \in {"entityOrEvm", "token"}
  <2>1. r.by = "entityOrEvm" => parseComparatorValue(x, r.ops, FALSE)
    BY Zenon DEF ValueOk
  <2>2. r.by = "token" => parseComparatorValue(x, r.ops, FALSE)
    BY Zenon DEF ValueOk
  <2> QED BY <1>0, <1>3, <2>1, <2>2
<1>4. CASE r.by = "contract"
  <2>1. validateContractIdFilter(x, r.ops)
    BY <1>4, Zenon DEF ValueOk
  <2> QED BY <1>0, <1>4, <2>1 DEF validateContractIdFilter
<1>5. CASE r.by = "from"
  <2>1. validateContractFromFilter(x, r.ops)
    BY <1>5, Zenon DEF ValueOk
  <2> QED BY <1>0, <1>5, <2>1 DEF validateContractFromFilter
<1>6. CASE r.by = "integer"
  <2>1. validateIntegerFilter(x, r.ops, r.low, r.high)
    BY <1>6, Zenon DEF ValueOk
  <2> QED BY <1>0, <1>6, <2>1 DEF validateIntegerFilter
<1>7. CASE r.by = "javaLong"
  <2>1. validateJavaLongRangeFilter(x, r.ops, r.low, r.rejectLtZero)
    BY <1>7, Zenon DEF ValueOk
  <2> QED BY <1>0, <1>7, <2>1 DEF validateJavaLongRangeFilter
<1>8. CASE r.by = "block"
  <2>1. validateBlockNumberFilter(x, r.ops)
    BY <1>8, Zenon DEF ValueOk
  <2> QED BY <1>0, <1>8, <2>1 DEF validateBlockNumberFilter
<1>9. CASE r.by = "timestamp"
  <2>1. validateTimestampFilter(x, r.ops)
    BY <1>9, Zenon DEF ValueOk
  <2> QED BY <1>0, <1>9, <2>1 DEF validateTimestampFilter
<1>10. CASE r.by = "key"
  <2>1. validateHookStorageKey(x)
    BY <1>10, Zenon DEF ValueOk
  <2> QED BY <1>0, <1>10, <2>1 DEF validateHookStorageKey, Prefixed
<1>11. CASE r.by = "slot"
  <2>1. validateContractStateSlot(x)
    BY <1>11, Zenon DEF ValueOk
  <2> QED BY <1>0, <1>11, <2>1 DEF validateContractStateSlot, Prefixed
<1>12. CASE r.by = "javaTimestamp"
  <2>1. validateJavaTimestampFilter(x)
    BY <1>12, Zenon DEF ValueOk
  <2> QED BY <1>0, <1>12, <2>1 DEF validateJavaTimestampFilter, Prefixed
<1>13. CASE r.by = "hash"
  <2>1. validateContractHashFilter(x)
    BY <1>13, Zenon DEF ValueOk
  <2> QED BY <1>0, <1>13, <2>1 DEF validateContractHashFilter, Prefixed
<1> QED BY <1>1, <1>2, <1>3, <1>4, <1>5, <1>6, <1>7, <1>8, <1>9, <1>10, <1>11, <1>12, <1>13
        DEF Prefixed

\* The rule of a bare value: of any, or of the same validator and range.
Bares(r, pre) ==
  \/ pre.by = "any"
  \/ /\ pre.by = r.by /\ pre.low = r.low /\ pre.high = r.high
     /\ r.by \in {"account", "entityOrEvm", "token", "contract", "from", "integer", "javaLong",
                  "block", "timestamp", "javaTimestamp"}

\* An accepted value without its comparator is an accepted bare value.
LEMMA BareValues ==
  ASSUME NEW x \in Filter, ~x.caps, NEW r, ValueOk(x, r), NEW pre, Bares(r, pre)
  PROVE  ValueOk([x EXCEPT !.op = ""], pre)
<1> DEFINE y == [x EXCEPT !.op = ""]
<1>0. /\ y.op = "" /\ y.kind = x.kind /\ y.arity = x.arity /\ y.v = x.v
      /\ \A ops, fold : parseComparatorValue(y, ops, fold)
      /\ Operator(y) = "eq"
  BY DEF Filter, parseComparatorValue, Operator
<1> HIDE DEF y
<1>a. /\ isRequestEntityId(x) <=> isRequestEntityId(y)
      /\ IsEvm(x) <=> IsEvm(y)
      /\ validateEntityIdOrEvm(x) <=> validateEntityIdOrEvm(y)
  BY <1>0 DEF isRequestEntityId, IsEvm, validateEntityIdOrEvm
<1>b. (\A low, high : Decimal(x, low, high) => Decimal(y, low, high)) /\ (Instant(x) => Instant(y))
  BY <1>0 DEF Decimal, Instant
<1>1. CASE pre.by = "any"
  BY <1>1, Zenon DEF ValueOk
<1>2. CASE r.by = "account" /\ pre.by = "account"
  <2>1. validateAccountIdFilter(x, r.ops)
    BY <1>2, Zenon DEF ValueOk
  <2>2. validateAccountIdFilter(y, pre.ops)
    BY <2>1, <1>0, <1>a DEF validateAccountIdFilter
  <2> QED BY <1>2, <2>2, Zenon DEF ValueOk, y
<1>3. CASE r.by = "entityOrEvm" /\ pre.by = "entityOrEvm"
  <2>1. validateEntityIdOrEvm(x)
    BY <1>3, Zenon DEF ValueOk
  <2>2. parseComparatorValue(y, pre.ops, FALSE) /\ validateEntityIdOrEvm(y)
    BY <2>1, <1>0, <1>a
  <2> QED BY <1>3, <2>2, Zenon DEF ValueOk, y
<1>4. CASE r.by = "token" /\ pre.by = "token"
  <2>1. validateTokenIdOrAddress(x)
    BY <1>4, Zenon DEF ValueOk
  <2>2. parseComparatorValue(y, pre.ops, FALSE) /\ validateTokenIdOrAddress(y)
    BY <2>1, <1>0, <1>a DEF validateTokenIdOrAddress
  <2> QED BY <1>4, <2>2, Zenon DEF ValueOk, y
<1>5. CASE r.by = "contract" /\ pre.by = "contract"
  <2>1. validateContractIdFilter(x, r.ops)
    BY <1>5, Zenon DEF ValueOk
  <2>2. validateContractIdFilter(y, pre.ops)
    BY <2>1, <1>0, <1>a DEF validateContractIdFilter
  <2> QED BY <1>5, <2>2, Zenon DEF ValueOk, y
<1>6. CASE r.by = "from" /\ pre.by = "from"
  <2>1. validateContractFromFilter(x, r.ops)
    BY <1>6, Zenon DEF ValueOk
  <2>2. validateContractFromFilter(y, pre.ops)
    BY <2>1, <1>0, <1>a DEF validateContractFromFilter
  <2> QED BY <1>6, <2>2, Zenon DEF ValueOk, y
<1>7. CASE r.by = "integer" /\ pre.by = "integer" /\ pre.low = r.low /\ pre.high = r.high
  <2>1. validateIntegerFilter(x, r.ops, r.low, r.high)
    BY <1>7, Zenon DEF ValueOk
  <2>2. validateIntegerFilter(y, pre.ops, pre.low, pre.high)
    BY <2>1, <1>0, <1>b, <1>7 DEF validateIntegerFilter
  <2> QED BY <1>7, <2>2, Zenon DEF ValueOk, y
<1>8. CASE r.by = "javaLong" /\ pre.by = "javaLong" /\ pre.low = r.low
  <2>1. validateJavaLongRangeFilter(x, r.ops, r.low, r.rejectLtZero)
    BY <1>8, Zenon DEF ValueOk
  <2>2. validateJavaLongRangeFilter(y, pre.ops, pre.low, pre.rejectLtZero)
    BY <2>1, <1>0, <1>b, <1>8 DEF validateJavaLongRangeFilter
  <2> QED BY <1>8, <2>2, Zenon DEF ValueOk, y
<1>9. CASE r.by = "block" /\ pre.by = "block"
  <2>1. validateBlockNumberFilter(x, r.ops)
    BY <1>9, Zenon DEF ValueOk
  <2>2. validateBlockNumberFilter(y, pre.ops)
    BY <2>1, <1>0, <1>b DEF validateBlockNumberFilter, HexNumber
  <2> QED BY <1>9, <2>2, Zenon DEF ValueOk, y
<1>10. CASE r.by = "timestamp" /\ pre.by = "timestamp"
  <2>1. validateTimestampFilter(x, r.ops)
    BY <1>10, Zenon DEF ValueOk
  <2>2. validateTimestampFilter(y, pre.ops)
    BY <2>1, <1>0, <1>b DEF validateTimestampFilter
  <2> QED BY <1>10, <2>2, Zenon DEF ValueOk, y
<1>11. CASE r.by = "javaTimestamp" /\ pre.by = "javaTimestamp"
  <2>1. validateJavaTimestampFilter(x)
    BY <1>11, Zenon DEF ValueOk
  <2>2. validateJavaTimestampFilter(y)
    BY <2>1, <1>0, <1>b DEF validateJavaTimestampFilter
  <2> QED BY <1>11, <2>2, Zenon DEF ValueOk, y
<1> QED BY <1>1, <1>2, <1>3, <1>4, <1>5, <1>6, <1>7, <1>8, <1>9, <1>10, <1>11 DEF Bares

\* The comparator methods of a field are enough for a rule: what the rule accepts as one
\* string, a method accepts as a bare value.
Offers(fluent, pre, r) ==
  /\ r.nullable = FALSE
  /\ \A x \in Filter : x.op \in AllOps /\ ~x.caps /\ ValueOk(x, r)
                         => x.op \in fluent /\ ValueOk([x EXCEPT !.op = ""], pre)

LEMMA OfferedMethods ==
  ASSUME NEW fluent, NEW pre, NEW r, Bares(r, pre), r.nullable = FALSE,
         \/ r.by \in Prefixed /\ r.ops \subseteq fluent
         \/ r.by \in {"key", "slot", "javaTimestamp"} /\ fluent = NoNeOps
         \/ r.by = "hash" /\ fluent = EqualOps
  PROVE  Offers(fluent, pre, r)
BY Comparators, BareValues DEF Offers

\* Every pair of comparator methods and rule that the endpoints put together is enough.
LEMMA OfferedRules ==
  /\ Offers(AllOps, Rule("any"), Rule("entityOrEvm"))
  /\ Offers(AllOps, Rule("any"), Decimals(0, MaxLong))
  /\ Offers(AllOps, Rule("any"), Decimals(1, MaxLong))
  /\ Offers(AllOps, Rule("account"), Rule("account"))
  /\ Offers(AllOps, OfOps(Rule("token"), {}), Rule("token"))
  /\ Offers(AllOps, OfOps(Rule("entityOrEvm"), {}), Rule("entityOrEvm"))
  /\ Offers(AllOps, Rule("entityOrEvm"), Rule("entityOrEvm"))
  /\ Offers(AllOps, Rule("contract"), Rule("contract"))
  /\ Offers(AllOps, Rule("from"), Rule("from"))
  /\ Offers(NoNeOps, OfOps(JavaLong(0), NoNeOps), Times(OfOps(JavaLong(0), NoNeOps), Most))
  /\ Offers(NoNeOps, Rule("any"), Rule("key"))
  /\ Offers(NoNeOps, Rule("any"), Rule("slot"))
  /\ Offers(NoNeOps, JavaTimes, JavaTimes)
  /\ Offers(NoNeOps, Rule("any"), OfOps(Rule("entityOrEvm"), NoNeOps))
  /\ Offers(NoNeOps, Rule("any"), Structured(OfOps(Rule("entityOrEvm"), NoNeOps)))
  /\ Offers(NoNeOps, Rule("any"), Bounded(OfOps(Rule("entityOrEvm"), NoNeOps)))
  /\ Offers(NoNeOps, Rule("any"), OfOps(Rule("token"), NoNeOps))
  /\ Offers(NoNeOps, Rule("any"), Structured(OfOps(Rule("token"), NoNeOps)))
  /\ Offers(NoNeOps, Rule("any"), Primary(Ordered(Structured(OfOps(EntityRange, NoNeOps)))))
  /\ Offers(NoNeOps, Rule("any"), Primary(Ordered(OfOps(EntityRange, NoNeOps))))
  /\ Offers(NoNeOps, Rule("any"), Structured(OfOps(EntityRange, NoNeOps)))
  /\ Offers(NoNeOps, Rule("any"), OfOps(EntityRange, NoNeOps))
  /\ Offers(NoNeOps, Rule("any"), Structured(OfOps(Decimals(1, MaxLong), NoNeOps)))
  /\ Offers(NoNeOps, OfOps(JavaLong(0), NoNeOps), OfOps(JavaLong(0), NoNeOps))
  /\ Offers(NoNeOps, OfOps(Rule("block"), NoNeOps), OfOps(Rule("block"), NoNeOps))
  /\ Offers(NoNeOps, Exactly(1, MaxLong), OfOps(Decimals(1, MaxLong), NoNeOps))
  /\ Offers(NoNeOps, NodeId, Times(RangedNode, Most))
  /\ Offers(NoNeOps, NodeId, [RangedNode EXCEPT !.alone = TRUE])
  /\ Offers(NoNeOps, OfOps(Rule("timestamp"), {}), Structured(OfOps(Rule("timestamp"), NoNeOps)))
  /\ Offers(NoNeOps, Rule("any"), LogIndex)
  /\ Offers(NoNeOps, Rule("any"), OfOps(Decimals(0, MaxInt32), NoNeOps))
  /\ Offers(EqualOps, Rule("any"),
            Times(OfOps(Rule("entityRange"), EqualOps), 1))
  /\ Offers(EqualOps, Rule("any"), Rule("hash"))
  /\ Offers(EqualOps, Rule("any"), Times(Rule("hash"), 1))
  /\ Offers(EqualOps, Rule("any"), OfOps(Rule("block"), EqualOps))
  /\ \A ops : Offers(ops, Rule("any"), OfOps(Rule("timestamp"), ops))
<1>1. Offers(AllOps, Rule("any"), Rule("entityOrEvm"))
  BY OfferedMethods DEF Bares, Prefixed, Rule
<1>2. Offers(AllOps, Rule("any"), Decimals(0, MaxLong))
  BY OfferedMethods DEF Bares, Prefixed, Decimals, Rule
<1>3. Offers(AllOps, Rule("any"), Decimals(1, MaxLong))
  BY OfferedMethods DEF Bares, Prefixed, Decimals, Rule
<1>4. Offers(AllOps, Rule("account"), Rule("account"))
  BY OfferedMethods DEF Bares, Prefixed, Rule
<1>5. Offers(AllOps, OfOps(Rule("token"), {}), Rule("token"))
  BY OfferedMethods DEF Bares, Prefixed, OfOps, Rule
<1>6. Offers(AllOps, OfOps(Rule("entityOrEvm"), {}), Rule("entityOrEvm"))
  BY OfferedMethods DEF Bares, Prefixed, OfOps, Rule
<1>7. Offers(AllOps, Rule("entityOrEvm"), Rule("entityOrEvm"))
  BY OfferedMethods DEF Bares, Prefixed, Rule
<1>8. Offers(AllOps, Rule("contract"), Rule("contract"))
  BY OfferedMethods DEF Bares, Prefixed, Rule
<1>9. Offers(AllOps, Rule("from"), Rule("from"))
  BY OfferedMethods DEF Bares, Prefixed, Rule
<1>10. Offers(NoNeOps, OfOps(JavaLong(0), NoNeOps), Times(OfOps(JavaLong(0), NoNeOps), Most))
  BY OfferedMethods DEF Bares, Prefixed, JavaLong, OfOps, Rule, Times
<1>11. Offers(NoNeOps, Rule("any"), Rule("key"))
  BY OfferedMethods DEF Bares, Prefixed, Rule
<1>12. Offers(NoNeOps, Rule("any"), Rule("slot"))
  BY OfferedMethods DEF Bares, Prefixed, Rule
<1>13. Offers(NoNeOps, JavaTimes, JavaTimes)
  BY OfferedMethods DEF Bares, Prefixed, JavaTimes, Rule
<1>14. Offers(NoNeOps, Rule("any"), OfOps(Rule("entityOrEvm"), NoNeOps))
  BY OfferedMethods DEF Bares, Prefixed, OfOps, Rule
<1>15. Offers(NoNeOps, Rule("any"), Structured(OfOps(Rule("entityOrEvm"), NoNeOps)))
  BY OfferedMethods DEF Bares, Prefixed, OfOps, Rule, Structured
<1>16. Offers(NoNeOps, Rule("any"), Bounded(OfOps(Rule("entityOrEvm"), NoNeOps)))
  BY OfferedMethods DEF Bares, Prefixed, Bounded, OfOps, Rule
<1>17. Offers(NoNeOps, Rule("any"), OfOps(Rule("token"), NoNeOps))
  BY OfferedMethods DEF Bares, Prefixed, OfOps, Rule
<1>18. Offers(NoNeOps, Rule("any"), Structured(OfOps(Rule("token"), NoNeOps)))
  BY OfferedMethods DEF Bares, Prefixed, OfOps, Rule, Structured
<1>19. Offers(NoNeOps, Rule("any"), Primary(Ordered(Structured(OfOps(EntityRange, NoNeOps)))))
  BY OfferedMethods DEF Bares, Prefixed, EntityRange, OfOps, Ordered, Primary, Rule, Structured
<1>20. Offers(NoNeOps, Rule("any"), Primary(Ordered(OfOps(EntityRange, NoNeOps))))
  BY OfferedMethods DEF Bares, Prefixed, EntityRange, OfOps, Ordered, Primary, Rule
<1>21. Offers(NoNeOps, Rule("any"), Structured(OfOps(EntityRange, NoNeOps)))
  BY OfferedMethods DEF Bares, Prefixed, EntityRange, OfOps, Rule, Structured
<1>22. Offers(NoNeOps, Rule("any"), OfOps(EntityRange, NoNeOps))
  BY OfferedMethods DEF Bares, Prefixed, EntityRange, OfOps, Rule
<1>23. Offers(NoNeOps, Rule("any"), Structured(OfOps(Decimals(1, MaxLong), NoNeOps)))
  BY OfferedMethods DEF Bares, Prefixed, Decimals, OfOps, Rule, Structured
<1>24. Offers(NoNeOps, OfOps(JavaLong(0), NoNeOps), OfOps(JavaLong(0), NoNeOps))
  BY OfferedMethods DEF Bares, Prefixed, JavaLong, OfOps, Rule
<1>25. Offers(NoNeOps, OfOps(Rule("block"), NoNeOps), OfOps(Rule("block"), NoNeOps))
  BY OfferedMethods DEF Bares, Prefixed, OfOps, Rule
<1>26. Offers(NoNeOps, Exactly(1, MaxLong), OfOps(Decimals(1, MaxLong), NoNeOps))
  BY OfferedMethods DEF Bares, Prefixed, Decimals, Exactly, OfOps, Rule
<1>27. Offers(NoNeOps, NodeId, Times(RangedNode, Most))
  BY OfferedMethods DEF Bares, Prefixed, JavaLong, NodeId, OfOps, RangedNode, Rule, Times
<1>28. Offers(NoNeOps, NodeId, [RangedNode EXCEPT !.alone = TRUE])
  BY OfferedMethods DEF Bares, Prefixed, JavaLong, NodeId, OfOps, RangedNode, Rule
<1>29. Offers(NoNeOps, OfOps(Rule("timestamp"), {}), Structured(OfOps(Rule("timestamp"), NoNeOps)))
  BY OfferedMethods DEF Bares, Prefixed, OfOps, Rule, Structured
<1>30. Offers(NoNeOps, Rule("any"), LogIndex)
  BY OfferedMethods DEF Bares, Prefixed, Decimals, LogIndex, OfOps, Rule, Structured
<1>31. Offers(NoNeOps, Rule("any"), OfOps(Decimals(0, MaxInt32), NoNeOps))
  BY OfferedMethods DEF Bares, Prefixed, Decimals, OfOps, Rule
<1>32. Offers(EqualOps, Rule("any"),
              Times(OfOps(Rule("entityRange"), EqualOps), 1))
  BY OfferedMethods DEF Bares, Prefixed, OfOps, Rule, Times
<1>33. Offers(EqualOps, Rule("any"), Rule("hash"))
  BY OfferedMethods DEF Bares, Prefixed, Rule
<1>34. Offers(EqualOps, Rule("any"), Times(Rule("hash"), 1))
  BY OfferedMethods DEF Bares, Prefixed, Rule, Times
<1>35. Offers(EqualOps, Rule("any"), OfOps(Rule("block"), EqualOps))
  BY OfferedMethods DEF Bares, Prefixed, OfOps, Rule
<1>36. \A ops : Offers(ops, Rule("any"), OfOps(Rule("timestamp"), ops))
  BY OfferedMethods DEF Bares, Prefixed, OfOps, Rule
<1> QED BY <1>1, <1>2, <1>3, <1>4, <1>5, <1>6, <1>7, <1>8, <1>9, <1>10, <1>11, <1>12,
           <1>13, <1>14, <1>15, <1>16, <1>17, <1>18, <1>19, <1>20, <1>21, <1>22, <1>23,
           <1>24, <1>25, <1>26, <1>27, <1>28, <1>29, <1>30, <1>31, <1>32, <1>33, <1>34,
           <1>35, <1>36

------------------------------------------------------------------------------
(***************************************************************************)
(* Agreement.  Every builder requires what its mapper requires, takes what *)
(* its mapper takes and offers enough methods; one that writes the request *)
(* copies its mapper.                                                      *)
(***************************************************************************)
\* A list has no more values with some comparators than it has values.
LEMMA CountIsBounded ==
  ASSUME NEW list \in Seq(Filter), NEW ops
  PROVE  CountOf(list, ops) \in Nat /\ CountOf(list, ops) <= Len(list)
<1>1. Len(list) \in Nat /\ DOMAIN list = 1 .. Len(list)
  OBVIOUS
<1>2. IsFiniteSet(1 .. Len(list)) /\ Cardinality(1 .. Len(list)) = Len(list)
  BY <1>1, FS_Interval
<1>3. {i \in DOMAIN list : Operator(list[i]) \in ops} \subseteq 1 .. Len(list)
  BY <1>1
<1> QED BY <1>1, <1>2, <1>3, FS_Subset, FS_CardinalityType DEF CountOf

\* One rule takes every list that another one takes.
Covers(b, r) == \A list \in Seq(Filter) : Accepts(list, r) => Accepts(list, b)

\* A comparator more than one is refused by the mapper, and by the builder when it is built.
LEMMA LooseTimes ==
  Covers(OfOps(Rule("timestamp"), NoNeOps), Structured(OfOps(Rule("timestamp"), NoNeOps)))
<1> DEFINE b == OfOps(Rule("timestamp"), NoNeOps)
           r == Structured(b)
<1>1. /\ b.by = "timestamp" /\ b.ops = NoNeOps /\ b.most = Most /\ b.alone = FALSE
      /\ b.lowers = Most /\ b.uppers = Most /\ b.ordered = FALSE /\ b.nullable = FALSE
  BY DEF OfOps, Rule
<1>2. /\ r.by = "timestamp" /\ r.ops = NoNeOps /\ r.most = Most /\ r.lowers = 1 /\ r.uppers = 1
      /\ r.nullable = FALSE
  BY DEF Structured, OfOps, Rule
<1> HIDE DEF b, r
<1> SUFFICES ASSUME NEW list \in Seq(Filter), Accepts(list, r) PROVE Accepts(list, b)
  BY DEF Covers, b, r
<1>3. \A f : ValueOk(f, r) <=> ValueOk(f, b)
  <2>1. \A f : ValueOk(f, r) <=> validateTimestampFilter(f, NoNeOps)
    BY <1>2, Zenon DEF ValueOk
  <2>2. \A f : ValueOk(f, b) <=> validateTimestampFilter(f, NoNeOps)
    BY <1>1, Zenon DEF ValueOk
  <2> QED BY <2>1, <2>2
<1>4. validateRepeatedValues(list, b)
  BY <1>1, <1>2, <1>3 DEF Accepts, validateRepeatedValues
<1>5. ShapeOk(list, b)
  <2>1. Most \in Nat /\ 1 <= Most
    BY FiltersAssumption
  <2>2. CountOf(list, Lower) \in Nat /\ CountOf(list, Upper) \in Nat
    BY CountIsBounded
  <2> QED BY <1>1, <1>2, <2>1, <2>2 DEF Accepts, ShapeOk
<1> QED BY <1>1, <1>4, <1>5 DEF Accepts

\* What a mapper takes once, a builder that checks nothing takes.
LEMMA AnythingGoes ==
  ASSUME NEW r, r.most = 1
  PROVE  Covers(Rule("any"), r)
<1> DEFINE b == Rule("any")
<1>1. /\ b.by = "any" /\ b.most = Most /\ b.alone = FALSE /\ b.lowers = Most /\ b.uppers = Most
      /\ b.ordered = FALSE /\ b.nullable = FALSE
  BY DEF Rule
<1> HIDE DEF b
<1> SUFFICES ASSUME NEW list \in Seq(Filter), Accepts(list, r) PROVE Accepts(list, b)
  BY DEF Covers, b
<1>2. Most \in Nat /\ 1 <= Most
  BY FiltersAssumption
<1>3. Len(list) = 1
  BY DEF Accepts, validateRepeatedValues
<1>4. \A f : ValueOk(f, b)
  BY <1>1, Zenon DEF ValueOk
<1>5. validateRepeatedValues(list, b)
  BY <1>1, <1>2, <1>3, <1>4 DEF validateRepeatedValues
<1>6. \A ops : CountOf(list, ops) <= Most
  <2>1. \A ops : CountOf(list, ops) \in Nat /\ CountOf(list, ops) <= Len(list)
    BY CountIsBounded
  <2> QED BY <1>2, <1>3, <2>1
<1>7. ShapeOk(list, b)
  BY <1>1, <1>6 DEF Accepts, ShapeOk
<1> QED BY <1>1, <1>5, <1>7 DEF Accepts

\* The options of a contract call: its builder checks nothing of them, its mapper does.
LEMMA CallOptions ==
  /\ Covers(Rule("any"), Nullable(Choice(HexLengths)))
  /\ Covers(Rule("any"), Nullable(Choice({0, 1})))
  /\ Covers(Rule("any"), Nullable(Exactly(0, MaxLong)))
<1>1. ASSUME NEW words PROVE Covers(Rule("any"), Nullable(Choice(words)))
  <2>1. Nullable(Choice(words)).most = 1
    BY DEF Nullable, Choice, Word, Rule
  <2> QED BY <2>1, AnythingGoes
<1>2. Covers(Rule("any"), Nullable(Exactly(0, MaxLong)))
  <2>1. Nullable(Exactly(0, MaxLong)).most = 1
    BY DEF Nullable, Exactly, Decimals, Rule
  <2> QED BY <2>1, AnythingGoes
<1> QED BY <1>1, <1>2

\* The ranges of nodes are spelled in two ways.
LEMMA NodeRanges ==
  /\ Ordered(Times(NodeId, Most)) = Times(RangedNode, Most)
  /\ Ordered([NodeId EXCEPT !.alone = TRUE]) = [RangedNode EXCEPT !.alone = TRUE]
<1>1. Ordered(Times(NodeId, Most)) = Times(RangedNode, Most)
  BY DEF Ordered, Times, NodeId, RangedNode, OfOps, JavaLong, Rule
<1>2. Ordered([NodeId EXCEPT !.alone = TRUE]) = [RangedNode EXCEPT !.alone = TRUE]
  BY DEF Ordered, NodeId, RangedNode, OfOps, JavaLong, Rule
<1> QED BY <1>1, <1>2

\* An entry set once that also has comparator methods for equality.
LEMMA EqualityMethods ==
  \A r : Holds([Set(r) EXCEPT !.fluent = EqualOps], r, "mapped", EqualOps, Rule("any"),
               FALSE, FALSE)
BY EntryShapes DEF Holds, IsEntry

\* What the entry of a builder owes to the field of its mapper.
Agrees(b, m) ==
  /\ b.required <=> m.required
  /\ b.rule = m.rule \/ Covers(b.rule, m.rule)
  /\ b.fluent = {} \/ Offers(b.fluent, b.pre, m.rule)
Agreeing(builder, mapper) == \A f \in DOMAIN mapper : Agrees(builder[f], mapper[f])

\* And where it writes the request itself.
Copies(b, m) == b.rule = m.rule /\ b.as = m.as /\ (b.keyed <=> m.key # "none")
Copying(builder, mapper) == \A f \in DOMAIN mapper : Copies(builder[f], mapper[f])

\* Every builder agrees with its mapper, field by field.
LEMMA Agreement ==
  ASSUME NEW e \in Endpoints
  PROVE  Agreeing(Builder[e], Mapper[e])
<1>1. CASE e = "accounts_list"
  <2>1. Agreeing(AccountsListQueryDSL, Accounts_list)
    BY FieldShapes, EntryShapes, OfferedRules
       DEF Agreeing, Agrees, Has, Holds, AccountsListQueryDSL, Accounts_list
  <2> QED BY <1>1, <2>1 DEF Builder, Mapper
<1>2. CASE e = "accounts_one"
  <2>1. Agreeing(AccountOneQueryDSL, Accounts_one)
    BY FieldShapes, EntryShapes, FieldOptions, EntryOptions, OfferedRules
       DEF Agreeing, Agrees, Has, Holds, AccountOneQueryDSL, Accounts_one
  <2> QED BY <1>2, <2>1 DEF Builder, Mapper
<1>3. CASE e = "accounts_hooks"
  <2>1. Agreeing(AccountHooksDSL, Accounts_hooks)
    BY FieldShapes, EntryShapes, EntryOptions, OfferedRules
       DEF Agreeing, Agrees, Has, Holds, AccountHooksDSL, Accounts_hooks
  <2> QED BY <1>3, <2>1 DEF Builder, Mapper
<1>4. CASE e = "accounts_hookStorage"
  <2>1. Agreeing(AccountHookStorageDSL, Accounts_hookStorage)
    BY FieldShapes, EntryShapes, EntryOptions, OfferedRules
       DEF Agreeing, Agrees, Has, Holds, AccountHookStorageDSL, Accounts_hookStorage
  <2> QED BY <1>4, <2>1 DEF Builder, Mapper
<1>5. CASE e = "accounts_cryptoAllowances"
  <2>1. Agreeing(AccountCryptoAllowancesDSL, Accounts_cryptoAllowances)
    BY FieldShapes, EntryShapes, OfferedRules
       DEF Agreeing, Agrees, Has, Holds, AccountCryptoAllowancesDSL, Accounts_cryptoAllowances
  <2> QED BY <1>5, <2>1 DEF Builder, Mapper
<1>6. CASE e = "accounts_tokenAllowances"
  <2>1. Agreeing(AccountTokenAllowancesDSL, Accounts_tokenAllowances)
    BY FieldShapes, EntryShapes, OfferedRules
       DEF Agreeing, Agrees, Has, Holds, AccountTokenAllowancesDSL, Accounts_tokenAllowances
  <2> QED BY <1>6, <2>1 DEF Builder, Mapper
<1>7. CASE e = "accounts_nftAllowances"
  <2>1. Agreeing(AccountNftAllowancesDSL, Accounts_nftAllowances)
    BY FieldShapes, EntryShapes, OfferedRules
       DEF Agreeing, Agrees, Has, Holds, AccountNftAllowancesDSL, Accounts_nftAllowances
  <2> QED BY <1>7, <2>1 DEF Builder, Mapper
<1>8. CASE e = "accounts_tokens"
  <2>1. Agreeing(AccountTokensDSL, Accounts_accountTokens)
    BY FieldShapes, EntryShapes, OfferedRules
       DEF Agreeing, Agrees, Has, Holds, AccountTokensDSL, Accounts_accountTokens
  <2> QED BY <1>8, <2>1 DEF Builder, Mapper
<1>9. CASE e = "accounts_nfts"
  <2>1. Agreeing(AccountNftsOwnedDSL, Accounts_accountNftsOwned)
    BY FieldShapes, EntryShapes, OfferedRules
       DEF Agreeing, Agrees, Has, Holds, AccountNftsOwnedDSL, Accounts_accountNftsOwned
  <2> QED BY <1>9, <2>1 DEF Builder, Mapper
<1>10. CASE e = "accounts_rewards"
  <2>1. Agreeing(AccountRewardsDSL, Accounts_rewards)
    BY FieldShapes, EntryShapes, OfferedRules
       DEF Agreeing, Agrees, Has, Holds, AccountRewardsDSL, Accounts_rewards
  <2> QED BY <1>10, <2>1 DEF Builder, Mapper
<1>11. CASE e = "accounts_outstandingAirdrops"
  <2>1. Agreeing(AccountOutstandingAirdropsDSL, Accounts_outstandingAirdrops)
    BY FieldShapes, EntryShapes, EntryOptions, OfferedRules
       DEF Agreeing, Agrees, Has, Holds, AccountOutstandingAirdropsDSL,
           Accounts_outstandingAirdrops
  <2> QED BY <1>11, <2>1 DEF Builder, Mapper
<1>12. CASE e = "accounts_pendingAirdrops"
  <2>1. Agreeing(AccountPendingAirdropsDSL, Accounts_pendingAirdrops)
    BY FieldShapes, EntryShapes, EntryOptions, OfferedRules
       DEF Agreeing, Agrees, Has, Holds, AccountPendingAirdropsDSL, Accounts_pendingAirdrops
  <2> QED BY <1>12, <2>1 DEF Builder, Mapper
<1>13. CASE e = "balances_list"
  <2>1. Agreeing(BalancesListQueryBuilder, Balances_list)
    BY FieldShapes, EntryShapes, EntryOptions, OfferedRules
       DEF Agreeing, Agrees, Has, Holds, BalancesListQueryBuilder, Balances_list
  <2> QED BY <1>13, <2>1 DEF Builder, Mapper
<1>14. CASE e = "blocks_list"
  <2>1. Agreeing(BlocksListQueryBuilder, Blocks_list)
    BY FieldShapes, EntryShapes, EntryOptions, OfferedRules
       DEF Agreeing, Agrees, Has, Holds, BlocksListQueryBuilder, Blocks_list
  <2> QED BY <1>14, <2>1 DEF Builder, Mapper
<1>15. CASE e = "blocks_one"
  <2>1. Agreeing(BlocksOneQueryBuilder, Blocks_one)
    BY FieldShapes, EntryShapes
       DEF Agreeing, Agrees, Has, Holds, BlocksOneQueryBuilder, Blocks_one
  <2> QED BY <1>15, <2>1 DEF Builder, Mapper
<1>16. CASE e = "topics_one"
  <2>1. Agreeing(TopicOneQueryBuilder, Topics_topicOne)
    BY FieldShapes, EntryShapes
       DEF Agreeing, Agrees, Has, Holds, TopicOneQueryBuilder, Topics_topicOne
  <2> QED BY <1>16, <2>1 DEF Builder, Mapper
<1>17. CASE e = "topics_messages"
  <2>1. Agreeing(TopicMessagesListQueryBuilder, Topics_messagesList)
    BY FieldShapes, EntryShapes, EntryOptions, OfferedRules
       DEF Agreeing, Agrees, Has, Holds, TopicMessagesListQueryBuilder, Topics_messagesList
  <2> QED BY <1>17, <2>1 DEF Builder, Mapper
<1>18. CASE e = "topics_bySequence"
  <2>1. Agreeing(TopicMessageBySequenceQueryBuilder, Topics_messageBySequence)
    BY FieldShapes, EntryShapes
       DEF Agreeing, Agrees, Has, Holds, TopicMessageBySequenceQueryBuilder,
           Topics_messageBySequence
  <2> QED BY <1>18, <2>1 DEF Builder, Mapper
<1>19. CASE e = "topics_byTimestamp"
  <2>1. Agreeing(TopicMessageByTimestampQueryBuilder, Topics_messageByTimestamp)
    BY FieldShapes, EntryShapes
       DEF Agreeing, Agrees, Has, Holds, TopicMessageByTimestampQueryBuilder,
           Topics_messageByTimestamp
  <2> QED BY <1>19, <2>1 DEF Builder, Mapper
<1>20. CASE e = "tokens_list"
  <2>1. Agreeing(TokensListQueryBuilder, Tokens_list)
    BY FieldShapes, EntryShapes, EntryOptions, OfferedRules
       DEF Agreeing, Agrees, Has, Holds, TokensListQueryBuilder, Tokens_list
  <2> QED BY <1>20, <2>1 DEF Builder, Mapper
<1>21. CASE e = "tokens_one"
  <2>1. Agreeing(TokenOneQueryBuilder, Tokens_one)
    BY FieldShapes, EntryShapes, FieldOptions, OfferedRules
       DEF Agreeing, Agrees, Has, Holds, TokenOneQueryBuilder, Tokens_one
  <2> QED BY <1>21, <2>1 DEF Builder, Mapper
<1>22. CASE e = "tokens_balances"
  <2>1. Agreeing(TokenBalancesQueryBuilder, Tokens_balances)
    BY FieldShapes, EntryShapes, EntryOptions, OfferedRules
       DEF Agreeing, Agrees, Has, Holds, TokenBalancesQueryBuilder, Tokens_balances
  <2> QED BY <1>22, <2>1 DEF Builder, Mapper
<1>23. CASE e = "tokens_nfts"
  <2>1. Agreeing(TokenNftsListQueryBuilder, Tokens_nftsList)
    BY FieldShapes, EntryShapes, EntryOptions, OfferedRules
       DEF Agreeing, Agrees, Has, Holds, TokenNftsListQueryBuilder, Tokens_nftsList
  <2> QED BY <1>23, <2>1 DEF Builder, Mapper
<1>24. CASE e = "tokens_nft"
  <2>1. Agreeing(TokenNftOneQueryBuilder, Tokens_nftOne)
    BY FieldShapes, EntryShapes
       DEF Agreeing, Agrees, Has, Holds, TokenNftOneQueryBuilder, Tokens_nftOne
  <2> QED BY <1>24, <2>1 DEF Builder, Mapper
<1>25. CASE e = "tokens_nftTransactions"
  <2>1. Agreeing(TokenNftTransactionsQueryBuilder, Tokens_nftTx)
    BY FieldShapes, EntryShapes, OfferedRules
       DEF Agreeing, Agrees, Has, Holds, TokenNftTransactionsQueryBuilder, Tokens_nftTx
  <2> QED BY <1>25, <2>1 DEF Builder, Mapper
<1>26. CASE e = "network_supply"
  <2>1. Agreeing(NetworkSupplyQueryBuilder, Network_supply)
    <3> DEFINE m == [Keyed(Field(Choice({0, 1}), "q"), "folded") EXCEPT !.reads = "folded"]
    <3>1. Has(m, Choice({0, 1}), "q", FALSE, "folded")
      <4>1. Has(Keyed(Field(Choice({0, 1}), "q"), "folded"), Choice({0, 1}), "q", FALSE, "folded")
        BY FieldShapes, FieldOptions DEF Has
      <4> QED BY <4>1 DEF Has, IsField
    <3> HIDE DEF m
    <3>2. Agrees(Set(Choice({0, 1})), m)
      BY <3>1, EntryShapes DEF Agrees, Has, Holds
    <3>3. Agrees(JavaInstants, KeyedTimes)
      BY FieldShapes, EntryShapes, OfferedRules DEF Agrees, Has, Holds
    <3> QED BY <3>2, <3>3 DEF Agreeing, NetworkSupplyQueryBuilder, Network_supply, m
  <2> QED BY <1>26, <2>1 DEF Builder, Mapper
<1>27. CASE e = "network_fees"
  <2>1. Agreeing(NetworkFeesQueryBuilder, Network_fees)
    BY FieldShapes, EntryShapes, OfferedRules
       DEF Agreeing, Agrees, Has, Holds, NetworkFeesQueryBuilder, Network_fees
  <2> QED BY <1>27, <2>1 DEF Builder, Mapper
<1>28. CASE e = "network_estimateFees"
  <2>1. Agreeing(NetworkFeeEstimateRequestBuilder, Network_estimateFees)
    <3>1. Has(Required(Field(Word({0}), "body")), Word({0}), "body", TRUE, "none")
      BY FieldShapes, FieldOptions DEF Has
    <3>2. Holds(Needed(Set(Word({0}))), Word({0}), "mapped", {}, Rule("any"), TRUE, FALSE)
      BY EntryShapes, EntryOptions DEF Holds
    <3>3. Agrees(Needed(Set(Word({0}))), Required(Field(Word({0}), "body")))
      BY <3>1, <3>2 DEF Agrees, Has, Holds
    <3>4. \A r, p : Agrees(Set(r), Field(r, p))
      BY FieldShapes, EntryShapes DEF Agrees, Has, Holds
    <3> QED BY <3>3, <3>4 DEF Agreeing, NetworkFeeEstimateRequestBuilder, Network_estimateFees
  <2> QED BY <1>28, <2>1 DEF Builder, Mapper
<1>29. CASE e = "network_exchangeRate"
  <2>1. Agreeing(NetworkExchangeRateQueryBuilder, Network_exchangeRate)
    BY FieldShapes, EntryShapes, OfferedRules
       DEF Agreeing, Agrees, Has, Holds, NetworkExchangeRateQueryBuilder, Network_exchangeRate
  <2> QED BY <1>29, <2>1 DEF Builder, Mapper
<1>30. CASE e = "network_nodes"
  <2>1. Agreeing(NetworkNodesQueryBuilder, Network_nodes)
    <3>1. Agrees(NetworkNodesQueryBuilder.fileId, Network_nodes.fileId)
      <4> DEFINE r == Times(OfOps(Rule("entityRange"), EqualOps), 1)
      <4>1. Offers(EqualOps, Rule("any"), r)
        BY OfferedRules
      <4> HIDE DEF r
      <4>2. Agrees([Set(r) EXCEPT !.fluent = EqualOps], Field(r, "file.id"))
        BY <4>1, EqualityMethods, FieldShapes DEF Agrees, Has, Holds
      <4> QED BY <4>2 DEF NetworkNodesQueryBuilder, Network_nodes, r
    <3>2. Agrees(NetworkNodesQueryBuilder.nodeId, Network_nodes.nodeId)
      <4> DEFINE r == Times(RangedNode, Most)
      <4>1. Offers(NoNeOps, NodeId, r)
        BY OfferedRules
      <4>2. Ordered(Times(NodeId, Most)) = r
        BY NodeRanges
      <4> HIDE DEF r
      <4>3. Agrees(Bare(Add(r, NoNeOps), NodeId), Field(r, "node.id"))
        BY <4>1, EntryShapes, EntryOptions, FieldShapes DEF Agrees, Has, Holds
      <4> QED BY <4>2, <4>3 DEF NetworkNodesQueryBuilder, Network_nodes, r
    <3>3. Agrees(Sorting, Sorted)
      BY FieldShapes, EntryShapes DEF Agrees, Has, Holds
    <3> QED BY <3>1, <3>2, <3>3 DEF Agreeing, NetworkNodesQueryBuilder, Network_nodes
  <2> QED BY <1>30, <2>1 DEF Builder, Mapper
<1>31. CASE e = "network_registeredNodes"
  <2>1. Agreeing(NetworkRegisteredNodesQueryBuilder, Network_registeredNodes)
    <3>1. Agrees(NetworkRegisteredNodesQueryBuilder.registeredNodeId,
                 Network_registeredNodes.registeredNodeId)
      <4> DEFINE r == [RangedNode EXCEPT !.alone = TRUE]
      <4>1. Offers(NoNeOps, NodeId, r)
        BY OfferedRules
      <4>2. Ordered([NodeId EXCEPT !.alone = TRUE]) = r
        BY NodeRanges
      <4> HIDE DEF r
      <4>3. Agrees(Bare(Add(r, NoNeOps), NodeId), Field(r, "registerednode.id"))
        BY <4>1, EntryShapes, EntryOptions, FieldShapes DEF Agrees, Has, Holds
      <4> QED BY <4>2, <4>3 DEF NetworkRegisteredNodesQueryBuilder, Network_registeredNodes, r
    <3>2. Agrees(Sorting, Sorted)
      BY FieldShapes, EntryShapes DEF Agrees, Has, Holds
    <3>3. \A r, p : Agrees(Set(r), Field(r, p))
      BY FieldShapes, EntryShapes DEF Agrees, Has, Holds
    <3> QED BY <3>1, <3>2, <3>3
            DEF Agreeing, NetworkRegisteredNodesQueryBuilder, Network_registeredNodes
  <2> QED BY <1>31, <2>1 DEF Builder, Mapper
<1>32. CASE e = "schedules_list"
  <2>1. Agreeing(SchedulesListQueryBuilder, Schedules_list)
    BY FieldShapes, EntryShapes, EntryOptions, OfferedRules
       DEF Agreeing, Agrees, Has, Holds, SchedulesListQueryBuilder, Schedules_list
  <2> QED BY <1>32, <2>1 DEF Builder, Mapper
<1>33. CASE e = "schedules_one"
  <2>1. Agreeing(SchedulesOneQueryBuilder, Schedules_one)
    BY FieldShapes, EntryShapes
       DEF Agreeing, Agrees, Has, Holds, SchedulesOneQueryBuilder, Schedules_one
  <2> QED BY <1>33, <2>1 DEF Builder, Mapper
<1>34. CASE e = "transactions_list"
  <2>1. Agreeing(TransactionsListQueryBuilder, Transactions_list)
    BY FieldShapes, EntryShapes, EntryOptions, OfferedRules
       DEF Agreeing, Agrees, Has, Holds, TransactionsListQueryBuilder, Transactions_list
  <2> QED BY <1>34, <2>1 DEF Builder, Mapper
<1>35. CASE e = "transactions_byId"
  <2>1. Agreeing(TransactionByIdQueryBuilder, Transactions_byId)
    BY FieldShapes, EntryShapes, FieldOptions, OfferedRules
       DEF Agreeing, Agrees, Has, Holds, TransactionByIdQueryBuilder, Transactions_byId
  <2> QED BY <1>35, <2>1 DEF Builder, Mapper
<1>36. CASE e = "contracts_list"
  <2>1. Agreeing(ContractsListQueryBuilder, Contracts_list)
    BY FieldShapes, EntryShapes, EntryOptions, OfferedRules
       DEF Agreeing, Agrees, Has, Holds, ContractsListQueryBuilder, Contracts_list
  <2> QED BY <1>36, <2>1 DEF Builder, Mapper
<1>37. CASE e = "contracts_one"
  <2>1. Agreeing(ContractOneQueryBuilder, Contracts_one)
    <3> DEFINE m == [Keyed(Timestamps(AllOps), "sorted") EXCEPT !.reads = "set"]
    <3>1. Has(m, OfOps(Rule("timestamp"), AllOps), "timestamp", FALSE, "sorted")
      <4>1. Has(Keyed(Timestamps(AllOps), "sorted"), OfOps(Rule("timestamp"), AllOps), "timestamp",
                FALSE, "sorted")
        BY FieldShapes, FieldOptions DEF Has
      <4> QED BY <4>1 DEF Has, IsField
    <3> HIDE DEF m
    <3>2. Agrees(Instants(AllOps), m)
      BY <3>1, EntryShapes, OfferedRules DEF Agrees, Has, Holds
    <3>3. Agrees(ContractPath, KeyedPath(AContract))
      BY FieldShapes, EntryShapes DEF Agrees, Has, Holds, AContract
    <3> QED BY <3>2, <3>3 DEF Agreeing, ContractOneQueryBuilder, Contracts_one, m
  <2> QED BY <1>37, <2>1 DEF Builder, Mapper
<1>38. CASE e = "contracts_results"
  <2>1. Agreeing(ContractResultsListQueryBuilder, Contracts_resultsList)
    BY FieldShapes, EntryShapes, FieldOptions, EntryOptions, OfferedRules
       DEF Agreeing, Agrees, Has, Holds, ContractResultsListQueryBuilder, Contracts_resultsList
  <2> QED BY <1>38, <2>1 DEF Builder, Mapper
<1>39. CASE e = "contracts_resultsByContract"
  <2>1. Agreeing(ContractResultsByContractQueryBuilder, Contracts_resultsByContract)
    BY FieldShapes, EntryShapes, FieldOptions, EntryOptions, OfferedRules
       DEF Agreeing, Agrees, Has, Holds, ContractResultsByContractQueryBuilder,
           Contracts_resultsByContract, AContract
  <2> QED BY <1>39, <2>1 DEF Builder, Mapper
<1>40. CASE e = "contracts_resultByTimestamp"
  <2>1. Agreeing(ContractResultByTimestampQueryBuilder, Contracts_resultByTimestamp)
    BY FieldShapes, EntryShapes
       DEF Agreeing, Agrees, Has, Holds, ContractResultByTimestampQueryBuilder,
           Contracts_resultByTimestamp, AContract
  <2> QED BY <1>40, <2>1 DEF Builder, Mapper
<1>41. CASE e = "contracts_resultByTransaction"
  <2>1. Agreeing(ContractResultByTransactionQueryBuilder, Contracts_resultByTransaction)
    BY FieldShapes, EntryShapes, FieldOptions, OfferedRules
       DEF Agreeing, Agrees, Has, Holds, ContractResultByTransactionQueryBuilder,
           Contracts_resultByTransaction
  <2> QED BY <1>41, <2>1 DEF Builder, Mapper
<1>42. CASE e = "contracts_logs"
  <2>1. Agreeing(ContractLogsListQueryBuilder, Contracts_logsList)
    <3>1. Agrees(ContractLogsListQueryBuilder.transactionHash, Contracts_logsList.transactionHash)
      <4> DEFINE r == Times(Rule("hash"), 1)
      <4>1. Offers(EqualOps, Rule("any"), r)
        BY OfferedRules
      <4> HIDE DEF r
      <4>2. Agrees([Set(r) EXCEPT !.fluent = EqualOps], Field(r, "transaction.hash"))
        BY <4>1, EqualityMethods, FieldShapes DEF Agrees, Has, Holds
      <4> QED BY <4>2 DEF ContractLogsListQueryBuilder, Contracts_logsList, r
    <3>2. Agrees(ContractLogsListQueryBuilder.timestamp, Contracts_logsList.timestamp)
      BY FieldShapes, EntryShapes, EntryOptions, OfferedRules, LooseTimes
         DEF Agrees, Has, Holds, ContractLogsListQueryBuilder, Contracts_logsList
    <3>3. Agrees(ContractLogsListQueryBuilder.index, Contracts_logsList.index)
      BY FieldShapes, EntryShapes, OfferedRules
         DEF Agrees, Has, Holds, ContractLogsListQueryBuilder, Contracts_logsList
    <3>4. \A r, p : Agrees(Add(r, {}), Field(r, p))
      BY FieldShapes, EntryShapes DEF Agrees, Has, Holds
    <3>5. Agrees(Sorting, Sorted)
      BY FieldShapes, EntryShapes DEF Agrees, Has, Holds
    <3> QED BY <3>1, <3>2, <3>3, <3>4, <3>5
            DEF Agreeing, ContractLogsListQueryBuilder, Contracts_logsList
  <2> QED BY <1>42, <2>1 DEF Builder, Mapper
<1>43. CASE e = "contracts_logsByContract"
  <2>1. Agreeing(ContractLogsByContractQueryBuilder, Contracts_logsByContract)
    BY FieldShapes, EntryShapes, EntryOptions, OfferedRules, LooseTimes
       DEF Agreeing, Agrees, Has, Holds, ContractLogsByContractQueryBuilder,
           Contracts_logsByContract, AContract
  <2> QED BY <1>43, <2>1 DEF Builder, Mapper
<1>44. CASE e = "contracts_state"
  <2>1. Agreeing(ContractStateQueryBuilder, Contracts_stateQuery)
    BY FieldShapes, EntryShapes, OfferedRules
       DEF Agreeing, Agrees, Has, Holds, ContractStateQueryBuilder, Contracts_stateQuery,
           AContract
  <2> QED BY <1>44, <2>1 DEF Builder, Mapper
<1>45. CASE e = "contracts_call"
  <2>1. Agreeing(ContractCallRequestBuilder, Contracts_callQuery)
    BY FieldShapes, EntryShapes, FieldOptions, CallOptions
       DEF Agreeing, Agrees, Has, Holds, ContractCallRequestBuilder, Contracts_callQuery
  <2> QED BY <1>45, <2>1 DEF Builder, Mapper
<1>46. CASE e = "contracts_actions"
  <2>1. Agreeing(ContractActionsQueryBuilder, Contracts_actionsByResult)
    BY FieldShapes, EntryShapes, OfferedRules
       DEF Agreeing, Agrees, Has, Holds, ContractActionsQueryBuilder, Contracts_actionsByResult
  <2> QED BY <1>46, <2>1 DEF Builder, Mapper
<1>47. CASE e = "contracts_opcodes"
  <2>1. Agreeing(ContractOpcodesQueryBuilder, Contracts_opcodes)
    BY FieldShapes, EntryShapes
       DEF Agreeing, Agrees, Has, Holds, ContractOpcodesQueryBuilder, Contracts_opcodes
  <2> QED BY <1>47, <2>1 DEF Builder, Mapper
<1> QED BY <1>1, <1>2, <1>3, <1>4, <1>5, <1>6, <1>7, <1>8, <1>9, <1>10, <1>11, <1>12,
           <1>13, <1>14, <1>15, <1>16, <1>17, <1>18, <1>19, <1>20, <1>21, <1>22, <1>23,
           <1>24, <1>25, <1>26, <1>27, <1>28, <1>29, <1>30, <1>31, <1>32, <1>33, <1>34,
           <1>35, <1>36, <1>37, <1>38, <1>39, <1>40, <1>41, <1>42, <1>43, <1>44, <1>45,
           <1>46, <1>47
        DEF Endpoints, Builder

\* A build that writes the request copies its mapper.
LEMMA Copied ==
  ASSUME NEW e \in Direct
  PROVE  Copying(Builder[e], Mapper[e])
<1>1. CASE e = "accounts_list"
  <2>1. Copying(AccountsListQueryDSL, Accounts_list)
    BY FieldShapes, EntryShapes
       DEF Copying, Copies, Has, Holds, AccountsListQueryDSL, Accounts_list
  <2> QED BY <1>1, <2>1 DEF Builder, Mapper
<1>2. CASE e = "accounts_one"
  <2>1. Copying(AccountOneQueryDSL, Accounts_one)
    BY FieldShapes, EntryShapes, FieldOptions, EntryOptions
       DEF Copying, Copies, Has, Holds, AccountOneQueryDSL, Accounts_one
  <2> QED BY <1>2, <2>1 DEF Builder, Mapper
<1>3. CASE e = "accounts_hooks"
  <2>1. Copying(AccountHooksDSL, Accounts_hooks)
    BY FieldShapes, EntryShapes, EntryOptions
       DEF Copying, Copies, Has, Holds, AccountHooksDSL, Accounts_hooks
  <2> QED BY <1>3, <2>1 DEF Builder, Mapper
<1>4. CASE e = "accounts_hookStorage"
  <2>1. Copying(AccountHookStorageDSL, Accounts_hookStorage)
    BY FieldShapes, EntryShapes, EntryOptions
       DEF Copying, Copies, Has, Holds, AccountHookStorageDSL, Accounts_hookStorage
  <2> QED BY <1>4, <2>1 DEF Builder, Mapper
<1>5. CASE e = "accounts_cryptoAllowances"
  <2>1. Copying(AccountCryptoAllowancesDSL, Accounts_cryptoAllowances)
    BY FieldShapes, EntryShapes
       DEF Copying, Copies, Has, Holds, AccountCryptoAllowancesDSL, Accounts_cryptoAllowances
  <2> QED BY <1>5, <2>1 DEF Builder, Mapper
<1>6. CASE e = "accounts_tokenAllowances"
  <2>1. Copying(AccountTokenAllowancesDSL, Accounts_tokenAllowances)
    BY FieldShapes, EntryShapes
       DEF Copying, Copies, Has, Holds, AccountTokenAllowancesDSL, Accounts_tokenAllowances
  <2> QED BY <1>6, <2>1 DEF Builder, Mapper
<1>7. CASE e = "accounts_nftAllowances"
  <2>1. Copying(AccountNftAllowancesDSL, Accounts_nftAllowances)
    BY FieldShapes, EntryShapes
       DEF Copying, Copies, Has, Holds, AccountNftAllowancesDSL, Accounts_nftAllowances
  <2> QED BY <1>7, <2>1 DEF Builder, Mapper
<1>8. CASE e = "accounts_tokens"
  <2>1. Copying(AccountTokensDSL, Accounts_accountTokens)
    BY FieldShapes, EntryShapes
       DEF Copying, Copies, Has, Holds, AccountTokensDSL, Accounts_accountTokens
  <2> QED BY <1>8, <2>1 DEF Builder, Mapper
<1>9. CASE e = "accounts_nfts"
  <2>1. Copying(AccountNftsOwnedDSL, Accounts_accountNftsOwned)
    BY FieldShapes, EntryShapes
       DEF Copying, Copies, Has, Holds, AccountNftsOwnedDSL, Accounts_accountNftsOwned
  <2> QED BY <1>9, <2>1 DEF Builder, Mapper
<1>10. CASE e = "accounts_rewards"
  <2>1. Copying(AccountRewardsDSL, Accounts_rewards)
    BY FieldShapes, EntryShapes
       DEF Copying, Copies, Has, Holds, AccountRewardsDSL, Accounts_rewards
  <2> QED BY <1>10, <2>1 DEF Builder, Mapper
<1>11. CASE e = "accounts_outstandingAirdrops"
  <2>1. Copying(AccountOutstandingAirdropsDSL, Accounts_outstandingAirdrops)
    BY FieldShapes, EntryShapes, EntryOptions
       DEF Copying, Copies, Has, Holds, AccountOutstandingAirdropsDSL,
           Accounts_outstandingAirdrops
  <2> QED BY <1>11, <2>1 DEF Builder, Mapper
<1>12. CASE e = "accounts_pendingAirdrops"
  <2>1. Copying(AccountPendingAirdropsDSL, Accounts_pendingAirdrops)
    BY FieldShapes, EntryShapes, EntryOptions
       DEF Copying, Copies, Has, Holds, AccountPendingAirdropsDSL, Accounts_pendingAirdrops
  <2> QED BY <1>12, <2>1 DEF Builder, Mapper
<1>13. CASE e = "balances_list"
  <2>1. Copying(BalancesListQueryBuilder, Balances_list)
    BY FieldShapes, EntryShapes, EntryOptions
       DEF Copying, Copies, Has, Holds, BalancesListQueryBuilder, Balances_list
  <2> QED BY <1>13, <2>1 DEF Builder, Mapper
<1>14. CASE e = "blocks_list"
  <2>1. Copying(BlocksListQueryBuilder, Blocks_list)
    BY FieldShapes, EntryShapes, EntryOptions
       DEF Copying, Copies, Has, Holds, BlocksListQueryBuilder, Blocks_list
  <2> QED BY <1>14, <2>1 DEF Builder, Mapper
<1> QED BY <1>1, <1>2, <1>3, <1>4, <1>5, <1>6, <1>7, <1>8, <1>9, <1>10, <1>11, <1>12,
           <1>13, <1>14
        DEF Direct

------------------------------------------------------------------------------
(***************************************************************************)
(* Chains.  A call throws only at what the object form would refuse as     *)
(* well.                                                                   *)
(***************************************************************************)
\* What a mapper takes of a field, the builder does.
LEMMA BuilderTakes ==
  ASSUME NEW e \in Endpoints, NEW f \in DOMAIN Mapper[e], NEW list \in Seq(Filter),
         Accepts(list, Mapper[e][f].rule)
  PROVE  Accepts(list, Builder[e][f].rule)
<1>1. Agrees(Builder[e][f], Mapper[e][f])
  BY Agreement DEF Agreeing
<1> QED BY <1>1 DEF Agrees, Covers

\* The endpoints with two filters for a block have both of them as fields.
LEMMA BlockFields ==
  ASSUME NEW e \in Results
  PROVE  {"blockHash", "blockNumber"} \subseteq DOMAIN Mapper[e]
BY DEF Results, Mapper, Contracts_resultsList, Contracts_resultsByContract

\* A new chain is sound: it holds one accepted value in each required field.
LEMMA ChainInit == Init => ChainHolds
<1> SUFFICES ASSUME Init PROVE ChainHolds
  OBVIOUS
<1>1. endpoint \in Endpoints /\ alive
  BY DEF Init
<1>2. ASSUME NEW f \in Fields, query[f] # <<>> PROVE Accepts(query[f], Rules(f).rule)
  <2> DEFINE rule == Builder[endpoint][f].rule
  <2>1. Rules(f).required /\ query[f] = <<Typical[endpoint][f]>>
    BY <1>2 DEF Init
  <2>2. \E x \in First(rule) : Accepts(<<x>>, rule)
    BY <1>1, <2>1, QueriesAssumption DEF Fields, Rules
  <2>3. Accepts(<<CHOOSE x \in First(rule) : Accepts(<<x>>, rule)>>, rule)
    BY <2>2, Zenon
  <2>4. Typical[endpoint][f] = CHOOSE x \in First(rule) : Accepts(<<x>>, rule)
    BY <1>1, <2>1 DEF Typical, Fields, Rules
  <2> QED BY <2>1, <2>3, <2>4 DEF Rules
<1>3. endpoint \in Results => OneBlockFilter(query)
  <2>1. endpoint \in Results =>
          "blockHash" \in Fields /\ ~Builder[endpoint].blockHash.required
    BY EntryShapes DEF Results, Fields, Builder, ContractResultsListQueryBuilder,
       ContractResultsByContractQueryBuilder, Holds
  <2>2. endpoint \in Results => query.blockHash = <<>>
    BY <2>1 DEF Init, Rules
  <2> QED BY <2>2 DEF OneBlockFilter
<1> QED BY <1>1, <1>2, <1>3 DEF ChainHolds

\* One call keeps the invariant, if what else it checks is refused by the mapper too.
LEMMA ChainCall ==
  ASSUME TypeOK, ChainHolds, alive \/ FieldsMap(endpoint, query),
         NEW f \in Fields, NEW x \in Filter, NEW values \in {<<x>>, <<x, x>>},
         NEW checked \in BOOLEAN, Call(f, values, checked),
         ~checked => /\ ~ValueOk(x, Mapper[endpoint][f].rule)
                     /\ Mapper[endpoint][f].rule.nullable = FALSE
  PROVE  ChainHolds'
<1> DEFINE given == IF Rules(f).many THEN query[f] \o values ELSE values
           mapped == Mapper[endpoint][f].rule
<1>0. endpoint \in Endpoints /\ Fields = DOMAIN Mapper[endpoint]
  BY FieldsAgree DEF TypeOK, Fields
<1>1. query \in [Fields -> Seq(Filter)]
  BY <1>0 DEF TypeOK
<1>2. /\ values \in Seq(Filter) /\ Len(values) \in {1, 2} /\ values[Len(values)] = x
  <2>1. CASE values = <<x>>
    BY <2>1
  <2>2. CASE values = <<x, x>>
    BY <2>2
  <2> QED BY <2>1, <2>2
<1>3. /\ given \in Seq(Filter) /\ given # <<>> /\ Len(given) \in DOMAIN given
      /\ given[Len(given)] = x
  <2>1. query[f] \in Seq(Filter)
    BY <1>1
  <2>2. CASE Rules(f).many
    <3> DEFINE old == query[f]
    <3>1. given = old \o values /\ old \in Seq(Filter)
      BY <2>1, <2>2
    <3> HIDE DEF given, old
    <3>2. Len(given) = Len(old) + Len(values) /\ Len(old) \in Nat /\ given \in Seq(Filter)
      BY <1>2, <3>1
    <3>3. given[Len(given)] = values[Len(values)]
      <4> DEFINE m == Len(old)
                 n == Len(values)
      <4>1. m \in Nat /\ n \in {1, 2} /\ Len(given) = m + n
        BY <1>2, <3>2
      <4>2. \A i \in 1 .. m + n : given[i] = IF i <= m THEN old[i] ELSE values[i - m]
        BY <1>2, <3>1
      <4> HIDE DEF m, n
      <4>3. m + n \in 1 .. m + n /\ ~(m + n <= m) /\ m + n - m = n
        BY <4>1
      <4>4. given[m + n] = values[n]
        BY <4>1, <4>2, <4>3
      <4> QED BY <4>1, <4>4 DEF n
    <3> QED BY <1>2, <3>2, <3>3
  <2>3. CASE ~Rules(f).many
    BY <1>2, <2>3
  <2> QED BY <2>2, <2>3
<1>4. endpoint' = endpoint /\ query' = [query EXCEPT ![f] = given]
      /\ (alive' <=> /\ alive /\ checked /\ Accepts(given, Rules(f).rule)
                     /\ endpoint \in Results => OneBlockFilter(query'))
  BY DEF Call
<1> HIDE DEF given
<1>5. \A g \in Fields : query'[g] = IF g = f THEN given ELSE query[g]
  BY <1>1, <1>4
<1>6. Fields' = Fields /\ \A g : Rules(g)' = Rules(g)
  BY <1>4 DEF Fields, Rules
<1>7. ~checked => ~Accepts(given, mapped)
  BY <1>3 DEF Accepts, validateRepeatedValues
<1>8. Accepts(given, mapped) => Accepts(given, Rules(f).rule)
  BY <1>0, <1>3, BuilderTakes DEF Rules
<1>9. CASE alive'
  <2>1. \A g \in Fields : query'[g] # <<>> => Accepts(query'[g], Rules(g).rule)
    BY <1>4, <1>5, <1>9 DEF ChainHolds
  <2> QED BY <1>4, <1>6, <1>9, <2>1 DEF ChainHolds
<1>10. CASE ~alive' /\ alive /\ ~Accepts(given, mapped)
  <2>1. f \in DOMAIN Mapper[endpoint] /\ query'[f] = given
    BY <1>0, <1>5
  <2>2. ~FieldsMap(endpoint', query')
    BY <1>3, <1>4, <1>10, <2>1 DEF FieldsMap
  <2> QED BY <1>10, <2>2 DEF ChainHolds
<1>11. CASE ~alive' /\ alive /\ Accepts(given, mapped)
  <2>1. endpoint \in Results /\ ~OneBlockFilter(query')
    BY <1>4, <1>7, <1>8, <1>11
  <2> QED BY <1>4, <1>11, <2>1 DEF ChainHolds
<1>12. CASE ~alive
  <2>1. endpoint \in Results /\ ~OneBlockFilter(query)
    BY <1>12 DEF ChainHolds
  <2>2. \A g \in Fields : query[g] # <<>> => query'[g] # <<>>
    BY <1>3, <1>5
  <2>3. "blockHash" \in Fields /\ "blockNumber" \in Fields
    BY <1>0, <2>1, BlockFields
  <2>4. ~OneBlockFilter(query')
    BY <2>1, <2>2, <2>3 DEF OneBlockFilter
  <2> QED BY <1>4, <1>12, <2>1, <2>4 DEF ChainHolds
<1> QED BY <1>9, <1>10, <1>11, <1>12

\* Every call keeps a chain sound, whichever method makes it.
LEMMA ChainStep == TypeOK /\ ChainHolds /\ [Next]_vars => ChainHolds'
<1> SUFFICES ASSUME TypeOK, ChainHolds, [Next]_vars PROVE ChainHolds'
  OBVIOUS
<1>1. \A f \in Fields : Samples(f) \subseteq Filter
  BY TypicalIsFilter, QueriesAssumption DEF Samples, Rules, Fields, TypeOK
<1>2. ASSUME alive \/ FieldsMap(endpoint, query), NEW f \in Fields, Give(f) PROVE ChainHolds'
  <2>1. PICK x \in Samples(f) : Call(f, <<x>>, TRUE)
    BY <1>2 DEF Give
  <2> QED BY <1>1, <1>2, <2>1, ChainCall
<1>3. ASSUME alive \/ FieldsMap(endpoint, query), NEW f \in Fields, GiveArray(f)
      PROVE  ChainHolds'
  <2>1. PICK x \in Samples(f) : Call(f, <<x, x>>, TRUE)
    BY <1>3 DEF GiveArray
  <2> QED BY <1>1, <1>3, <2>1, ChainCall
<1>4. ASSUME alive \/ FieldsMap(endpoint, query), NEW f \in Fields, Compare(f)
      PROVE  ChainHolds'
  <2> DEFINE Checked(x) == /\ x.op \in Rules(f).fluent
                           /\ ValueOk([x EXCEPT !.op = ""], Rules(f).pre)
  <2>1. PICK x \in Samples(f) : x.op \in AllOps /\ ~x.caps /\ Call(f, <<x>>, Checked(x))
    BY <1>4 DEF Compare
  <2>2. Rules(f).fluent # {} /\ x \in Filter
    BY <1>1, <1>4 DEF Compare
  <2>3. Offers(Rules(f).fluent, Rules(f).pre, Mapper[endpoint][f].rule)
    <3>1. endpoint \in Endpoints /\ f \in DOMAIN Mapper[endpoint]
      BY FieldsAgree DEF TypeOK, Fields
    <3>2. Agrees(Rules(f), Mapper[endpoint][f])
      BY <3>1, Agreement DEF Agreeing, Rules
    <3> QED BY <2>2, <3>2 DEF Agrees
  <2>4. ~Checked(x) => /\ ~ValueOk(x, Mapper[endpoint][f].rule)
                       /\ Mapper[endpoint][f].rule.nullable = FALSE
    BY <2>1, <2>2, <2>3 DEF Offers
  <2>5. Checked(x) \in BOOLEAN
    OBVIOUS
  <2> HIDE DEF Checked
  <2> QED BY <1>4, <2>1, <2>2, <2>4, <2>5, ChainCall
<1>5. CASE UNCHANGED vars
  BY <1>5 DEF vars, ChainHolds, Fields, Rules
<1> QED BY <1>2, <1>3, <1>4, <1>5 DEF Next

\* The two forms of a query whose chain is sound.
LEMMA FormsAgree ==
  ASSUME TypeOK, ChainHolds
  PROVE  EndsAgree
<1> DEFINE e == endpoint
           q == query
<1>0. e \in Endpoints /\ Fields = DOMAIN Mapper[e] /\ DOMAIN Builder[e] = DOMAIN Mapper[e]
  BY FieldsAgree DEF TypeOK, Fields
<1>1. Complete(Builder[e], q) <=> Complete(Mapper[e], q)
  BY <1>0, Agreement DEF Complete, Agreeing, Agrees
<1>2. ASSUME ~alive PROVE ~Object
  <2>1. CASE ~FieldsMap(e, q)
    BY <2>1, Zenon DEF Object, Maps
  <2>2. CASE e \in Results /\ ~OneBlockFilter(q)
    <3>1. /\ e # "accounts_tokenAllowances" /\ e # "accounts_nftAllowances"
          /\ e # "accounts_nfts" /\ e # "tokens_list" /\ e # "contracts_call" /\ e \notin Logs
      BY <2>2 DEF Results, Logs
    <3>2. Maps(e, q) => results_across(q)
      BY <2>2, <3>1, Zenon DEF Maps
    <3> QED BY <2>2, <3>2 DEF Object, results_across, OneBlockFilter
  <2> QED BY <1>2, <2>1, <2>2 DEF ChainHolds
<1>3. ASSUME alive, e \in Direct PROVE Build(e, q) <=> Maps(e, q)
  <2>1. FieldsMap(e, q)
    <3>1. \A f \in DOMAIN Mapper[e] : Builder[e][f].rule = Mapper[e][f].rule
      BY <1>3, Copied DEF Copying, Copies
    <3> QED BY <1>0, <1>3, <3>1 DEF FieldsMap, ChainHolds, Rules
  <2>2. e # "tokens_list" /\ e # "contracts_call" /\ e \notin Results /\ e \notin Logs
    BY <1>3 DEF Direct, Results, Logs
  <2>3. CASE e = "accounts_tokenAllowances"
    <3>0. e # "accounts_nftAllowances" /\ e # "accounts_nfts"
      BY <2>3
    <3>1. Build(e, q) <=> Complete(Builder[e], q) /\ AccountTokenAllowances_build(q)
      BY <2>2, <2>3, <3>0, Zenon DEF Build
    <3>2. Maps(e, q) <=> Complete(Mapper[e], q) /\ FieldsMap(e, q) /\ tokenAllowances_across(q)
      BY <2>2, <2>3, <3>0, Zenon DEF Maps
    <3> QED BY <1>1, <2>1, <3>1, <3>2 DEF AccountTokenAllowances_build, tokenAllowances_across
  <2>4. CASE e = "accounts_nftAllowances"
    <3>0. e # "accounts_nfts" /\ e # "accounts_tokenAllowances"
      BY <2>4
    <3>1. Build(e, q) <=> Complete(Builder[e], q) /\ AccountNftAllowances_build(q)
      BY <2>2, <2>4, <3>0, Zenon DEF Build
    <3>2. Maps(e, q) <=> Complete(Mapper[e], q) /\ FieldsMap(e, q) /\ nftAllowances_across(q)
      BY <2>2, <2>4, <3>0, Zenon DEF Maps
    <3> QED BY <1>1, <2>1, <3>1, <3>2 DEF AccountNftAllowances_build, nftAllowances_across
  <2>5. CASE e = "accounts_nfts"
    <3>0. e # "accounts_nftAllowances" /\ e # "accounts_tokenAllowances"
      BY <2>5
    <3>1. Build(e, q) <=> Complete(Builder[e], q) /\ AccountNftsOwned_build(q)
      BY <2>2, <2>5, <3>0, Zenon DEF Build
    <3>2. Maps(e, q) <=> Complete(Mapper[e], q) /\ FieldsMap(e, q) /\ accountNftsOwned_across(q)
      BY <2>2, <2>5, <3>0, Zenon DEF Maps
    <3> QED BY <1>1, <2>1, <3>1, <3>2 DEF AccountNftsOwned_build, accountNftsOwned_across
  <2>6. CASE e \notin {"accounts_tokenAllowances", "accounts_nftAllowances", "accounts_nfts"}
    <3>1. Build(e, q) <=> Complete(Builder[e], q)
      BY <2>2, <2>6, Zenon DEF Build
    <3>2. Maps(e, q) <=> Complete(Mapper[e], q) /\ FieldsMap(e, q)
      BY <2>2, <2>6, Zenon DEF Maps
    <3> QED BY <1>1, <2>1, <3>1, <3>2
  <2> QED BY <2>3, <2>4, <2>5, <2>6
<1>4. ASSUME e \notin Direct, Maps(e, q) PROVE Build(e, q)
  <2>1. e # "accounts_tokenAllowances" /\ e # "accounts_nftAllowances" /\ e # "accounts_nfts"
    BY <1>4 DEF Direct
  <2>2. Complete(Builder[e], q)
    BY <1>1, <1>4, Zenon DEF Maps
  <2>3. CASE e = "tokens_list"
    <3>0. e \notin Results /\ e \notin Logs /\ e # "contracts_call"
      BY <2>3 DEF Results, Logs
    <3>1. Tokens_list_across(q)
      BY <1>4, <2>1, <2>3, <3>0, Zenon DEF Maps
    <3>2. TokensList_build(q)
      BY <3>1 DEF Tokens_list_across, TokensList_build
    <3> QED BY <2>1, <2>2, <2>3, <3>0, <3>2, Zenon DEF Build
  <2>4. CASE e \in Results
    <3>1. e # "tokens_list" /\ e \notin Logs /\ e # "contracts_call"
      BY <2>4 DEF Results, Logs
    <3>2. results_across(q)
      BY <1>4, <2>1, <2>4, <3>1, Zenon DEF Maps
    <3>3. ContractResults_build(q)
      BY <3>2 DEF results_across, ContractResults_build, OneBlockFilter
    <3> QED BY <2>1, <2>2, <2>4, <3>1, <3>3, Zenon DEF Build
  <2>5. CASE e \in Logs
    <3>1. e # "tokens_list" /\ e \notin Results
      BY <2>5 DEF Results, Logs
    <3>2. ContractLogs_build(q)
      BY <1>4, <2>5, MappedLogs, FieldShapes DEF logs_across, ContractLogs_build, Has
    <3> QED BY <2>1, <2>2, <2>5, <3>1, <3>2, Zenon DEF Build
  <2>6. CASE e # "tokens_list" /\ e \notin Results /\ e \notin Logs
    BY <2>1, <2>2, <2>6, Zenon DEF Build
  <2> QED BY <2>3, <2>4, <2>5, <2>6
<1>5. Fluent <=> Object
  BY <1>2, <1>3, <1>4 DEF Fluent, Object
<1>6. ASSUME e \in Direct, NEW f \in Fields
      PROVE  LET m == Mapper[e][f]
             IN  Rules(f).as = m.as /\ (Rules(f).keyed <=> m.key # "none")
  BY <1>0, <1>6, Copied DEF Copying, Copies, Rules
<1> QED BY <1>5, <1>6 DEF EndsAgree

------------------------------------------------------------------------------
(***************************************************************************)
(* Refusals.  A list that a rule takes has been taken call by call.        *)
(***************************************************************************)
\* Every rule of a mapper has numbers for limits.
LEMMA LimitedRules ==
  ASSUME NEW e \in Endpoints, NEW f \in DOMAIN Builder[e]
  PROVE  HasLimits(Mapper[e][f].rule)
<1>1. e \in DOMAIN Mapper
  BY DEF Endpoints, Builder, Mapper
<1>2. Soundly(Mapper[e])
  BY <1>1, Tables DEF Mapper
<1>3. Unordered(Mapper[e][f]) \/ RangeField(Mapper[e][f])
  BY <1>2, FieldsAgree DEF Soundly
<1> QED BY <1>3 DEF Unordered, IsUnordered, RangeField, RangeRule

\* A list with one value more has the values it had, at their places.
LEMMA Longer ==
  ASSUME NEW list \in Seq(Filter), NEW x \in Filter
  PROVE  LET long == Append(list, x)
         IN  /\ long \in Seq(Filter) /\ Len(long) = Len(list) + 1
             /\ DOMAIN list \subseteq DOMAIN long
             /\ \A i \in DOMAIN list : long[i] = list[i]
             /\ ToSet(list) \subseteq ToSet(long)
<1> DEFINE long == Append(list, x)
<1>1. long \in Seq(Filter) /\ Len(long) = Len(list) + 1
  OBVIOUS
<1>2. DOMAIN list = 1 .. Len(list) /\ DOMAIN long = 1 .. Len(long) /\ Len(list) \in Nat
  BY <1>1
<1>3. DOMAIN list \subseteq DOMAIN long
  BY <1>1, <1>2
<1>4. \A i \in DOMAIN list : long[i] = list[i]
  OBVIOUS
<1> HIDE DEF long
<1>5. ToSet(list) \subseteq ToSet(long)
  BY <1>3, <1>4 DEF ToSet
<1> QED BY <1>1, <1>3, <1>4, <1>5 DEF long

\* It has no fewer values of a comparator.
LEMMA CountsGrow ==
  ASSUME NEW list \in Seq(Filter), NEW x \in Filter, NEW ops
  PROVE  CountOf(list, ops) <= CountOf(Append(list, x), ops)
<1> DEFINE long == Append(list, x)
           few == {i \in DOMAIN list : Operator(list[i]) \in ops}
           many == {i \in DOMAIN long : Operator(long[i]) \in ops}
<1>1. long \in Seq(Filter) /\ few \subseteq many
  BY Longer
<1>2. DOMAIN long = 1 .. Len(long) /\ Len(long) \in Nat
  BY <1>1
<1>3. IsFiniteSet(many)
  <2>1. many \subseteq 1 .. Len(long) /\ IsFiniteSet(1 .. Len(long))
    BY <1>2, FS_Interval
  <2> HIDE DEF many
  <2> QED BY <2>1, FS_Subset
<1>4. Cardinality(few) <= Cardinality(many)
  BY <1>1, <1>3, FS_Subset
<1> QED BY <1>4 DEF CountOf

\* Bounds that meet among more values meet among fewer.
LEMMA FewerBounds ==
  ASSUME NEW many, \A f \in many : Valid(f), NEW few \in SUBSET many,
         NEW lowerOps, NEW upperOps, BoundsMeet(many, lowerOps, upperOps)
  PROVE  BoundsMeet(few, lowerOps, upperOps)
<1>1. /\ LowerBounds(few, lowerOps) \subseteq LowerBounds(many, lowerOps)
      /\ UpperBounds(few, upperOps) \subseteq UpperBounds(many, upperOps)
  BY DEF LowerBounds, UpperBounds
<1>2. \A f \in few : Valid(f)
  OBVIOUS
<1>3. LowerBounds(many, lowerOps) # {} /\ UpperBounds(many, upperOps) # {} =>
        \E t \in 0 .. MaxLong : /\ \A y \in LowerBounds(many, lowerOps) : y <= t
                                /\ \A y \in UpperBounds(many, upperOps) : t <= y
  BY MeetingBounds
<1>4. LowerBounds(few, lowerOps) # {} /\ UpperBounds(few, upperOps) # {} =>
        \E t \in 0 .. MaxLong : /\ \A y \in LowerBounds(few, lowerOps) : y <= t
                                /\ \A y \in UpperBounds(few, upperOps) : t <= y
  BY <1>1, <1>3
<1> QED BY <1>2, <1>4, MeetingBounds

\* The check of account IDs depends on the order of a list, and on no value after the one
\* it looks at.
LEMMA FewerAccounts ==
  ASSUME NEW list \in Seq(Filter), NEW x \in Filter, validateAccountIdFilters(Append(list, x))
  PROVE  validateAccountIdFilters(list)
<1> DEFINE long == Append(list, x)
           few == {list[i] : i \in {j \in DOMAIN list : ~isRequestEntityId(list[j])}}
           many == {long[i] : i \in {j \in DOMAIN long : ~isRequestEntityId(long[j])}}
<1>1. /\ long \in Seq(Filter) /\ DOMAIN list \subseteq DOMAIN long
      /\ \A i \in DOMAIN list : long[i] = list[i]
      /\ DOMAIN list = 1 .. Len(list) /\ Len(list) \in Nat
  BY Longer
<1>2. Cardinality(few) <= 1
  <2>1. few \subseteq many
    BY <1>1
  <2>2. IsFiniteSet(many) /\ Cardinality(many) <= 1
    <3>1. DOMAIN long = 1 .. Len(long) /\ Len(long) \in Nat
      BY <1>1
    <3> DEFINE places == {j \in DOMAIN long : ~isRequestEntityId(long[j])}
    <3>2. IsFiniteSet(places)
      <4>1. places \subseteq 1 .. Len(long) /\ IsFiniteSet(1 .. Len(long))
        BY <3>1, FS_Interval
      <4> HIDE DEF places
      <4> QED BY <4>1, FS_Subset
    <3> DEFINE at == [i \in places |-> long[i]]
    <3>3. at \in Surjection(places, many)
      BY DEF Surjection
    <3> HIDE DEF places, many, at
    <3>4. IsFiniteSet(many)
      BY <3>2, <3>3, FS_Surjection
    <3>5. Cardinality(many) <= 1
      BY DEF validateAccountIdFilters, many
    <3> QED BY <3>4, <3>5
  <2>3. IsFiniteSet(few) /\ Cardinality(few) <= Cardinality(many)
    BY <2>1, <2>2, FS_Subset
  <2>4. Cardinality(few) \in Nat /\ Cardinality(many) \in Nat
    BY <2>2, <2>3, FS_CardinalityType
  <2> HIDE DEF few, many
  <2> QED BY <2>2, <2>3, <2>4
<1>3. ASSUME NEW i \in DOMAIN list, NEW j \in DOMAIN list, i < j,
             ~isRequestEntityId(list[i]), isRequestEntityId(list[j]),
             \A k \in 1 .. j - 1 : list[k] # list[j]
      PROVE  Operator(list[j]) = "eq"
  <2>1. \A k \in 1 .. j - 1 : k \in DOMAIN list
    BY <1>1
  <2>2. \A k \in 1 .. j - 1 : long[k] # long[j]
    BY <1>1, <1>3, <2>1
  <2>3. Operator(long[j]) = "eq"
    BY <1>1, <1>3, <2>2 DEF validateAccountIdFilters
  <2> QED BY <1>1, <2>3
<1> QED BY <1>2, <1>3, Zenon DEF validateAccountIdFilters

\* What a rule takes, it takes call by call.
LEMMA PrefixesPass ==
  ASSUME NEW list \in Seq(Filter), list # <<>>, NEW x \in Filter, NEW r, HasLimits(r),
         r.ordered => RangeRule(r), Accepts(Append(list, x), r)
  PROVE  Accepts(list, r)
<1> DEFINE long == Append(list, x)
<1>1. /\ long \in Seq(Filter) /\ Len(long) = Len(list) + 1 /\ Len(list) \in Nat
      /\ Len(list) >= 1 /\ DOMAIN list \subseteq DOMAIN long
      /\ \A i \in DOMAIN list : long[i] = list[i]
      /\ ToSet(list) \subseteq ToSet(long)
  BY Longer
<1>2. validateRepeatedValues(long, r) /\ ShapeOk(long, r)
  BY DEF Accepts
<1>o. r.ordered => OrderedBounds(long, r)
  BY DEF Accepts
<1>a. r.by = "account" => validateAccountIdFilters(long)
  BY DEF Accepts
<1> HIDE DEF long
<1>3. validateRepeatedValues(list, r)
  BY <1>1, <1>2 DEF validateRepeatedValues, HasLimits
<1>4. ShapeOk(list, r)
  <2>1. \A ops : /\ CountOf(list, ops) \in Nat /\ CountOf(long, ops) \in Nat
                 /\ CountOf(list, ops) <= CountOf(long, ops)
    BY <1>1, CountIsBounded, CountsGrow DEF long
  <2>2. CountOf(list, Lower) <= r.lowers /\ CountOf(list, Upper) <= r.uppers
    BY <1>2, <2>1 DEF ShapeOk, HasLimits
  <2>3. r.alone /\ CountOf(list, {"eq"}) > 0 => Len(list) = 1
    BY <1>1, <1>2, <2>1 DEF ShapeOk
  <2> QED BY <2>2, <2>3 DEF ShapeOk
<1>5. ASSUME r.ordered PROVE OrderedBounds(list, r)
  <2>1. \A y \in ToSet(long) : Valid(y)
    BY <1>2, <1>5, RangeValues DEF Comparable
  <2>2. CASE r.by = "entityRange"
    <3>1. ASSUME NEW n \in 1 .. 3
          PROVE  BoundsMeet({f \in ToSet(list) : f.arity = n}, Lower \cup {"eq"}, Upper)
      <4>1. BoundsMeet({f \in ToSet(long) : f.arity = n}, Lower \cup {"eq"}, Upper)
        BY <1>5, <1>o, <2>2 DEF OrderedBounds
      <4>2. {f \in ToSet(list) : f.arity = n} \subseteq {f \in ToSet(long) : f.arity = n}
        BY <1>1
      <4> QED BY <2>1, <4>1, <4>2, FewerBounds
    <3> QED BY <2>2, <3>1 DEF OrderedBounds
  <2>3. CASE r.by # "entityRange"
    <3>1. BoundsMeet(ToSet(long), Lower, Upper)
      BY <1>5, <1>o, <2>3 DEF OrderedBounds
    <3>2. BoundsMeet(ToSet(list), Lower, Upper)
      BY <1>1, <2>1, <3>1, FewerBounds
    <3> QED BY <2>3, <3>2 DEF OrderedBounds
  <2> QED BY <2>2, <2>3
<1>6. r.by = "account" => validateAccountIdFilters(list)
  BY <1>a, FewerAccounts DEF long
<1> QED BY <1>3, <1>4, <1>5, <1>6 DEF Accepts

\* For the query of a typed state.
LEMMA FinalRefusals == TypeOK => RefusalIsFinal
<1> SUFFICES ASSUME TypeOK, NEW f \in Fields, query[f] # <<>>,
                    NEW x \in First(Rules(f).rule) \cup Later(Rules(f).rule),
                    Accepts(Append(query[f], x), Mapper[endpoint][f].rule)
             PROVE  Accepts(query[f], Mapper[endpoint][f].rule)
  BY Zenon DEF RefusalIsFinal
<1>1. endpoint \in Endpoints /\ f \in DOMAIN Builder[endpoint] /\ f \in DOMAIN Mapper[endpoint]
  BY FieldsAgree DEF TypeOK, Fields
<1>2. query[f] \in Seq(Filter) /\ x \in Filter
  BY <1>1, QueriesAssumption DEF TypeOK, Rules
<1>3. HasLimits(Mapper[endpoint][f].rule)
  BY <1>1, LimitedRules
<1>4. Mapper[endpoint][f].rule.ordered => RangeRule(Mapper[endpoint][f].rule)
  BY <1>1, OrderedRules
<1> QED BY <1>2, <1>3, <1>4, PrefixesPass

------------------------------------------------------------------------------
(***************************************************************************)
(* Theorems.                                                               *)
(***************************************************************************)
\* The builder and the mapper of every endpoint have the same fields, and a query holds
\* filters in the order they were given (dsl/ and mapper.ts).
THEOREM TypeCorrect == Spec => []TypeOK
BY TypeInit, TypeStep, PTL DEF Spec

\* For any clock and any window, whatever timestamps a query for logs by topic combines, it
\* is accepted only if they leave at least one instant and no more than the window
\* (utils.ts, enforceTopicTimestampWindow).
THEOREM TopicsAreBounded == Spec => []TopicQueriesAreBounded
BY BoundedTopics, PTL

\* For any ranges of numbers and IDs, a range whose bounds are compared is refused for
\* their order exactly when nothing lies between them (utils.ts, orderedBounds).
THEOREM BoundsAreMet == Spec => []BoundsAreSatisfiable
BY TypeInit, TypeStep, SatisfiableBounds, PTL DEF Spec

\* For every table of filters, two queries of an endpoint that share a cache key read the
\* same of the Mirror Node, so that neither is answered with the other's response; also
\* where a key folds the case of a word that both forms take in any case, as that of network
\* supply does (mapper.ts, the cacheKey of each mapper; utils.ts, the case of words).
THEOREM CacheIsHonest == Spec => []CachedAnswersFit
BY TypeInit, TypeStep, FittingAnswers, PTL DEF Spec

\* A query is accepted by the chain of calls exactly when its mapper accepts it as an object,
\* and the builders that write a request themselves write the mapper's.  In whatever order
\* and by whichever methods a chain gives its filters, each field it holds is one its builder
\* takes, and it has thrown only at what its mapper refuses.  A list that is refused stays
\* refused when a call adds a value, so that checking at every call refuses no query (dsl/,
\* mapper.ts, and the checks of lists in utils.ts).
THEOREM TwoFormsAreOne == Spec => []BothFormsAgree
<1>1. Spec => []TypeOK
  BY TypeInit, TypeStep, PTL DEF Spec
<1>2. Spec => []ChainHolds
  BY <1>1, ChainInit, ChainStep, PTL DEF Spec
<1>3. TypeOK /\ ChainHolds => BothFormsAgree
  BY FormsAgree, FinalRefusals DEF BothFormsAgree
<1> QED BY <1>1, <1>2, <1>3, PTL
==============================================================================
