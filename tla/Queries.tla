------------------------------- MODULE Queries -------------------------------
(***************************************************************************)
(* A query of the REST client, written twice: as a chain of builder calls  *)
(* (dsl/) and as the plain object that holds the same values.  Both are    *)
(* accepted or refused; an accepted one becomes the parameters of a        *)
(* request and, for a single resource, the key it is cached under.         *)
(***************************************************************************)
EXTENDS Builders, Mappers

CONSTANTS
  First(_), Later(_),   \* from a rule: filters tried as the first value, as a later one
  MaxValues(_)          \* from an endpoint: how many optional values a query gets

VARIABLES
  endpoint,   \* the method of the client that is called
  query,      \* from its fields to the values given, in order
  alive       \* no call of the chain has thrown

vars == <<endpoint, query, alive>>

\* The builder class of an endpoint.
Builder ==
  [accounts_list |-> AccountsListQueryDSL, accounts_one |-> AccountOneQueryDSL,
   accounts_hooks |-> AccountHooksDSL, accounts_hookStorage |-> AccountHookStorageDSL,
   accounts_cryptoAllowances |-> AccountCryptoAllowancesDSL,
   accounts_tokenAllowances |-> AccountTokenAllowancesDSL,
   accounts_nftAllowances |-> AccountNftAllowancesDSL,
   accounts_tokens |-> AccountTokensDSL, accounts_nfts |-> AccountNftsOwnedDSL,
   accounts_rewards |-> AccountRewardsDSL,
   accounts_outstandingAirdrops |-> AccountOutstandingAirdropsDSL,
   accounts_pendingAirdrops |-> AccountPendingAirdropsDSL,
   balances_list |-> BalancesListQueryBuilder,
   blocks_list |-> BlocksListQueryBuilder, blocks_one |-> BlocksOneQueryBuilder,
   topics_one |-> TopicOneQueryBuilder, topics_messages |-> TopicMessagesListQueryBuilder,
   topics_bySequence |-> TopicMessageBySequenceQueryBuilder,
   topics_byTimestamp |-> TopicMessageByTimestampQueryBuilder,
   tokens_list |-> TokensListQueryBuilder, tokens_one |-> TokenOneQueryBuilder,
   tokens_balances |-> TokenBalancesQueryBuilder, tokens_nfts |-> TokenNftsListQueryBuilder,
   tokens_nft |-> TokenNftOneQueryBuilder,
   tokens_nftTransactions |-> TokenNftTransactionsQueryBuilder,
   network_supply |-> NetworkSupplyQueryBuilder, network_fees |-> NetworkFeesQueryBuilder,
   network_estimateFees |-> NetworkFeeEstimateRequestBuilder,
   network_exchangeRate |-> NetworkExchangeRateQueryBuilder,
   network_nodes |-> NetworkNodesQueryBuilder,
   network_registeredNodes |-> NetworkRegisteredNodesQueryBuilder,
   schedules_list |-> SchedulesListQueryBuilder, schedules_one |-> SchedulesOneQueryBuilder,
   transactions_list |-> TransactionsListQueryBuilder,
   transactions_byId |-> TransactionByIdQueryBuilder,
   contracts_list |-> ContractsListQueryBuilder, contracts_one |-> ContractOneQueryBuilder,
   contracts_results |-> ContractResultsListQueryBuilder,
   contracts_resultsByContract |-> ContractResultsByContractQueryBuilder,
   contracts_resultByTimestamp |-> ContractResultByTimestampQueryBuilder,
   contracts_resultByTransaction |-> ContractResultByTransactionQueryBuilder,
   contracts_logs |-> ContractLogsListQueryBuilder,
   contracts_logsByContract |-> ContractLogsByContractQueryBuilder,
   contracts_state |-> ContractStateQueryBuilder, contracts_call |-> ContractCallRequestBuilder,
   contracts_actions |-> ContractActionsQueryBuilder,
   contracts_opcodes |-> ContractOpcodesQueryBuilder]

\* The mapper method of an endpoint.
Mapper ==
  [accounts_list |-> Accounts_list, accounts_one |-> Accounts_one,
   accounts_hooks |-> Accounts_hooks, accounts_hookStorage |-> Accounts_hookStorage,
   accounts_cryptoAllowances |-> Accounts_cryptoAllowances,
   accounts_tokenAllowances |-> Accounts_tokenAllowances,
   accounts_nftAllowances |-> Accounts_nftAllowances,
   accounts_tokens |-> Accounts_accountTokens, accounts_nfts |-> Accounts_accountNftsOwned,
   accounts_rewards |-> Accounts_rewards,
   accounts_outstandingAirdrops |-> Accounts_outstandingAirdrops,
   accounts_pendingAirdrops |-> Accounts_pendingAirdrops,
   balances_list |-> Balances_list,
   blocks_list |-> Blocks_list, blocks_one |-> Blocks_one,
   topics_one |-> Topics_topicOne, topics_messages |-> Topics_messagesList,
   topics_bySequence |-> Topics_messageBySequence,
   topics_byTimestamp |-> Topics_messageByTimestamp,
   tokens_list |-> Tokens_list, tokens_one |-> Tokens_one,
   tokens_balances |-> Tokens_balances, tokens_nfts |-> Tokens_nftsList,
   tokens_nft |-> Tokens_nftOne, tokens_nftTransactions |-> Tokens_nftTx,
   network_supply |-> Network_supply, network_fees |-> Network_fees,
   network_estimateFees |-> Network_estimateFees,
   network_exchangeRate |-> Network_exchangeRate, network_nodes |-> Network_nodes,
   network_registeredNodes |-> Network_registeredNodes,
   schedules_list |-> Schedules_list, schedules_one |-> Schedules_one,
   transactions_list |-> Transactions_list, transactions_byId |-> Transactions_byId,
   contracts_list |-> Contracts_list, contracts_one |-> Contracts_one,
   contracts_results |-> Contracts_resultsList,
   contracts_resultsByContract |-> Contracts_resultsByContract,
   contracts_resultByTimestamp |-> Contracts_resultByTimestamp,
   contracts_resultByTransaction |-> Contracts_resultByTransaction,
   contracts_logs |-> Contracts_logsList,
   contracts_logsByContract |-> Contracts_logsByContract,
   contracts_state |-> Contracts_stateQuery, contracts_call |-> Contracts_callQuery,
   contracts_actions |-> Contracts_actionsByResult, contracts_opcodes |-> Contracts_opcodes]

Endpoints == DOMAIN Builder

Fields == DOMAIN Builder[endpoint]

\* The filters tried are filters, and both forms take one of them for a required field.
ASSUME QueriesAssumption ==
  \A e \in Endpoints : \A f \in DOMAIN Builder[e] :
    LET rule == Builder[e][f].rule
    IN  /\ First(rule) \cup Later(rule) \subseteq Filter
        /\ Builder[e][f].required => \E x \in First(rule) : Accepts(<<x>>, rule)

------------------------------------------------------------------------------
(***************************************************************************)
(* What becomes of a query.                                                *)
(***************************************************************************)
\* These build methods write the request themselves; the others return an object that the
\* resource hands to its mapper.
Direct ==
  {"accounts_list", "accounts_one", "accounts_hooks", "accounts_hookStorage",
   "accounts_cryptoAllowances", "accounts_tokenAllowances", "accounts_nftAllowances",
   "accounts_tokens", "accounts_nfts", "accounts_rewards", "accounts_outstandingAirdrops",
   "accounts_pendingAirdrops", "balances_list", "blocks_list"}

Complete(table, q) == \A f \in DOMAIN table : table[f].required => q[f] # <<>>

Results == {"contracts_results", "contracts_resultsByContract"}
Logs == {"contracts_logs", "contracts_logsByContract"}

\* build() returns.
Build(e, q) ==
  /\ Complete(Builder[e], q)
  /\ CASE e = "accounts_tokenAllowances" -> AccountTokenAllowances_build(q)
       [] e = "accounts_nftAllowances" -> AccountNftAllowances_build(q)
       [] e = "accounts_nfts" -> AccountNftsOwned_build(q)
       [] e = "tokens_list" -> TokensList_build(q)
       [] e \in Results -> ContractResults_build(q)
       [] e \in Logs -> ContractLogs_build(q)
       [] OTHER -> TRUE

FieldsMap(e, q) ==
  \A f \in DOMAIN Mapper[e] : q[f] # <<>> => Accepts(q[f], Mapper[e][f].rule)

\* The mapper returns for an object with these fields.
Maps(e, q) ==
  /\ Complete(Mapper[e], q)
  /\ FieldsMap(e, q)
  /\ CASE e = "accounts_tokenAllowances" -> tokenAllowances_across(q)
       [] e = "accounts_nftAllowances" -> nftAllowances_across(q)
       [] e = "accounts_nfts" -> accountNftsOwned_across(q)
       [] e = "tokens_list" -> Tokens_list_across(q)
       [] e \in Results -> results_across(q)
       [] e \in Logs -> logs_across(q)
       [] e = "contracts_call" -> callQuery_across(q)
       [] OTHER -> TRUE

\* The chain so far, ended here, becomes a request; and the object does.
Fluent == alive /\ Build(endpoint, query) /\ (endpoint \notin Direct => Maps(endpoint, query))
Object == Maps(endpoint, query)

\* The part of a field that enters the key, or that decides the answer.
Folded(f) == [f EXCEPT !.caps = FALSE]
Part(list, how) ==
  CASE how = "all" -> list
    [] how = "none" -> <<>>
    [] how = "last" -> IF list = <<>> THEN <<>> ELSE <<Last(list)>>
    [] how = "set" -> ToSet(list)
    [] how = "sorted" -> [x \in ToSet(list) |-> Cardinality({i \in DOMAIN list : list[i] = x})]
    [] how = "folded" -> [i \in DOMAIN list |-> Folded(list[i])]
    [] how = "falsehood" -> SelectSeq(list, LAMBDA x : x.v = 0)

CacheKey(e, q) == [f \in DOMAIN Mapper[e] |-> Part(q[f], Mapper[e][f].key)]
Answer(e, q) == [f \in DOMAIN Mapper[e] |-> Part(q[f], Mapper[e][f].reads)]
IsKeyed(e) == \E f \in DOMAIN Mapper[e] : Mapper[e][f].key # "none"

------------------------------------------------------------------------------
(***************************************************************************)
(* Writing a query, one call of the chain after the other.  Once a call    *)
(* throws there is no chain any more, but the object may still be written, *)
(* unless one of its fields is beyond repair.                              *)
(***************************************************************************)
Rules(f) == Builder[endpoint][f]

\* A value of each required field that both forms take.
Typical ==
  [e \in Endpoints |->
     [f \in {g \in DOMAIN Builder[e] : Builder[e][g].required} |->
        CHOOSE x \in First(Builder[e][f].rule) : Accepts(<<x>>, Builder[e][f].rule)]]

\* How many values a query has besides the typical ones.
Size ==
  LET Values(f) == IF Rules(f).required
                   THEN IF query[f] = <<Typical[endpoint][f]>> THEN 0 ELSE 1
                   ELSE Len(query[f])
  IN  ReduceSet(LAMBDA f, n : n + Values(f), Fields, 0)

Samples(f) ==
  IF Size = 0 THEN First(Rules(f).rule)
  ELSE IF Rules(f).required THEN {Typical[endpoint][f]} ELSE Later(Rules(f).rule)

Init ==
  /\ endpoint \in Endpoints
  /\ \E given \in BOOLEAN :
       query = [f \in Fields |->
                  IF given /\ Rules(f).required THEN <<Typical[endpoint][f]>> ELSE <<>>]
  /\ alive = TRUE

\* Whether the field may be given so many values more.
Room(f, n) ==
  /\ Rules(f).required \/ Size + n <= MaxValues(endpoint)
  /\ alive \/ Rules(f).many \/ query[f] = <<>>

\* A call that brings these values to a field, and has checked what else it checks of them.
Call(f, values, checked) ==
  LET given == IF Rules(f).many THEN query[f] \o values ELSE values
  IN  /\ query' = [query EXCEPT ![f] = given]
      /\ alive' = (/\ alive /\ checked /\ Accepts(given, Rules(f).rule)
                   /\ endpoint \in Results => OneBlockFilter(query'))
      /\ UNCHANGED endpoint

\* query.field("gte:3")
Give(f) == Room(f, 1) /\ \E x \in Samples(f) : Call(f, <<x>>, TRUE)

\* query.field(["gte:3", "gte:3"])
GiveArray(f) == Rules(f).arrays /\ Room(f, 2) /\ \E x \in Samples(f) : Call(f, <<x, x>>, TRUE)

\* query.field.gte(3): the comparator is one the method has, the value has none of its own.
Compare(f) ==
  /\ Rules(f).fluent # {} /\ Room(f, 1)
  /\ \E x \in Samples(f) :
       /\ x.op \in AllOps /\ ~x.caps
       /\ Call(f, <<x>>, /\ x.op \in Rules(f).fluent
                         /\ ValueOk([x EXCEPT !.op = ""], Rules(f).pre))

Next ==
  /\ alive \/ FieldsMap(endpoint, query)
  /\ \E f \in Fields : Give(f) \/ GiveArray(f) \/ Compare(f)

Spec == Init /\ [][Next]_vars

------------------------------------------------------------------------------
(***************************************************************************)
(* Properties.                                                             *)
(***************************************************************************)
\* The type invariant: a query has the fields of its endpoint, the mapper's fields.
TypeOK ==
  /\ endpoint \in Endpoints
  /\ query \in [DOMAIN Mapper[endpoint] -> Seq(Filter)]
  /\ alive \in BOOLEAN

\* A query is accepted as a chain of builder calls, in the order its values were given and
\* in each form of the calls, just when the mapper of the same endpoint accepts the object
\* that holds them; and where a build method writes the request itself, it names the
\* parameters as the mapper does and puts the same fields into the cache key.  Two
\* hand-written copies of the same checks must not drift apart (dsl/ and mapper.ts), and no
\* call may refuse what a later one would have completed.
EndsAgree ==
  /\ Fluent <=> Object
  /\ endpoint \in Direct =>
       \A f \in Fields : LET m == Mapper[endpoint][f]
                         IN  Rules(f).as = m.as /\ (Rules(f).keyed <=> m.key # "none")

\* A chain that goes on holds in every field what its builder takes, and one block filter;
\* a chain that has thrown holds a field that its mapper refuses too, or both block filters:
\* no call throws at what the object form would still allow.
ChainHolds ==
  /\ alive => /\ \A f \in Fields : query[f] # <<>> => Accepts(query[f], Rules(f).rule)
              /\ endpoint \in Results => OneBlockFilter(query)
  /\ ~alive => \/ ~FieldsMap(endpoint, query)
               \/ endpoint \in Results /\ ~OneBlockFilter(query)

\* A field that its mapper refuses stays refused whatever a later call adds to it.  A
\* builder checks its whole list at every call, with the checks of the mapper: one that
\* refuses a list and takes a longer one would throw in the middle of a chain at what the
\* object form takes at once (utils.ts, the checks of lists).
RefusalIsFinal ==
  \A f \in Fields :
    LET rule == Mapper[endpoint][f].rule
    IN  query[f] # <<>> /\ ~Accepts(query[f], rule) =>
          \A x \in First(Rules(f).rule) \cup Later(Rules(f).rule) :
            ~Accepts(Append(query[f], x), rule)

\* The two forms of a query agree: at the end, at every call, and on the queries that are
\* beyond repair, which are not written any further (dsl/ and mapper.ts).
BothFormsAgree == EndsAgree /\ ChainHolds /\ RefusalIsFinal

\* A query for contract logs by topic that is accepted, in either form, asks for between
\* one instant and seven days of them: the Mirror Node refuses any other.
TopicQueriesAreBounded ==
  /\ endpoint \in Logs /\ (query["topic0"] # <<>> \/ query["topic1"] # <<>>)
  /\ Object \/ Fluent
  => Cardinality({t \in 0 .. MaxLong :
                    \A i \in DOMAIN query["timestamp"] : Satisfies(t, query["timestamp"][i])})
       \in 1 .. Window

\* A range whose bounds are compared (orderedBounds) is refused for the order of its bounds
\* just when nothing lies between them, one number of ID parts at a time: gt:4 with lt:5 is
\* empty, gte:4 with lte:4 is not.
BoundsAreSatisfiable ==
  \A f \in Fields :
    LET rule == Mapper[endpoint][f].rule
        list == query[f]
        Alike(n) == {x \in ToSet(list) : (rule.by = "javaLong" /\ x.op \notin {"", "eq"})
                                         \/ (rule.by = "entityRange" /\ x.arity = n)}
        Empty(n) == \A v \in 0 .. MaxLong : \E x \in Alike(n) : ~Satisfies(v, x)
        Opposed(n) == /\ \E x \in Alike(n) : x.op \in Upper
                      /\ \E x \in Alike(n) : x.op \notin Upper
    IN  rule.ordered /\ list # <<>> /\ validateRepeatedValues(list, rule) /\ ShapeOk(list, rule)
          => (Accepts(list, rule) <=> \A n \in 1 .. 3 : Opposed(n) => ~Empty(n))

\* Of two accepted queries that differ in one field, the cache key is the same only if the
\* answer is: what a mapper leaves out of a key, sorts or folds in it, or reduces to its
\* last value may not change what the Mirror Node returns.
CachedAnswersFit ==
  IsKeyed(endpoint) /\ Object =>
    \A f \in Fields :
      LET rule == Mapper[endpoint][f].rule
          others == {<<>>} \cup {<<x>> : x \in First(rule)}
                           \cup {<<x, y>> : x, y \in Later(rule)}
      IN  \A other \in others :
            LET q == [query EXCEPT ![f] = other]
            IN  Maps(endpoint, q) /\ CacheKey(endpoint, q) = CacheKey(endpoint, query)
                  => Answer(endpoint, q) = Answer(endpoint, query)
==============================================================================
