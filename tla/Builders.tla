------------------------------ MODULE Builders -------------------------------
(***************************************************************************)
(* The fluent builders of dsl/: one table per class, from the field a      *)
(* caller sets to what its method does.  A method checks its value (or the *)
(* list so far with the value appended) and keeps it, or throws; a field   *)
(* with comparator methods also takes one of its fluent operators and a    *)
(* bare value.  The page limit is resolved elsewhere and left out.         *)
(***************************************************************************)
EXTENDS Filters

\* A field that is overwritten, and one that is appended to, with the parameter a build
\* that bypasses the mapper writes it to.  fluent are the comparator methods there are,
\* pre is the check of the bare value they take, and arrays tells whether a call may
\* bring several values.
One(rule, param) ==
  [rule |-> rule, as |-> param, many |-> FALSE, arrays |-> FALSE, fluent |-> {},
   pre |-> Rule("any"), required |-> FALSE, keyed |-> FALSE]
Each(rule, param, fluent) ==
  [One(rule, param) EXCEPT !.many = TRUE, !.arrays = TRUE, !.fluent = fluent]
Singly(entry) == [entry EXCEPT !.arrays = FALSE]
\* The same, in a build that hands an object to the mapper.
Set(rule) == One(rule, "mapped")
Add(rule, fluent) == Each(rule, "mapped", fluent)
Path(rule) == [One(rule, "path") EXCEPT !.required = TRUE]
Needed(entry) == [entry EXCEPT !.required = TRUE]
InKey(entry) == [entry EXCEPT !.keyed = TRUE]
Bare(entry, rule) == [entry EXCEPT !.pre = rule]

Sorting == One(Order, "order")
Instants(ops) == Singly(Each(OfOps(Rule("timestamp"), ops), "timestamp", ops))

------------------------------------------------------------------------------
(***************************************************************************)
(* dsl/accounts.ts: every build writes the request itself.                 *)
(***************************************************************************)
AccountsListQueryDSL ==
  [accountId |-> Each(Rule("entityOrEvm"), "account.id", AllOps),
   accountBalance |-> Each(Decimals(0, MaxLong), "account.balance", AllOps),
   accountPublicKey |-> One(AnyText, "account.publickey"),
   includeBalance |-> Each(Times(Flag, Most), "balance", {}),
   order |-> Sorting]

AccountOneQueryDSL ==
  [idOrAliasOrEvmAddress |-> InKey(Path(Rule("anyAccount"))),
   timestamp |-> InKey(Instants(AllOps)),
   transactiontype |-> InKey(One(AnyText, "transactiontype")),
   transactions |-> InKey(One(Flag, "transactions")),
   order |-> InKey(Sorting)]

AccountHooksDSL ==
  [idOrAliasOrEvmAddress |-> Path(Rule("javaAccount")),
   hookId |-> Bare(Each(Times(OfOps(JavaLong(0), NoNeOps), Most), "hook.id", NoNeOps),
                   OfOps(JavaLong(0), NoNeOps)),
   order |-> Sorting]

AccountHookStorageDSL ==
  [idOrAliasOrEvmAddress |-> Path(Rule("javaAccount")),
   hookId |-> Path(Times(OfOps(JavaLong(0), {}), 1)),
   key |-> Each(Rule("key"), "key", NoNeOps),
   timestamp |-> Singly(Bare(Each(JavaTimes, "timestamp", NoNeOps), JavaTimes)),
   order |-> Sorting]

AccountCryptoAllowancesDSL ==
  [idOrAliasOrEvmAddress |-> Path(Rule("anyAccount")),
   spenderId |-> Each(OfOps(Rule("entityOrEvm"), NoNeOps), "spender.id", NoNeOps),
   order |-> Sorting]

AccountTokenAllowancesDSL ==
  [idOrAliasOrEvmAddress |-> Path(Rule("anyAccount")),
   spenderId |-> Each(Structured(OfOps(Rule("entityOrEvm"), NoNeOps)), "spender.id", NoNeOps),
   tokenId |-> Each(Structured(OfOps(Rule("token"), NoNeOps)), "token.id", NoNeOps),
   order |-> Sorting]

AccountNftAllowancesDSL ==
  [idOrAliasOrEvmAddress |-> Path(Rule("javaAccount")),
   view |-> One(Flag, "owner"),
   counterpartyId |-> Each(Primary(Ordered(Structured(OfOps(EntityRange, NoNeOps)))),
                           "account.id", NoNeOps),
   tokenId |-> Each(Structured(OfOps(EntityRange, NoNeOps)), "token.id", NoNeOps),
   order |-> Sorting]

AccountTokensDSL ==
  [idOrAliasOrEvmAddress |-> Path(Rule("anyAccount")),
   tokenId |-> Each(OfOps(Rule("token"), NoNeOps), "token.id", NoNeOps),
   order |-> Sorting]

AccountNftsOwnedDSL ==
  [idOrAliasOrEvmAddress |-> Path(Rule("anyAccount")),
   tokenId |-> Each(Structured(OfOps(Rule("token"), NoNeOps)), "token.id", NoNeOps),
   serialNumber |-> Each(Structured(OfOps(Decimals(1, MaxLong), NoNeOps)), "serialnumber",
                         NoNeOps),
   spenderId |-> Each(Bounded(OfOps(Rule("entityOrEvm"), NoNeOps)), "spender.id", NoNeOps),
   order |-> Sorting]

AccountRewardsDSL ==
  [idOrAliasOrEvmAddress |-> Path(Rule("anyAccount")),
   timestamp |-> Instants(NoNeOps),
   order |-> Sorting]

AccountOutstandingAirdropsDSL ==
  [idOrAliasOrEvmAddress |-> Path(Rule("javaAccount")),
   receiverId |-> Each(Primary(Ordered(OfOps(EntityRange, NoNeOps))), "receiver.id", NoNeOps),
   tokenId |-> Each(OfOps(EntityRange, NoNeOps), "token.id", NoNeOps),
   serialNumber |-> Bare(Each(OfOps(JavaLong(0), NoNeOps), "serialnumber", NoNeOps),
                         OfOps(JavaLong(0), NoNeOps)),
   order |-> Sorting]

AccountPendingAirdropsDSL ==
  [idOrAliasOrEvmAddress |-> Path(Rule("javaAccount")),
   senderId |-> Each(Primary(Ordered(OfOps(EntityRange, NoNeOps))), "sender.id", NoNeOps),
   tokenId |-> Each(OfOps(EntityRange, NoNeOps), "token.id", NoNeOps),
   serialNumber |-> Bare(Each(OfOps(JavaLong(0), NoNeOps), "serialnumber", NoNeOps),
                         OfOps(JavaLong(0), NoNeOps)),
   order |-> Sorting]

\* What the builds check across fields.
AccountTokenAllowances_build(q) == PagesWithin(q.tokenId, q.spenderId)

\* Mutant: the build leaves the order of a token range to the Mirror Node.
AccountNftAllowances_build_AnyOrder(q) == PagesWithin(q.tokenId, q.counterpartyId)

AccountNftAllowances_build(q) ==
  /\ PagesWithin(q.tokenId, q.counterpartyId)
  /\ \/ CountOf(q.counterpartyId, Lower) > 0 /\ CountOf(q.counterpartyId, Upper) > 0
     \/ OrderedBounds(q.tokenId, EntityRange)

AccountNftsOwned_build(q) == PagesWithin(q.serialNumber, q.tokenId)
------------------------------------------------------------------------------
(***************************************************************************)
(* dsl/balances.ts and dsl/blocks.ts: the lists write the request          *)
(* themselves, one block goes through the mapper.                          *)
(***************************************************************************)
BalancesListQueryBuilder ==
  [accountId |-> Bare(Each(Rule("account"), "account.id", AllOps), Rule("account")),
   accountBalance |-> Each(Decimals(0, MaxLong), "account.balance", AllOps),
   accountPublicKey |-> One(AnyText, "account.publickey"),
   timestamp |-> Instants(AllOps),
   order |-> Sorting]

BlocksListQueryBuilder ==
  [blockNumber |-> Bare(Each(OfOps(Rule("block"), NoNeOps), "block.number", NoNeOps),
                        OfOps(Rule("block"), NoNeOps)),
   timestamp |-> Instants(AllOps),
   order |-> Sorting]

BlocksOneQueryBuilder == [hashOrNumber |-> Path(Rule("blockId"))]

------------------------------------------------------------------------------
(***************************************************************************)
(* dsl/topics.ts and dsl/tokens.ts.                                        *)
(***************************************************************************)
TopicOneQueryBuilder == [topicId |-> Path(Rule("entity"))]

TopicMessagesListQueryBuilder ==
  [topicId |-> Path(Rule("entity")),
   encoding |-> Set(Choice(0 .. 2)),
   sequenceNumber |-> Bare(Add(OfOps(Decimals(1, MaxLong), NoNeOps), NoNeOps),
                           Exactly(1, MaxLong)),
   timestamp |-> Instants(NoNeOps),
   order |-> Sorting]

TopicMessageBySequenceQueryBuilder ==
  [topicId |-> Path(Rule("entity")),
   sequenceNumber |-> Path(Exactly(1, MaxLong))]

TopicMessageByTimestampQueryBuilder ==
  [timestamp |-> Path(OfOps(Rule("timestamp"), {}))]

TokensListQueryBuilder ==
  [accountId |-> Set(OfOps(Rule("entityOrEvm"), {})),
   tokenId |-> Bare(Add(Rule("token"), AllOps), OfOps(Rule("token"), {})),
   publicKey |-> Set(AnyText),
   name |-> Set(Choice(3 .. 100)),
   type |-> Add(Times(Choice(1 .. 200), Most), {}),
   order |-> Sorting]

TokenOneQueryBuilder ==
  [tokenId |-> Path(OfOps(Rule("token"), {})),
   timestamp |-> Add(OfOps(Rule("timestamp"), EqualOrLessOps), EqualOrLessOps)]

TokenBalancesQueryBuilder ==
  [tokenId |-> Path(OfOps(Rule("token"), {})),
   accountId |-> Bare(Add(Rule("entityOrEvm"), AllOps), OfOps(Rule("entityOrEvm"), {})),
   accountPublicKey |-> Set(AnyText),
   accountBalance |-> Add(Decimals(0, MaxLong), AllOps),
   timestamp |-> Instants(AllOps),
   order |-> Sorting]

TokenNftsListQueryBuilder ==
  [tokenId |-> Path(OfOps(Rule("token"), {})),
   accountId |-> Bare(Add(Rule("entityOrEvm"), AllOps), OfOps(Rule("entityOrEvm"), {})),
   serialNumber |-> Add(Decimals(1, MaxLong), AllOps),
   order |-> Sorting]

TokenNftOneQueryBuilder ==
  [tokenId |-> Path(OfOps(Rule("token"), {})),
   serialNumber |-> Path(Exactly(1, MaxLong))]

TokenNftTransactionsQueryBuilder ==
  [tokenId |-> Path(OfOps(Rule("token"), {})),
   serialNumber |-> Path(Exactly(1, MaxLong)),
   timestamp |-> Instants(AllOps),
   order |-> Sorting]

TokensList_build(q) == q.name # <<>> => q.accountId = <<>> /\ q.tokenId = <<>>
------------------------------------------------------------------------------
(***************************************************************************)
(* dsl/network.ts                                                          *)
(***************************************************************************)
JavaInstants == Singly(Bare(Add(JavaTimes, NoNeOps), JavaTimes))

NetworkSupplyQueryBuilder == [timestamp |-> JavaInstants, q |-> Set(Choice({0, 1}))]

NetworkFeesQueryBuilder == [timestamp |-> JavaInstants, order |-> Sorting]

NetworkFeeEstimateRequestBuilder ==
  [transaction |-> Needed(Set(Word({0}))),
   mode |-> Set(Choice({0, 1})),
   highVolumeThrottle |-> Set(Word(0 .. 10000)),
   contentType |-> Set(Choice({0, 1}))]

NetworkExchangeRateQueryBuilder == [timestamp |-> JavaInstants]

NodeId == [OfOps(JavaLong(0), NoNeOps) EXCEPT !.rejectLtZero = TRUE]

NetworkNodesQueryBuilder ==
  [fileId |-> [Set(Times(OfOps(Rule("entityRange"), EqualOps), 1))
                 EXCEPT !.fluent = EqualOps],
   nodeId |-> Bare(Add(Ordered(Times(NodeId, Most)), NoNeOps), NodeId),
   order |-> Sorting]

NetworkRegisteredNodesQueryBuilder ==
  [registeredNodeId |-> Bare(Add(Ordered([NodeId EXCEPT !.alone = TRUE]), NoNeOps), NodeId),
   type |-> Set(Choice(0 .. 4)),
   order |-> Sorting]

------------------------------------------------------------------------------
(***************************************************************************)
(* dsl/schedules.ts and dsl/transactions.ts                                *)
(***************************************************************************)
SchedulesListQueryBuilder ==
  [accountId |-> Bare(Add(Rule("entityOrEvm"), AllOps), Rule("entityOrEvm")),
   scheduleId |-> Bare(Add(Rule("entityOrEvm"), AllOps), Rule("entityOrEvm")),
   order |-> Sorting]

SchedulesOneQueryBuilder == [scheduleId |-> Path(Rule("entity"))]

TransactionsListQueryBuilder ==
  [accountId |-> Bare(Add(Rule("entityOrEvm"), AllOps), Rule("entityOrEvm")),
   timestamp |-> Instants(AllOps),
   transactiontype |-> Set(AnyText),
   result |-> Set(Choice({0, 1})),
   type |-> Set(Choice({0, 1})),
   order |-> Sorting]

TransactionByIdQueryBuilder ==
  [transactionId |-> Path(Rule("hederaTransaction")),
   nonce |-> Add(OfOps(Decimals(0, MaxInt32), {}), {}),
   scheduled |-> Add(Times(Flag, Most), {})]
------------------------------------------------------------------------------
(***************************************************************************)
(* dsl/contracts.ts                                                        *)
(***************************************************************************)
ContractsListQueryBuilder ==
  [contractId |-> Bare(Add(Rule("contract"), AllOps), Rule("contract")),
   order |-> Sorting]

ContractPath == Path(OfOps(Rule("contractPath"), {}))

ContractOneQueryBuilder ==
  [idOrAddress |-> ContractPath,
   timestamp |-> Instants(AllOps)]

ContractResultsListQueryBuilder ==
  [timestamp |-> Instants(AllOps),
   from |-> Bare(Add(Rule("from"), AllOps), Rule("from")),
   blockHash |-> Add(Rule("hash"), EqualOps),
   blockNumber |-> Add(OfOps(Rule("block"), EqualOps), EqualOps),
   internal |-> Set(Flag),
   hbar |-> Set(Flag),
   transactionIndex |-> Add(OfOps(Decimals(0, MaxInt32), {}), {}),
   order |-> Sorting]

\* Mutant: the class keeps the hbar method of the class it was copied from.
ContractResultsByContractQueryBuilder_WithHbar ==
  [idOrAddress |-> ContractPath] @@ ContractResultsListQueryBuilder

ContractResultsByContractQueryBuilder ==
  [idOrAddress |-> ContractPath,
   timestamp |-> Instants(AllOps),
   from |-> Bare(Add(Rule("from"), AllOps), Rule("from")),
   blockHash |-> Add(Rule("hash"), EqualOps),
   blockNumber |-> Add(OfOps(Rule("block"), EqualOps), EqualOps),
   internal |-> Set(Flag),
   transactionIndex |-> Add(OfOps(Decimals(0, MaxInt32), {}), {}),
   order |-> Sorting]

ContractResultByTimestampQueryBuilder ==
  [idOrAddress |-> ContractPath,
   timestamp |-> Path(OfOps(Rule("timestamp"), {})),
   hbar |-> Set(Flag)]

ContractResultByTransactionQueryBuilder ==
  [transactionIdOrHash |-> Path(Rule("transaction")),
   nonce |-> Add(OfOps(Decimals(0, MaxInt32), {}), {}),
   hbar |-> Set(Flag)]

\* A timestamp is checked alone when it is added, and the list when the query is built.
ContractLogsListQueryBuilder ==
  [topic0 |-> Add(Rule("topic"), {}),
   topic1 |-> Add(Rule("topic"), {}),
   timestamp |-> Bare(Instants(NoNeOps), OfOps(Rule("timestamp"), {})),
   index |-> Add(LogIndex, NoNeOps),
   transactionHash |-> [Set(Times(Rule("hash"), 1)) EXCEPT !.fluent = EqualOps],
   order |-> Sorting]

ContractLogsByContractQueryBuilder ==
  [idOrAddress |-> ContractPath,
   topic0 |-> Add(Rule("topic"), {}),
   topic1 |-> Add(Rule("topic"), {}),
   timestamp |-> Bare(Instants(NoNeOps), OfOps(Rule("timestamp"), {})),
   index |-> Add(LogIndex, NoNeOps),
   order |-> Sorting]

ContractStateQueryBuilder ==
  [idOrAddress |-> ContractPath,
   slot |-> Add(Rule("slot"), NoNeOps),
   timestamp |-> Instants(NoNeOps),
   order |-> Sorting]

\* Most of a call is left to the mapper.
ContractCallRequestBuilder ==
  [to |-> Path(Rule("evm")),
   from |-> Set(Nullable(Rule("evm"))),
   data |-> Set(Rule("any")),
   block |-> Set(Rule("any")),
   estimate |-> Set(Nullable(Flag)),
   gas |-> Set(Rule("any")),
   gasPrice |-> Set(Rule("any")),
   value |-> Set(Rule("any"))]

ContractActionsQueryBuilder ==
  [transactionIdOrHash |-> Path(Rule("transaction")),
   index |-> Add(OfOps(Decimals(0, MaxInt32), NoNeOps), NoNeOps),
   order |-> Sorting]

ContractOpcodesQueryBuilder ==
  [transactionIdOrHash |-> Path(Rule("transaction")),
   stack |-> Set(Flag),
   memory |-> Set(Flag),
   storage |-> Set(Flag)]

\* Checked by the calls too, which refuse the second of the two.
OneBlockFilter(q) == q.blockHash = <<>> \/ q.blockNumber = <<>>

ContractResults_build(q) ==
  /\ OneBlockFilter(q)
  /\ q.transactionIndex # <<>> => q.blockHash # <<>> \/ q.blockNumber # <<>>

ContractLogs_build(q) ==
  /\ enforceTopicTimestampWindow(q.timestamp, q.topic0 # <<>> \/ q.topic1 # <<>>)
  /\ q.timestamp # <<>> =>
       Accepts(q.timestamp, Structured(OfOps(Rule("timestamp"), NoNeOps)))
  /\ IndexFollowsTime(q.index, q.timestamp)
==============================================================================
