------------------------------- MODULE Mappers -------------------------------
(***************************************************************************)
(* The mappers of resources/*/mapper.ts: one table per method, from the    *)
(* field of the query object to its rule, the request parameter it         *)
(* becomes, what of it enters the cache key of the method, and what of it  *)
(* the Mirror Node reads (a parser of one value takes the last).  Unknown  *)
(* fields are refused: a table has no entry for them.                      *)
(***************************************************************************)
EXTENDS Filters

Field(rule, param) ==
  [rule |-> rule, as |-> param, required |-> FALSE, key |-> "none",
   reads |-> IF rule.most = 1 THEN "last" ELSE "all"]
PathField(rule) == [Field(rule, "path") EXCEPT !.required = TRUE]
Required(field) == [field EXCEPT !.required = TRUE]
\* "all" values enter the key, the "last" one, the "set" of them in any order, or the
\* value with its case "folded".
Keyed(field, how) == [field EXCEPT !.key = how]
LastCounts(field) == [field EXCEPT !.reads = "last"]

KeyedPath(rule) == Keyed(PathField(rule), "all")
Sorted == Field(Order, "order")
Timestamps(ops) == Field(OfOps(Rule("timestamp"), ops), "timestamp")

------------------------------------------------------------------------------
(***************************************************************************)
(* resources/accounts/mapper.ts                                            *)
(***************************************************************************)
Accounts_list ==
  [accountId |-> Field(Rule("entityOrEvm"), "account.id"),
   accountBalance |-> Field(Decimals(0, MaxLong), "account.balance"),
   accountPublicKey |-> Field(AnyText, "account.publickey"),
   includeBalance |-> Field(Times(Flag, Most), "balance"),
   order |-> Sorted]

Accounts_one ==
  [idOrAliasOrEvmAddress |-> KeyedPath(Rule("anyAccount")),
   timestamp |-> Keyed(Timestamps(AllOps), "all"),
   transactiontype |-> Keyed(Field(AnyText, "transactiontype"), "all"),
   transactions |-> Keyed(Field(Flag, "transactions"), "all"),
   order |-> Keyed(Sorted, "all")]

Accounts_hooks ==
  [idOrAliasOrEvmAddress |-> PathField(Rule("javaAccount")),
   hookId |-> Field(Times(OfOps(JavaLong(0), NoNeOps), Most), "hook.id"),
   order |-> Sorted]

Accounts_hookStorage ==
  [idOrAliasOrEvmAddress |-> PathField(Rule("javaAccount")),
   hookId |-> PathField(Times(OfOps(JavaLong(0), {}), 1)),
   key |-> Field(Rule("key"), "key"),
   timestamp |-> Field(JavaTimes, "timestamp"),
   order |-> Sorted]

Accounts_cryptoAllowances ==
  [idOrAliasOrEvmAddress |-> PathField(Rule("anyAccount")),
   spenderId |-> Field(OfOps(Rule("entityOrEvm"), NoNeOps), "spender.id"),
   order |-> Sorted]

Accounts_tokenAllowances ==
  [idOrAliasOrEvmAddress |-> PathField(Rule("anyAccount")),
   spenderId |-> Field(Structured(OfOps(Rule("entityOrEvm"), NoNeOps)), "spender.id"),
   tokenId |-> Field(Structured(OfOps(Rule("token"), NoNeOps)), "token.id"),
   order |-> Sorted]

Accounts_nftAllowances ==
  [idOrAliasOrEvmAddress |-> PathField(Rule("javaAccount")),
   view |-> Field(Flag, "owner"),
   counterpartyId |-> Field(Primary(Ordered(Structured(OfOps(EntityRange, NoNeOps)))), "account.id"),
   tokenId |-> Field(Structured(OfOps(EntityRange, NoNeOps)), "token.id"),
   order |-> Sorted]

Accounts_accountTokens ==
  [idOrAliasOrEvmAddress |-> PathField(Rule("anyAccount")),
   tokenId |-> Field(OfOps(Rule("token"), NoNeOps), "token.id"),
   order |-> Sorted]

Accounts_accountNftsOwned ==
  [idOrAliasOrEvmAddress |-> PathField(Rule("anyAccount")),
   tokenId |-> Field(Structured(OfOps(Rule("token"), NoNeOps)), "token.id"),
   serialNumber |-> Field(Structured(OfOps(Decimals(1, MaxLong), NoNeOps)), "serialnumber"),
   spenderId |-> Field(Bounded(OfOps(Rule("entityOrEvm"), NoNeOps)), "spender.id"),
   order |-> Sorted]

Accounts_rewards ==
  [idOrAliasOrEvmAddress |-> PathField(Rule("anyAccount")),
   timestamp |-> Timestamps(NoNeOps),
   order |-> Sorted]

Accounts_outstandingAirdrops ==
  [idOrAliasOrEvmAddress |-> PathField(Rule("javaAccount")),
   receiverId |-> Field(Primary(Ordered(OfOps(EntityRange, NoNeOps))), "receiver.id"),
   tokenId |-> Field(OfOps(EntityRange, NoNeOps), "token.id"),
   serialNumber |-> Field(OfOps(JavaLong(0), NoNeOps), "serialnumber"),
   order |-> Sorted]

Accounts_pendingAirdrops ==
  [idOrAliasOrEvmAddress |-> PathField(Rule("javaAccount")),
   senderId |-> Field(Primary(Ordered(OfOps(EntityRange, NoNeOps))), "sender.id"),
   tokenId |-> Field(OfOps(EntityRange, NoNeOps), "token.id"),
   serialNumber |-> Field(OfOps(JavaLong(0), NoNeOps), "serialnumber"),
   order |-> Sorted]

tokenAllowances_across(q) == PagesWithin(q.tokenId, q.spenderId)

\* A token range may be reversed only where the account has both bounds.
nftAllowances_across(q) ==
  LET accountHasLowerAndUpper == /\ CountOf(q.counterpartyId, Lower) > 0
                                 /\ CountOf(q.counterpartyId, Upper) > 0
  IN  /\ PagesWithin(q.tokenId, q.counterpartyId)
      /\ ~accountHasLowerAndUpper => OrderedBounds(q.tokenId, EntityRange)

accountNftsOwned_across(q) == PagesWithin(q.serialNumber, q.tokenId)

------------------------------------------------------------------------------
(***************************************************************************)
(* resources/balances, blocks, topics and tokens.                          *)
(***************************************************************************)
Balances_list ==
  [accountId |-> Field(Rule("account"), "account.id"),
   accountBalance |-> Field(Decimals(0, MaxLong), "account.balance"),
   accountPublicKey |-> Field(AnyText, "account.publickey"),
   timestamp |-> Timestamps(AllOps),
   order |-> Sorted]

Blocks_list ==
  [blockNumber |-> Field(OfOps(Rule("block"), NoNeOps), "block.number"),
   timestamp |-> Timestamps(AllOps),
   order |-> Sorted]

Blocks_one == [hashOrNumber |-> KeyedPath(Rule("blockId"))]

Topics_topicOne == [topicId |-> KeyedPath(Rule("entity"))]

Topics_messagesList ==
  [topicId |-> PathField(Rule("entity")),
   encoding |-> Field(Choice(0 .. 2), "encoding"),
   sequenceNumber |-> Field(OfOps(Decimals(1, MaxLong), NoNeOps), "sequencenumber"),
   timestamp |-> Timestamps(NoNeOps),
   order |-> Sorted]

Topics_messageBySequence ==
  [topicId |-> KeyedPath(Rule("entity")),
   sequenceNumber |-> KeyedPath(Exactly(1, MaxLong))]

Topics_messageByTimestamp == [timestamp |-> KeyedPath(OfOps(Rule("timestamp"), {}))]

Tokens_list ==
  [accountId |-> Field(OfOps(Rule("entityOrEvm"), {}), "account.id"),
   tokenId |-> Field(Rule("token"), "token.id"),
   publicKey |-> Field(AnyText, "publickey"),
   name |-> Field(Choice(3 .. 100), "name"),
   type |-> Field(Times(Choice(1 .. 200), Most), "type"),
   order |-> Sorted]

\* The Mirror Node keeps the last timestamp, and so does the key.
Tokens_one ==
  [tokenId |-> KeyedPath(OfOps(Rule("token"), {})),
   timestamp |-> Keyed(LastCounts(Timestamps(EqualOrLessOps)), "last")]

Tokens_balances ==
  [tokenId |-> PathField(OfOps(Rule("token"), {})),
   accountId |-> Field(Rule("entityOrEvm"), "account.id"),
   accountPublicKey |-> Field(AnyText, "account.publickey"),
   accountBalance |-> Field(Decimals(0, MaxLong), "account.balance"),
   timestamp |-> Timestamps(AllOps),
   order |-> Sorted]

Tokens_nftsList ==
  [tokenId |-> PathField(OfOps(Rule("token"), {})),
   accountId |-> Field(Rule("entityOrEvm"), "account.id"),
   serialNumber |-> Field(Decimals(1, MaxLong), "serialnumber"),
   order |-> Sorted]

Tokens_nftOne ==
  [tokenId |-> KeyedPath(OfOps(Rule("token"), {})),
   serialNumber |-> KeyedPath(Exactly(1, MaxLong))]

Tokens_nftTx ==
  [tokenId |-> PathField(OfOps(Rule("token"), {})),
   serialNumber |-> PathField(Exactly(1, MaxLong)),
   timestamp |-> Timestamps(AllOps),
   order |-> Sorted]

Tokens_list_across(q) == q.name # <<>> => q.accountId = <<>> /\ q.tokenId = <<>>
------------------------------------------------------------------------------
(***************************************************************************)
(* resources/network, schedules and transactions.                          *)
(***************************************************************************)
\* The order of two timestamps enters the key too: timestampCacheFragment.
KeyedTimes == Keyed(Field(JavaTimes, "timestamp"), "all")

\* A Mirror Node reads the kind of supply in any case, and so does the key.
Network_supply ==
  [timestamp |-> KeyedTimes,
   q |-> [Keyed(Field(Choice({0, 1}), "q"), "folded") EXCEPT !.reads = "folded"]]

Network_fees == [timestamp |-> Field(JavaTimes, "timestamp"), order |-> Sorted]

Network_exchangeRate == [timestamp |-> KeyedTimes]

RangedNode == [OfOps(JavaLong(0), NoNeOps) EXCEPT !.rejectLtZero = TRUE, !.ordered = TRUE]

Network_nodes ==
  [fileId |-> Field(Times(OfOps(Rule("entityRange"), EqualOps), 1),
                    "file.id"),
   nodeId |-> Field(Times(RangedNode, Most), "node.id"),
   order |-> Sorted]

Network_estimateFees ==
  [transaction |-> Required(Field(Word({0}), "body")),
   mode |-> Field(Choice({0, 1}), "mode"),
   highVolumeThrottle |-> Field(Word(0 .. 10000), "high_volume_throttle"),
   contentType |-> Field(Choice({0, 1}), "content-type")]

Network_registeredNodes ==
  [registeredNodeId |-> Field([RangedNode EXCEPT !.alone = TRUE], "registerednode.id"),
   type |-> Field(Choice(0 .. 4), "type"),
   order |-> Sorted]

Schedules_list ==
  [accountId |-> Field(Rule("entityOrEvm"), "account.id"),
   scheduleId |-> Field(Rule("entityOrEvm"), "schedule.id"),
   order |-> Sorted]

Schedules_one == [scheduleId |-> KeyedPath(Rule("entity"))]

Transactions_list ==
  [accountId |-> Field(Rule("entityOrEvm"), "account.id"),
   timestamp |-> Timestamps(AllOps),
   transactiontype |-> Field(AnyText, "transactiontype"),
   result |-> Field(Choice({0, 1}), "result"),
   type |-> Field(Choice({0, 1}), "type"),
   order |-> Sorted]

\* Only the last nonce is sent; the Mirror Node reads the last flag.
Transactions_byId ==
  [transactionId |-> KeyedPath(Rule("hederaTransaction")),
   nonce |-> Keyed(LastCounts(Field(OfOps(Decimals(0, MaxInt32), {}), "nonce")), "last"),
   scheduled |-> Keyed(LastCounts(Field(Times(Flag, Most), "scheduled")), "last")]
------------------------------------------------------------------------------
(***************************************************************************)
(* resources/contracts/mapper.ts                                           *)
(***************************************************************************)
Contracts_list == [contractId |-> Field(Rule("contract"), "contract.id"), order |-> Sorted]

AContract == OfOps(Rule("contractPath"), {})

\* Mutant: the key keeps the last timestamp only, as the key of a token does.
Contracts_one_KeyOfLast ==
  [idOrAddress |-> KeyedPath(AContract),
   timestamp |-> [Keyed(Timestamps(AllOps), "last") EXCEPT !.reads = "set"]]

\* Several timestamps bound one instant: their order enters neither the key nor the answer.
Contracts_one ==
  [idOrAddress |-> KeyedPath(AContract),
   timestamp |-> [Keyed(Timestamps(AllOps), "sorted") EXCEPT !.reads = "set"]]

Contracts_resultsList ==
  [timestamp |-> Timestamps(AllOps),
   from |-> Field(Rule("from"), "from"),
   blockHash |-> LastCounts(Field(Rule("hash"), "block.hash")),
   blockNumber |-> LastCounts(Field(OfOps(Rule("block"), EqualOps), "block.number")),
   internal |-> Field(Flag, "internal"),
   hbar |-> Field(Flag, "hbar"),
   transactionIndex |-> Field(OfOps(Decimals(0, MaxInt32), {}), "transaction.index"),
   order |-> Sorted]

Contracts_resultsByContract ==
  [idOrAddress |-> PathField(AContract),
   timestamp |-> Timestamps(AllOps),
   from |-> Field(Rule("from"), "from"),
   blockHash |-> LastCounts(Field(Rule("hash"), "block.hash")),
   blockNumber |-> LastCounts(Field(OfOps(Rule("block"), EqualOps), "block.number")),
   internal |-> Field(Flag, "internal"),
   transactionIndex |-> Field(OfOps(Decimals(0, MaxInt32), {}), "transaction.index"),
   order |-> Sorted]

\* hbar is true where it is left out; only a false one enters the key.
Hbar == [Keyed(Field(Flag, "hbar"), "falsehood") EXCEPT !.reads = "falsehood"]

Contracts_resultByTransaction ==
  [transactionIdOrHash |-> KeyedPath(Rule("transaction")),
   nonce |-> Keyed(LastCounts(Field(OfOps(Decimals(0, MaxInt32), {}), "nonce")), "last"),
   hbar |-> Hbar]

Contracts_resultByTimestamp ==
  [idOrAddress |-> KeyedPath(AContract),
   timestamp |-> KeyedPath(OfOps(Rule("timestamp"), {})),
   hbar |-> Hbar]

LogTimes == Field(Structured(OfOps(Rule("timestamp"), NoNeOps)), "timestamp")

Contracts_logsList ==
  [topic0 |-> Field(Rule("topic"), "topic0"),
   topic1 |-> Field(Rule("topic"), "topic1"),
   timestamp |-> LogTimes,
   index |-> Field(LogIndex, "index"),
   transactionHash |-> Field(Times(Rule("hash"), 1), "transaction.hash"),
   order |-> Sorted]

Contracts_logsByContract ==
  [idOrAddress |-> PathField(AContract),
   topic0 |-> Field(Rule("topic"), "topic0"),
   topic1 |-> Field(Rule("topic"), "topic1"),
   timestamp |-> LogTimes,
   index |-> Field(LogIndex, "index"),
   order |-> Sorted]

Contracts_stateQuery ==
  [idOrAddress |-> PathField(AContract),
   slot |-> Field(Rule("slot"), "slot"),
   timestamp |-> Timestamps(NoNeOps),
   order |-> Sorted]

HexLengths == {n \in 1 .. 262144 : n % 2 = 0}

\* data is counted in hex digits; block is 1 for "latest", 0 for another tag or number.
Contracts_callQuery ==
  [to |-> Required(Field(Rule("evm"), "to")),
   from |-> Field(Nullable(Rule("evm")), "from"),
   data |-> Field(Nullable(Choice(HexLengths)), "data"),
   block |-> Field(Nullable(Choice({0, 1})), "block"),
   estimate |-> Field(Nullable(Flag), "estimate"),
   gas |-> Field(Nullable(Exactly(0, MaxLong)), "gas"),
   gasPrice |-> Field(Nullable(Exactly(0, MaxLong)), "gasPrice"),
   value |-> Field(Nullable(Exactly(0, MaxLong)), "value")]

Contracts_actionsByResult ==
  [transactionIdOrHash |-> PathField(Rule("transaction")),
   index |-> Field(OfOps(Decimals(0, MaxInt32), NoNeOps), "index"),
   order |-> Sorted]

Contracts_opcodes ==
  [transactionIdOrHash |-> PathField(Rule("transaction")),
   stack |-> Field(Flag, "stack"),
   memory |-> Field(Flag, "memory"),
   storage |-> Field(Flag, "storage")]

results_across(q) ==
  /\ q.blockHash = <<>> \/ q.blockNumber = <<>>
  /\ q.transactionIndex # <<>> => q.blockHash # <<>> \/ q.blockNumber # <<>>

logs_across(q) ==
  /\ enforceTopicTimestampWindow(q.timestamp, q.topic0 # <<>> \/ q.topic1 # <<>>)
  /\ IndexFollowsTime(q.index, q.timestamp)

callQuery_across(q) ==
  (q.estimate # <<>> /\ q.estimate[1].kind = "plain" /\ q.estimate[1].v = 1)
    => q.block = <<>> \/ q.block[1].kind = "null" \/ q.block[1].v = 1
==============================================================================
