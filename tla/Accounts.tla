------------------------------ MODULE Accounts ------------------------------
(***************************************************************************)
(* The accounts of the wallet: the address book, the current key of an     *)
(* account, moves between accounts, balances by account, the order of the  *)
(* transactions and their listing, groups of addresses, and the load of an *)
(* old wallet.dat.  RPC calls hold cs_main and cs_wallet; a crash may come *)
(* between two writes of one.  An account with a name of 64 bytes is the   *)
(* account of a branch: its coins are spent by payments from it only.      *)
(***************************************************************************)
EXTENDS Integers, Sequences, SequencesExt, FiniteSetsExt

CONSTANTS
    Account, Branch,        \* accounts, and those with a name of 64 bytes
    Key,                    \* keys of the pool, in their order: 1 .. n
    Tx, Ins, Outs,          \* outputs spent, and amounts and keys (or 0) paid
    ChangeKey,              \* the key of the change, for payments of ours
    Amounts, MaxPos,        \* of moves; bound of positions for moves and restarts
    OldWallets              \* old wallets: items and their positions, by time

VARIABLES
    name,                   \* mapAddressBook: account of a key, or NoName
    acc,                    \* records "acc": the current key of an account, or 0
    nextKey,                \* first key still in the pool
    entries,                \* records "acentry"
    nAccountingEntryNumber,
    wtx,                    \* mapWallet: strFromAccount and nOrderPos
    nOrderPosNext, posOnDisk,
    depth,                  \* in the main chain: 1, 0, or -1 if conflicted
    mixed                   \* accounts whose coins and amounts went separate ways

vars == <<name, acc, nextKey, entries, nAccountingEntryNumber, wtx, nOrderPosNext,
          posOnDisk, depth, mixed>>

Default == ""
NoName == "(none)"
Entry == [account : Account, no : Nat, amount : Int, pos : Int]

AccountsAssumption ==
    /\ Default \in Account /\ NoName \notin Account /\ Branch \subseteq Account \ {Default}
    /\ Key = 1 .. Cardinality(Key) /\ ChangeKey \notin Key
    /\ Outs \in [Tx -> Seq([to : {0, ChangeKey} \cup Key, nValue : Nat \ {0}])]
    /\ \A t \in Tx : Ins[t] \subseteq (Tx \X Nat)
    /\ Amounts \subseteq Nat \ {0} /\ MaxPos \in Nat

TypeOK ==
    /\ name \in [Key \cup {ChangeKey} -> Account \cup {NoName}]
    /\ acc \in [Account -> Key \cup {0}]
    /\ entries \subseteq Entry
    /\ DOMAIN wtx \subseteq Tx /\ \A t \in DOMAIN wtx : wtx[t].from \in Account
    /\ depth \in [Tx -> {-1, 0, 1}]
    /\ mixed \subseteq Account

-----------------------------------------------------------------------------
(* Amounts.                                                                 *)

Ours(o) == o.to # 0
AccountOf(k) == IF name[k] = NoName THEN Default ELSE name[k]
IsChange(o) == Ours(o) /\ name[o.to] = NoName
OutsOf(t) == DOMAIN Outs[t]
Sum(t, S) == MapThenSumSet(LAMBDA i : Outs[t][i].nValue, S)

GetDebit(t) ==
    MapThenSumSet(LAMBDA i : IF i[1] \in DOMAIN wtx /\ Ours(Outs[i[1]][i[2]])
                             THEN Outs[i[1]][i[2]].nValue ELSE 0, Ins[t])
IsFromMe(t) == GetDebit(t) > 0

\* GetAmounts: what is neither change nor foreign is received, and if we are
\* debited everything but the change is sent.
ListSent(t) == IF IsFromMe(t) THEN {i \in OutsOf(t) : ~IsChange(Outs[t][i])} ELSE {}
ListReceived(t) ==
    {i \in OutsOf(t) : Ours(Outs[t][i]) /\ (IsFromMe(t) => ~IsChange(Outs[t][i]))}
Fee(t) == IF IsFromMe(t) THEN GetDebit(t) - Sum(t, OutsOf(t)) ELSE 0

ReceivedBy(t, a) == Sum(t, {i \in ListReceived(t) : AccountOf(Outs[t][i].to) = a})
SentBy(t, a) == IF wtx[t].from = a THEN Sum(t, ListSent(t)) + Fee(t) ELSE 0

CreditDebit(a) == MapThenSumSet(LAMBDA e : IF e.account = a THEN e.amount ELSE 0, entries)

GetAccountBalance(a, nMinDepth) ==
    MapThenSumSet(LAMBDA t : (IF depth[t] >= nMinDepth THEN ReceivedBy(t, a) ELSE 0) - SentBy(t, a),
                  {t \in DOMAIN wtx : depth[t] >= 0})
    + CreditDebit(a)

IsTrusted(t) ==
    \/ depth[t] = 1
    \/ /\ depth[t] = 0 /\ IsFromMe(t)
       /\ \A i \in Ins[t] : i[1] \in DOMAIN wtx /\ Ours(Outs[i[1]][i[2]])

\* getbalance "*"
TotalBalance(nMinDepth) ==
    MapThenSumSet(LAMBDA t : (IF depth[t] >= nMinDepth THEN Sum(t, ListReceived(t)) ELSE 0)
                             - Sum(t, ListSent(t)) - Fee(t),
                  {t \in DOMAIN wtx : IsTrusted(t)})

IsSpent(t, i) == \E u \in DOMAIN wtx : <<t, i>> \in Ins[u] /\ depth[u] >= 0
Unspent(t) == {i \in OutsOf(t) : Ours(Outs[t][i]) /\ ~IsSpent(t, i)}

GetBalance ==
    MapThenSumSet(LAMBDA t : Sum(t, Unspent(t)), {t \in DOMAIN wtx : IsTrusted(t)})

\* AvailableCoins: a payment from a named account takes the coins of its
\* addresses, one from the default account all but those of branches.
InAccount(a, k) ==
    IF a = Default THEN AccountOf(k) \notin Branch ELSE AccountOf(k) = a
AvailableCoins(a) ==
    UNION {{<<t, i>> : i \in {j \in Unspent(t) : InAccount(a, Outs[t][j].to)}} :
           t \in {t \in DOMAIN wtx : IsTrusted(t)}}

\* The coins of the addresses of an account, spendable by now or not.
CoinsOf(a) ==
    MapThenSumSet(LAMBDA t : Sum(t, {i \in Unspent(t) : AccountOf(Outs[t][i].to) = a}),
                  {t \in DOMAIN wtx : depth[t] >= 0})

\* listaccounts, for the accounts that it lists and zero for the others.
ListAccounts(nMinDepth) ==
    LET Add(m, a, n) == [m EXCEPT ![a] = @ + n]
        Tally(t, m) ==
            LET sent == FoldSet(LAMBDA i, n : Add(n, wtx[t].from, -Outs[t][i].nValue),
                                Add(m, wtx[t].from, -Fee(t)), ListSent(t))
            IN  IF depth[t] < nMinDepth THEN sent
                ELSE FoldSet(LAMBDA i, n : Add(n, AccountOf(Outs[t][i].to), Outs[t][i].nValue),
                             sent, ListReceived(t))
    IN  FoldSet(LAMBDA e, m : Add(m, e.account, e.amount),
                FoldSet(Tally, [a \in Account |-> 0], {t \in DOMAIN wtx : depth[t] >= 0}),
                entries)

-----------------------------------------------------------------------------
(* Listing.                                                                 *)

\* OrderedTxItems with the entries of one account, or of all ("*"), the newest
\* first.
OrderedTxItems(account) ==
    LET listed == {e \in entries : account \in {"*", e.account}}
        At(pos) == {[tx |-> t, pos |-> pos] : t \in {t \in DOMAIN wtx : wtx[t].pos = pos}}
                   \cup {[entry |-> e, pos |-> pos] : e \in {e \in listed : e.pos = pos}}
    IN  FlattenSeq([i \in 1 .. nOrderPosNext |-> SetToSeq(At(nOrderPosNext - i))])

\* ListTransactions and AcentryToJSON
Lines(item, account) ==
    IF "entry" \in DOMAIN item THEN <<<<"move", item.entry>>>>
    ELSE LET t == item.tx
             send == IF account \in {"*", wtx[t].from} THEN ListSent(t) ELSE {}
             receive == IF depth[t] < 0 THEN {}
                        ELSE {i \in ListReceived(t) : account \in {"*", AccountOf(Outs[t][i].to)}}
         IN  SetToSortSeq({<<"send", t, i>> : i \in send}, LAMBDA x, y : x[3] < y[3])
             \o SetToSortSeq({<<"receive", t, i>> : i \in receive}, LAMBDA x, y : x[3] < y[3])

\* The loop stops when it has enough lines; the rest are cut off at both ends.
listtransactions(account, nCount, nFrom) ==
    LET items == OrderedTxItems(account)
        ret == FoldLeft(LAMBDA r, item : IF Len(r) >= nCount + nFrom THEN r
                                         ELSE r \o Lines(item, account), <<>>, items)
        from == Min({nFrom, Len(ret)})
        count == IF from + nCount > Len(ret) THEN Len(ret) - from ELSE nCount
    IN  Reverse(SubSeq(ret, from + 1, from + count))

\* GetAddressGroupings: the inputs and the change of a transaction, and single
\* addresses; then groups with a common address are merged, one by one.
Grouped ==
    LET mineIn(t) == {Outs[i[1]][i[2]].to : i \in {i \in Ins[t] : i[1] \in DOMAIN wtx /\ Ours(Outs[i[1]][i[2]])}}
        change(t) == {Outs[t][i].to : i \in {i \in OutsOf(t) : IsChange(Outs[t][i])}}
    IN  {mineIn(t) \cup change(t) : t \in {t \in DOMAIN wtx : mineIn(t) # {}}}
        \cup UNION {{{Outs[t][i].to} : i \in {i \in OutsOf(t) : Ours(Outs[t][i])}} : t \in DOMAIN wtx}

Merge(g, groups) ==
    LET hits == {h \in groups : h \cap g # {}}
    IN  (groups \ hits) \cup {g \cup UNION hits}
GetAddressGroupings == FoldSet(Merge, {}, Grouped)

-----------------------------------------------------------------------------
(* The load of an old wallet.                                               *)

\* ReorderTransactions gives positions to the items of w, by time, that have none
\* (-1), and moves later ones behind them.
ReorderTransactions(w) ==
    FoldLeft(LAMBDA s, pos :
                 IF pos = -1
                 THEN [next |-> s.next + 1, offsets |-> Append(s.offsets, s.next),
                       pos |-> Append(s.pos, s.next)]
                 ELSE LET off == Len(SelectSeq(s.offsets, LAMBDA start : pos >= start))
                      IN  [next |-> Max({s.next, pos + off + 1}), offsets |-> s.offsets,
                           pos |-> Append(s.pos, pos + off)],
             [next |-> 0, offsets |-> <<>>, pos |-> <<>>], w)

\* LoadWallet: the counters are read, the entries counted.
Load(numbers) ==
    /\ nOrderPosNext' = posOnDisk'
    /\ nAccountingEntryNumber' = Max({0} \cup numbers)
Numbers == {e.no : e \in entries}

-----------------------------------------------------------------------------
(* The address book.                                                        *)

Book == [name |-> name, acc |-> acc, nextKey |-> nextKey]
IsBook(s) == name' = s.name /\ acc' = s.acc /\ nextKey' = s.nextKey
SetAddressBook(s, k, a) == [s EXCEPT !.name[k] = a]
GetKeyFromPool(s, a) == [SetAddressBook(s, s.nextKey, a) EXCEPT !.nextKey = @ + 1]

PaysKey(t, k) == \E i \in OutsOf(t) : Outs[t][i].to = k
KeyUsed(k) == \E t \in DOMAIN wtx : PaysKey(t, k)
NeedsKey(s, a, bForceNew) == s.acc[a] = 0 \/ bForceNew \/ KeyUsed(s.acc[a])

GetAccountAddress(s, a, bForceNew) ==
    IF NeedsKey(s, a, bForceNew)
    THEN [GetKeyFromPool(s, a) EXCEPT !.acc[a] = s.nextKey]
    ELSE s

\* What a crash leaves before the name, or the record of the account, is written.
HalfNew(s) == [s EXCEPT !.nextKey = @ + 1]
Halfway(s, a, bForceNew) ==
    IF NeedsKey(s, a, bForceNew) THEN {HalfNew(s), GetKeyFromPool(s, a)} ELSE {}

\* A key that was paid before gets another account.
Relabelled ==
    LET moved == {k \in DOMAIN name : KeyUsed(k) /\ name'[k] # name[k]}
    IN  mixed' = mixed \cup UNION {{AccountOf(k), name'[k]} : k \in moved}

amountVars == <<entries, wtx, posOnDisk, depth>>
counters == <<nOrderPosNext, nAccountingEntryNumber>>

getnewaddress(a) ==
    /\ nextKey \in Key
    /\ UNCHANGED amountVars
    /\ \/ IsBook(GetKeyFromPool(Book, a)) /\ UNCHANGED counters
       \/ IsBook(HalfNew(Book)) /\ Load(Numbers)
    /\ Relabelled

getaccountaddress(a) ==
    /\ nextKey \in Key
    /\ UNCHANGED amountVars
    /\ \/ IsBook(GetAccountAddress(Book, a, FALSE)) /\ UNCHANGED counters
       \/ \E s \in Halfway(Book, a, FALSE) : IsBook(s) /\ Load(Numbers)
    /\ Relabelled

\* A key that is the current one of its account is replaced there first.
setaccount(k, a) ==
    LET old == name[k]
        s1 == GetAccountAddress(Book, old, FALSE)
        s2 == IF s1.acc[old] = k THEN GetAccountAddress(s1, old, TRUE) ELSE s1
        half == Halfway(Book, old, FALSE) \cup IF s1.acc[old] = k THEN Halfway(s1, old, TRUE) ELSE {}
    IN  /\ k < nextKey \/ (k = ChangeKey /\ KeyUsed(k))
        /\ old # NoName => {nextKey, nextKey + 1} \subseteq Key
        /\ UNCHANGED amountVars
        /\ \/ IsBook(SetAddressBook(IF old = NoName THEN Book ELSE s2, k, a)) /\ UNCHANGED counters
           \/ old # NoName /\ (\E s \in half \cup {s1, s2} : IsBook(s)) /\ Load(Numbers)
        /\ Relabelled

-----------------------------------------------------------------------------
(* Moves, payments and receipts.                                            *)

\* Both entries and the counter are one database transaction; if it cannot be
\* committed the counters in memory have moved on. Faulty variant: each write for
\* itself, and a crash after the first entry.
FaultyMoved(new) == {{e \in new : e.amount < 0}, new}

Moved(new) == {new}

movecmd(from, to, n) ==
    LET entry(a, i, amount) == [account |-> a, no |-> nAccountingEntryNumber + i,
                                amount |-> amount, pos |-> nOrderPosNext + i - 1]
    IN  /\ nOrderPosNext + 2 <= MaxPos
        /\ nOrderPosNext' = nOrderPosNext + 2
        /\ nAccountingEntryNumber' = nAccountingEntryNumber + 2
        /\ \/ \E new \in Moved({entry(from, 1, -n), entry(to, 2, n)}) : entries' = entries \cup new
              /\ posOnDisk' = nOrderPosNext' /\ mixed' = mixed \cup {from, to}
           \/ UNCHANGED <<entries, posOnDisk, mixed>>
        /\ UNCHANGED <<name, acc, nextKey, wtx, depth>>

\* AddToWallet for a new transaction
IncOrderPosNext == nOrderPosNext' = nOrderPosNext + 1 /\ posOnDisk' = nOrderPosNext'
Added(t, a) == [u \in DOMAIN wtx \cup {t} |->
    IF u = t THEN [from |-> a, pos |-> nOrderPosNext] ELSE wtx[u]]
Strays(t, a) ==
    LET others == {AccountOf(Outs[i[1]][i[2]].to) :
                    i \in {i \in Ins[t] : i[1] \in DOMAIN wtx /\ Ours(Outs[i[1]][i[2]])}} \ {a}
    IN  IF others = {} THEN {} ELSE others \cup {a}
PaidBy(t) == Sum(t, {i \in OutsOf(t) : Outs[t][i].to # ChangeKey})
Conflicts(t, u) == t # u /\ Ins[t] \cap Ins[u] # {}

\* sendtoaddress, sendfrom, and sendmany, which leaves the change without account.
\* A crash may come before the label is written.
Pay(t, a, call) ==
    /\ t \notin DOMAIN wtx /\ depth[t] = 0 /\ Ins[t] # {} /\ Ins[t] \subseteq AvailableCoins(a)
    /\ \A i \in OutsOf(t) : Outs[t][i].to \in Key => ~IsChange(Outs[t][i])
    /\ call = "sendtoaddress" => a = Default
    /\ call # "sendtoaddress" => PaidBy(t) <= GetAccountBalance(a, 1)
    /\ call # "sendmany" => PaidBy(t) <= GetBalance
    /\ IncOrderPosNext /\ wtx' = Added(t, a)
    /\ IF call = "sendmany" \/ a = Default
       THEN /\ mixed' = mixed \cup Strays(t, a) \cup IF call = "sendmany" THEN {a} ELSE {}
            /\ UNCHANGED <<name, nAccountingEntryNumber>>
       ELSE \/ /\ name' = [name EXCEPT ![ChangeKey] = IF PaysKey(t, ChangeKey) THEN a ELSE @]
               /\ UNCHANGED <<mixed, nAccountingEntryNumber>>
            \/ mixed' = mixed \cup {a} /\ nAccountingEntryNumber' = Max({0} \cup Numbers)
               /\ UNCHANGED name
    /\ UNCHANGED <<acc, nextKey, entries, depth>>

\* The process dies in AddToWallet, after the counter is written.
PayCrashes(t, a) ==
    /\ t \notin DOMAIN wtx /\ depth[t] = 0 /\ Ins[t] # {} /\ Ins[t] \subseteq AvailableCoins(a)
    /\ nOrderPosNext + 1 <= MaxPos
    /\ posOnDisk' = nOrderPosNext + 1 /\ Load(Numbers)
    /\ UNCHANGED <<name, acc, nextKey, entries, wtx, depth, mixed>>

\* A transaction comes from the network.
Arrive(t) ==
    /\ t \notin DOMAIN wtx /\ depth[t] = 0
    /\ \A u \in DOMAIN wtx : depth[u] >= 0 => ~Conflicts(t, u)
    /\ \A i \in Ins[t] : i[1] \in DOMAIN wtx /\ depth[i[1]] >= 0
    /\ IncOrderPosNext /\ wtx' = Added(t, Default) /\ mixed' = mixed \cup Strays(t, Default)
    /\ UNCHANGED <<name, acc, nextKey, entries, nAccountingEntryNumber, depth>>

Needs(t) == {i[1] : i \in Ins[t]}
Conflicted(t) ==
    LET direct == {u \in Tx : Conflicts(t, u)}
    IN  direct \cup {u \in Tx : Needs(u) \cap direct # {}}

\* A block confirms t, and what conflicts with it leaves the pool.
Confirm(t) ==
    /\ depth[t] # 1 /\ \A u \in Needs(t) : depth[u] = 1
    /\ \A u \in Tx : Conflicts(t, u) => depth[u] # 1
    /\ depth' = [u \in Tx |-> IF u = t THEN 1 ELSE IF u \in Conflicted(t) THEN -1 ELSE depth[u]]
    /\ IF t \in DOMAIN wtx THEN UNCHANGED <<nOrderPosNext, posOnDisk, wtx, mixed>>
       ELSE IncOrderPosNext /\ wtx' = Added(t, Default) /\ mixed' = mixed \cup Strays(t, Default)
    /\ UNCHANGED <<name, acc, nextKey, entries, nAccountingEntryNumber>>

\* The block of t is disconnected, and t returns to the pool.
Disconnect(t) ==
    /\ depth[t] = 1 /\ \A u \in Tx : t \in Needs(u) => depth[u] # 1
    /\ depth' = [depth EXCEPT ![t] = 0]
    /\ UNCHANGED <<name, acc, nextKey, entries, counters, wtx, posOnDisk, mixed>>

\* -zapwallettxes: all transactions are erased, the confirmed ones found again by
\* the rescan with new positions, and, unless a crash or mode 2 prevents it, what
\* the chain does not know is restored.
Zap(restore) ==
    /\ posOnDisk + Cardinality({t \in DOMAIN wtx : depth[t] = 1}) <= MaxPos
    /\ \E found \in SetToSeqs({t \in DOMAIN wtx : depth[t] = 1}) :
        LET scanned(i) == [from |-> Default, pos |-> posOnDisk + i - 1]
            at(t) == CHOOSE i \in DOMAIN found : found[i] = t
        IN  /\ wtx' = [t \in ToSet(found) |-> IF restore THEN wtx[t] ELSE scanned(at(t))]
            /\ posOnDisk' = posOnDisk + Len(found)
    /\ Load(Numbers)
    /\ mixed' = IF restore THEN mixed ELSE Account
    /\ UNCHANGED <<name, acc, nextKey, entries, depth>>

Restart ==
    /\ UNCHANGED <<name, acc, nextKey, entries, wtx, posOnDisk, depth, mixed>>
    /\ Load(Numbers)

Init ==
    /\ name = [k \in Key \cup {ChangeKey} |-> NoName] /\ acc = [a \in Account |-> 0]
    /\ nextKey = 1 /\ entries = {} /\ nAccountingEntryNumber = 0
    /\ wtx = <<>> /\ nOrderPosNext = 0 /\ posOnDisk = 0
    /\ depth = [t \in Tx |-> 0] /\ mixed = {}

Next ==
    \/ \E a \in Account : getnewaddress(a) \/ getaccountaddress(a)
    \/ \E k \in Key \cup {ChangeKey}, a \in Account : setaccount(k, a)
    \/ \E a, b \in Account, n \in Amounts : movecmd(a, b, n)
    \/ \E t \in Tx, a \in Account :
        \/ \E call \in {"sendtoaddress", "sendfrom", "sendmany"} : Pay(t, a, call)
        \/ PayCrashes(t, a)
    \/ \E t \in Tx : Arrive(t) \/ Confirm(t) \/ Disconnect(t)
    \/ \E restore \in BOOLEAN : Zap(restore)
    \/ Restart

Spec == Init /\ [][Next]_vars

-----------------------------------------------------------------------------
(* Properties.                                                              *)

\* The current key of an account is in the address book under its name, whatever
\* setaccount moves and wherever a crash comes.
CurrentKeyOwned == \A a \in Account : acc[a] # 0 => name[acc[a]] = a

\* Moves cancel out: what the accounts have together is what getbalance "*" shows.
AccountsAddUp ==
    /\ MapThenSumSet(CreditDebit, Account) = 0
    /\ MapThenSumSet(LAMBDA a : GetAccountBalance(a, 1), Account) = TotalBalance(1)

\* getbalance and listaccounts compute the same balances.
ListedBalances ==
    \A n \in {0, 1} : ListAccounts(n) = [a \in Account |-> GetAccountBalance(a, n)]

\* rpcwallet.cpp: "getbalance and getbalance '*' 0 should return the same number".
SameBalance == GetBalance = TotalBalance(0)

\* ... which they do unless a trusted transaction spends one that is not.
SameBalanceIfTrusted ==
    (\A t \in DOMAIN wtx : IsTrusted(t) => \A u \in Needs(t) \cap DOMAIN wtx : IsTrusted(u))
    => SameBalance

\* The balance of a branch's account is in coins that only it can spend, as long as
\* nothing but addresses and payments changed it.
BranchBacked ==
    \A a \in Branch \ mixed : GetAccountBalance(a, 0) = CoinsOf(a)

\* No two transactions or entries share a position, nor will a new one, also after
\* a crash; listtransactions sorts by them.
PositionsDistinct ==
    LET items == OrderedTxItems("*")
    IN  /\ \A i, j \in DOMAIN items : i # j => items[i].pos # items[j].pos
        /\ \A i \in DOMAIN items : items[i].pos < posOnDisk
        /\ posOnDisk <= nOrderPosNext
        /\ \A e, f \in entries : e.no = f.no => e = f

\* listtransactions returns the lines asked for of the whole list, by account too.
PagesExact ==
    \A a \in Account \cup {"*"} :
        LET all == listtransactions(a, 99, 0)
            page(count, from) == SubSeq(all, Max({1, Len(all) - from - count + 1}), Len(all) - from)
        IN  \A p \in {<<1, 0>>, <<1, 1>>, <<2, 1>>} :
                listtransactions(a, p[1], p[2]) = page(p[1], p[2])

\* listaddressgroupings: addresses are in one group exactly if transactions link them.
GroupingsExact ==
    LET groups == GetAddressGroupings
        Linked(S) == UNION {g \in Grouped : g \cap S # {}}
    IN  /\ UNION groups = UNION Grouped
        /\ \A g, h \in groups : g = h \/ g \cap h = {}
        /\ \A g \in groups : Linked(g) = g /\ \A S \in SUBSET g \ {{}, g} : Linked(S) # S

\* ReorderTransactions: positions are distinct, nOrderPosNext is behind them, items
\* that had one keep their order, and one that had none is behind all earlier ones.
ReorderSound ==
    \A w \in OldWallets :
        LET new == ReorderTransactions(w)
        IN  /\ \A i, j \in DOMAIN w :
                /\ i # j => new.pos[i] # new.pos[j]
                /\ w[i] # -1 /\ w[j] # -1 /\ w[i] < w[j] => new.pos[i] < new.pos[j]
                /\ i < j /\ w[j] = -1 => new.pos[i] < new.pos[j]
            /\ \A i \in DOMAIN w : new.pos[i] < new.next

\* A transaction keeps its account and its position, except in -zapwallettxes=2.
RecordsKept == \A t \in DOMAIN wtx \cap DOMAIN wtx' : wtx'[t] = wtx[t] \/ mixed' = Account
=============================================================================
