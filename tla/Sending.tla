------------------------------- MODULE Sending -------------------------------
(***************************************************************************)
(* eth_sendTransaction, eth_sendRawTransaction, the pending                *)
(* eth_getTransactionCount and eth_getTransactionByHash, from              *)
(* rpc/backend/evm_backend.go, rpc/backend/utils.go and                    *)
(* rpc/namespaces/ethereum/eth/api.go, by several callers at once and      *)
(* against a mempool from which blocks are committed.                      *)
(*                                                                         *)
(* A transaction is its sender, its first nonce and how many messages it   *)
(* has, all of one sender.  The mempool and the index are Tendermint's.    *)
(***************************************************************************)
EXTENDS Integers, Sequences, FiniteSets, SequencesExt

CONSTANTS
  Account,   \* senders
  Caller,    \* requests
  None,      \* not an account
  PerPage,   \* transactions UnconfirmedTxs answers with
  MaxNonce   \* bound on the sequences

ASSUME SendingAssumption == PerPage \in Nat /\ MaxNonce \in Nat /\ None \notin Account

VARIABLES
  committed,  \* sequences of the last committed state
  check,      \* sequences of the state CheckTx works on
  mempool,    \* the transactions accepted
  taken,      \* while the mempool is locked: how many of them the block has
  call        \* the requests: stage, sender, nonce, transaction looked for and
              \* where it is; if a block or a transaction of the sender came
              \* since the start, and if a pending one was lost

vars == <<committed, check, mempool, taken, call>>

Unlocked == -1
Transaction == [from : Account, nonce : 0 .. MaxNonce, count : 1 .. 2]
noCall == [stage |-> "idle", from |-> None, nonce |-> 0, tx |-> None, place |-> "mempool",
           disturbed |-> FALSE, lost |-> FALSE]
Active == {c \in Caller : call[c].stage \in {"account", "pending", "filled", "index", "mempool"}}

Init ==
  /\ committed = [a \in Account |-> 0] /\ check = committed
  /\ mempool = <<>> /\ taken = Unlocked
  /\ call = [c \in Caller |-> noCall]

-----------------------------------------------------------------------------
(* EthIncrementSenderSequence of the ante handler.                         *)
Accepted(seq, tx) == seq[tx.from] = tx.nonce
Spent_once(seq, tx) == [seq EXCEPT ![tx.from] = @ + 1]   \* faulty variant: per transaction
Spent(seq, tx) == [seq EXCEPT ![tx.from] = @ + tx.count]

(* Other requests for the same sender are disturbed by a transaction.      *)
Disturb(cs, a, self) ==
  [c \in Caller |-> IF c \in Active \ {self} /\ cs[c].from = a
                    THEN [cs[c] EXCEPT !.disturbed = TRUE] ELSE cs[c]]

AddToMempool(tx) ==
  /\ mempool' = Append(mempool, tx)
  /\ check' = Spent(check, tx)

(* A transaction that comes from another node.                             *)
Gossip(tx) ==
  /\ taken = Unlocked /\ Accepted(check, tx) /\ check[tx.from] + tx.count <= MaxNonce
  /\ AddToMempool(tx)
  /\ call' = Disturb(call, tx.from, None)
  /\ UNCHANGED <<committed, taken>>

(* A block with the first n transactions of the mempool, and before them   *)
(* perhaps one it does not know.  One may not find the funds it needs.     *)
(* The mempool is locked until it is updated.                              *)
Commit(n, foreign, poor) ==
  LET before == IF foreign = None THEN committed ELSE [committed EXCEPT ![foreign] = @ + 1]
      run == FoldLeft(LAMBDA r, tx :
                        IF Accepted(r.seq, tx) /\ tx # poor
                        THEN [seq |-> Spent(r.seq, tx), txs |-> r.txs \cup {tx}] ELSE r,
                      [seq |-> before, txs |-> {}], SubSeq(mempool, 1, n))
      failed == {mempool[i].from : i \in {j \in 1 .. n : mempool[j] \notin run.txs}}
  IN /\ taken = Unlocked /\ \A a \in Account : before[a] <= MaxNonce
     /\ taken' = n
     /\ committed' = run.seq /\ check' = run.seq
     /\ call' = [c \in Caller |->
                   IF c \notin Active THEN call[c]
                   ELSE [call[c] EXCEPT !.disturbed = TRUE,
                                        !.place = IF call[c].tx \in run.txs THEN "block" ELSE @,
                                        !.lost = @ \/ call[c].from \in failed]]
     /\ UNCHANGED mempool

(* The rest of the mempool is checked again; again one may lack funds.     *)
UpdateMempool(poor) ==
  LET rest == SubSeq(mempool, taken + 1, Len(mempool))
      run == FoldLeft(LAMBDA r, tx :
                        IF Accepted(r.seq, tx) /\ tx # poor
                        THEN [seq |-> Spent(r.seq, tx), txs |-> Append(r.txs, tx)] ELSE r,
                      [seq |-> committed, txs |-> <<>>], rest)
      dropped == {rest[i].from : i \in {j \in DOMAIN rest : rest[j] \notin Range(run.txs)}}
  IN /\ taken # Unlocked
     /\ taken' = Unlocked /\ mempool' = run.txs /\ check' = run.seq
     /\ call' = [c \in Caller |-> IF c \in Active /\ call[c].from \in dropped
                                  THEN [call[c] EXCEPT !.lost = TRUE] ELSE call[c]]
     /\ UNCHANGED committed

(* The transaction a request looks for is indexed, some time after its     *)
(* block.                                                                  *)
IndexTx(c) ==
  /\ call[c].place = "block"
  /\ call' = [call EXCEPT ![c].place = "index"]
  /\ UNCHANGED <<committed, check, mempool, taken>>

-----------------------------------------------------------------------------
(* PendingTransactions: the first page, once the mempool is not locked.    *)
PendingTransactions == SubSeq(mempool, 1, IF Len(mempool) < PerPage THEN Len(mempool) ELSE PerPage)
CutOff == Len(mempool) > PerPage

pendingOf_txs(txs, a) ==   \* faulty variant: a transaction counts once
  Cardinality({i \in DOMAIN txs : txs[i].from = a})
pendingOf_all(txs, a) ==   \* faulty variant: whoever the sender is
  FoldLeft(LAMBDA n, tx : n + tx.count, 0, txs)

(* The pending messages of a sender.                                       *)
pendingOf(txs, a) ==
  FoldLeft(LAMBDA n, tx : IF tx.from = a THEN n + tx.count ELSE n, 0, txs)

End(stage) == [noCall EXCEPT !.stage = stage]
Go(c, rec) ==
  /\ call' = [call EXCEPT ![c] = rec]
  /\ UNCHANGED <<committed, check, mempool, taken>>

(* SendTransaction without a nonce.                                        *)
SendTransaction(c, a) ==
  /\ call[c].stage = "idle"
  /\ Go(c, [noCall EXCEPT !.stage = "account", !.from = a])

(* getAccountNonce asks for the account first.  SetTxDefaults takes an     *)
(* error for an account that does not exist.                               *)
ReadAccount(c) ==
  /\ call[c].stage = "account"
  /\ \/ Go(c, [call[c] EXCEPT !.stage = "pending", !.nonce = committed[call[c].from]])
     \/ Go(c, [call[c] EXCEPT !.stage = "filled", !.disturbed = TRUE])

(* ... and then for the mempool.  An error leaves the nonce as it is.      *)
ReadPending(c) ==
  /\ call[c].stage = "pending"
  /\ \/ /\ taken = Unlocked
        /\ Go(c, [call[c] EXCEPT !.stage = "filled", !.disturbed = @ \/ CutOff,
                    !.nonce = @ + pendingOf(PendingTransactions, call[c].from)])
     \/ Go(c, [call[c] EXCEPT !.stage = "filled", !.disturbed = TRUE])

(* The gas estimate, the signature, the encoding or CheckTx fails for      *)
(* another reason than the nonce; or the request was GetTransactionCount   *)
(* or FillTransaction.                                                     *)
EndUnsent(c) ==
  /\ call[c].stage = "filled"
  /\ Go(c, noCall)

(* BroadcastTx, and with it CheckTx.  A caller may then ask again.          *)
Broadcast(c, tx, refusal) ==
  /\ taken = Unlocked
  /\ \/ /\ Accepted(check, tx) /\ tx.nonce < MaxNonce
        /\ AddToMempool(tx)
        /\ call' = [Disturb(call, tx.from, c) EXCEPT ![c] = noCall]
     \/ /\ ~Accepted(check, tx)
        /\ call' = [call EXCEPT ![c] = refusal]
        /\ UNCHANGED <<check, mempool>>
  /\ UNCHANGED <<committed, taken>>

BroadcastTx(c) ==
  /\ call[c].stage = "filled"
  /\ Broadcast(c, [from |-> call[c].from, nonce |-> call[c].nonce, count |-> 1],
                  [End("refused") EXCEPT !.disturbed = call[c].disturbed])

(* SendRawTransaction, and SendTransaction with a nonce: nothing is read.  *)
SendRawTransaction(c, a, n) ==
  /\ call[c].stage = "idle"
  /\ Broadcast(c, [from |-> a, nonce |-> n, count |-> 1], noCall)

-----------------------------------------------------------------------------
(* GetTransactionByHash, for a transaction in the mempool or in a block.   *)
GetTransactionByHash(c, tx, place) ==
  /\ call[c].stage = "idle"
  /\ Go(c, [noCall EXCEPT !.stage = "index", !.tx = tx, !.place = place,
                          !.disturbed = (taken # Unlocked \/ place = "block")])

LookupIndex_only(c) ==   \* faulty variant: no second look
  /\ call[c].stage = "index"
  /\ Go(c, IF call[c].place = "index" THEN noCall
           ELSE [call[c] EXCEPT !.stage = "missing"])

LookupIndex(c) ==
  /\ call[c].stage = "index"
  /\ Go(c, IF call[c].place = "index" THEN noCall
           ELSE [call[c] EXCEPT !.stage = "mempool"])

(* An error of PendingTransactions is answered with no transaction.        *)
LookupMempool(c) ==
  /\ call[c].stage = "mempool"
  /\ \/ /\ taken = Unlocked
        /\ Go(c, IF call[c].tx \in Range(PendingTransactions) THEN noCall
                 ELSE [End("missing") EXCEPT !.disturbed = call[c].disturbed \/ CutOff])
     \/ Go(c, [End("missing") EXCEPT !.disturbed = TRUE])

Next ==
  \/ \E tx \in Transaction : Gossip(tx)
  \/ \E n \in 0 .. Len(mempool), foreign \in Account \cup {None} :
       \E poor \in Range(SubSeq(mempool, 1, n)) \cup {None} : Commit(n, foreign, poor)
  \/ \E poor \in Range(mempool) \cup {None} : UpdateMempool(poor)
  \/ \E c \in Caller :
       \/ \E a \in Account : SendTransaction(c, a)
       \/ \E a \in Account, n \in 0 .. MaxNonce : SendRawTransaction(c, a, n)
       \/ ReadAccount(c) \/ ReadPending(c) \/ EndUnsent(c) \/ BroadcastTx(c)
       \/ \E tx \in Range(mempool) : GetTransactionByHash(c, tx, "mempool")
       \/ \E place \in {"block", "index"} : GetTransactionByHash(c, None, place)
       \/ LookupIndex(c) \/ LookupMempool(c) \/ IndexTx(c)

Spec == Init /\ [][Next]_vars

-----------------------------------------------------------------------------
(* Outside of a commit the state CheckTx works on is the committed one     *)
(* plus the messages in the mempool, through blocks with transactions the  *)
(* mempool does not know and transactions that are dropped from it: what   *)
(* getAccountNonce rests on.                                               *)
CheckStateCounted ==
  taken = Unlocked => \A a \in Account : check[a] = committed[a] + pendingOf(mempool, a)

(* A nonce getAccountNonce gives is never beyond the next one, whatever is *)
(* committed between its two reads and after them, unless a transaction    *)
(* it counted failed or was dropped: the account is read before the        *)
(* mempool.                                                                *)
NonceNeverAhead ==
  \A c \in Caller :
    call[c].stage = "filled" /\ ~call[c].lost /\ taken = Unlocked =>
      call[c].nonce <= check[call[c].from]

(* SendTransaction without a nonce is refused only if a query failed, the  *)
(* mempool is longer than a page, or a block or another transaction of the *)
(* sender came in since it started.                                        *)
UndisturbedAccepted ==
  \A c \in Caller : call[c].stage = "refused" => call[c].disturbed

(* GetTransactionByHash finds a transaction that was in the first page of  *)
(* the mempool or indexed when it started, unless the mempool cannot be    *)
(* read or a block came in between its two lookups.                        *)
FoundUnlessMoved ==
  \A c \in Caller : call[c].stage = "missing" => call[c].disturbed

(* LockAddr: "This is used to prevent another tx getting the same nonce    *)
(* until the lock is released": no two requests for a sender are given the *)
(* same nonce while both are to be sent.                                   *)
NonceGivenOnce ==
  \A c, d \in Caller :
    c # d /\ call[c].stage = "filled" /\ call[d].stage = "filled"
    /\ call[c].from = call[d].from => call[c].nonce # call[d].nonce

=============================================================================
