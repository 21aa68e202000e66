------------------------------ MODULE LogSearch ------------------------------
(***************************************************************************)
(* eth_getLogs and eth_getFilterLogs: GetLogs of                           *)
(* rpc/namespaces/ethereum/eth/filters/api.go, Filter.Logs of filters.go   *)
(* and FilterLogs of utils.go, while the chain grows.                      *)
(***************************************************************************)
EXTENDS Chain

CONSTANTS
  Criteria,       \* what a client searches for: addresses and topics
  Address, Topic, \* what a bloom may hold
  LogsCap,        \* bound of the configuration on the logs of one answer
  BlockRangeCap,  \* bound of the configuration on the blocks of one search
  maxToOverhang   \* how far beyond the head a search may end

ASSUME CapsAssumption == {LogsCap, BlockRangeCap, maxToOverhang} \subseteq Nat

VARIABLES
  search  \* the request: its stage, range, criteria, next block, and logs

noSearch == [stage |-> "idle", from |-> 0, to |-> 0, height |-> 0, logs |-> <<>>,
             crit |-> [addresses |-> {}, topics |-> <<>>]]

SearchInit == search = noSearch

-----------------------------------------------------------------------------
(* FilterLogs for one log: an empty rule set is a wildcard.                *)
Matches(log, crit) ==
  /\ crit.addresses # {} => log.address \in crit.addresses
  /\ Len(crit.topics) <= Len(log.topics)
  /\ \A i \in DOMAIN crit.topics :
       crit.topics[i] # {} => log.topics[i] \in crit.topics[i]

FilterLogs(logs, crit) == SelectSeq(logs, LAMBDA log : Matches(log, crit))

bloomFilter_all(bloom, crit) ==   \* faulty variant: every address has to be there
  /\ crit.addresses \subseteq bloom
  /\ \A i \in DOMAIN crit.topics : crit.topics[i] # {} => crit.topics[i] \cap bloom # {}

bloomFilter(bloom, crit) ==
  /\ crit.addresses # {} => crit.addresses \cap bloom # {}
  /\ \A i \in DOMAIN crit.topics : crit.topics[i] # {} => crit.topics[i] \cap bloom # {}

(* A bloom answers yes for what went into it and perhaps for more.         *)
InBloom(h) ==
  LET logs == BlockLogs(h)
  IN UNION {{logs[i].address} \cup Range(logs[i].topics) : i \in DOMAIN logs}
Blooms(h) == {InBloom(h), Address \cup Topic}

blockLogs(h, bloom, crit) ==
  IF bloomFilter(bloom, crit) THEN FilterLogs(BlockLogs(h), crit) ELSE <<>>

-----------------------------------------------------------------------------
(* A bound of the range: none, latest and pending are the head, earliest   *)
(* is the first block.                                                     *)
resolve(bn, head) == IF bn < 0 THEN head ELSE IF bn = 0 THEN 1 ELSE bn

tooWide(from, to) == to - from > BlockRangeCap

(* GetLogs with a range, up to the loop over the blocks: the head is read  *)
(* once, and the range is cut off some way beyond it.                      *)
GetLogs(begin, end, crit) ==
  LET from == resolve(begin, app)
      to == resolve(end, app)
  IN /\ search.stage = "idle"
     /\ search' = [search EXCEPT
          !.stage = IF app = 0 \/ tooWide(from, to) THEN "failed"
                    ELSE IF from > app THEN "beyond" ELSE "searching",
          !.crit = crit, !.from = from, !.height = from,
          !.to = IF from <= app /\ to > app + maxToOverhang THEN app + maxToOverhang ELSE to]

(* ... and with the hash of a block: one block and no limits.              *)
GetLogsOfBlock(h, crit) ==
  /\ search.stage = "idle"
  /\ \/ /\ ~(HasBlock(h) /\ HasState(h))
        /\ search' = [search EXCEPT !.stage = "failed"]
     \/ /\ HasBlock(h) /\ HasState(h)
        /\ \E bloom \in Blooms(h) :
             search' = [search EXCEPT !.stage = "foundBlock", !.crit = crit, !.from = h,
                          !.to = h, !.logs = blockLogs(h, bloom, crit)]

(* One iteration of the loop; results that are not there are an error.     *)
SearchBlock ==
  LET h == search.height
  IN /\ search.stage = "searching" /\ h <= search.to
     /\ IF ~HasResults(h) THEN search' = [search EXCEPT !.stage = "failed"]
        ELSE \E bloom \in Blooms(h) :
               LET filtered == blockLogs(h, bloom, search.crit)
               IN search' = IF Len(search.logs) + Len(filtered) > LogsCap
                            THEN [search EXCEPT !.stage = "failed"]
                            ELSE [search EXCEPT !.height = h + 1, !.logs = @ \o filtered]

EndLogSearch ==
  /\ search.stage = "searching" /\ search.height > search.to
  /\ search' = [search EXCEPT !.stage = "found"]

SearchNext ==
  \/ \E begin, end \in BlockNumbers, crit \in Criteria : GetLogs(begin, end, crit)
  \/ \E h \in 1 .. MaxHeight, crit \in Criteria : GetLogsOfBlock(h, crit)
  \/ SearchBlock \/ EndLogSearch

-----------------------------------------------------------------------------
(* A search that answers, answers with every matching log of the blocks of *)
(* its range, in their order, and no other: the bloom never hides one, and *)
(* blocks that come while it runs neither enter nor shift the range.  The  *)
(* answer to a range search stays within the limits of the configuration.  *)
SearchComplete ==
  search.stage \in {"found", "foundBlock"} =>
    LET all == FlattenSeq([i \in 1 .. search.to - search.from + 1 |->
                             BlockLogs(search.from + i - 1)])
    IN /\ search.logs = SelectSeq(all, LAMBDA log : Matches(log, search.crit))
       /\ search.stage = "found" => /\ Len(search.logs) <= LogsCap
                                    /\ search.to - search.from <= BlockRangeCap

=============================================================================
