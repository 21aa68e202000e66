------------------------------- MODULE TxArgs -------------------------------
(***************************************************************************)
(* The arguments of eth_sendTransaction and eth_fillTransaction:           *)
(* SetTxDefaults of rpc/backend/utils.go, and the two things made of the   *)
(* filled arguments, a transaction (ToTransaction) and the message of a    *)
(* simulated call (ToMessage of x/evm/types/tx_args.go).  Also the price   *)
(* eth_gasPrice suggests.                                                  *)
(*                                                                         *)
(* Nil is an argument left out.  Sending models the nonce.                 *)
(***************************************************************************)
EXTENDS Chain

CONSTANTS
  Args,             \* arguments a client may give
  GasLimits,        \* what an estimate of the gas may give
  RPCGasCap,        \* gas cap of simulated calls, 0 for none
  RPCMinGasPrice,   \* price of the node's configuration
  MinGasPriceParam, \* the parameter of the fee market
  DecScale,         \* an sdk.Dec is an integer, this many to the unit
  Elasticity,       \* ElasticityMultiplier of the fee market
  Denominator,      \* BaseFeeChangeDenominator of the fee market
  FullBlock         \* gas limit of a block

feeFields == {"gasPrice", "maxFeePerGas", "maxPriorityFeePerGas"}
argFields == feeFields \cup {"to", "gas", "data", "input", "accessList"}

ASSUME ArgsAssumption ==
  \A a \in Args :
    /\ a = [f \in argFields |-> a[f]]
    /\ \A f \in feeFields \cup {"gas"} : a[f] \in Nat \cup {Nil}
    /\ \A f \in {"data", "input"} : a[f] # Nil => Len(a[f]) \in Nat
ASSUME PriceAssumption ==
  /\ RPCGasCap \in Nat /\ GasLimits \subseteq Nat \ {0}
  /\ RPCMinGasPrice \in Nat /\ MinGasPriceParam \in Nat
  /\ {DecScale, Elasticity, Denominator, FullBlock} \subseteq Nat \ {0}
  /\ FullBlock = Elasticity * (FullBlock \div Elasticity)
ASSUME BaseFeeAssumption ==
  Nil \notin Nat /\ \A b \in Block : b.baseFee \in Nat \cup {Nil}

VARIABLES
  fill  \* the request: stage, arguments as given and as filled, base fee of the
        \* head, height of the state the gas was estimated on, price suggested

noFill == [stage |-> "idle", given |-> Nil, args |-> Nil, baseFee |-> Nil,
           state |-> 0, price |-> 0]

FillInit == fill = noFill
FillFails == fill' = [fill EXCEPT !.stage = "failed"]

-----------------------------------------------------------------------------
(* Fees.                                                                   *)

positive(x) == IF x < 0 THEN 0 ELSE x

SuggestGasTipCap_none(baseFee) == 0   \* faulty variant: no reserve for a higher base fee

SuggestGasTipCap(baseFee) ==
  IF baseFee = Nil THEN 0 ELSE positive((baseFee * (Elasticity - 1)) \div Denominator)

(* CurrentHeader: the base fee of the head; it is nil before London.       *)
HasHead == HasState(TendermintHeight(EthLatestBlockNumber))
HeadBaseFee == chain[TendermintHeight(EthLatestBlockNumber)].baseFee

(* eth_gasPrice: at least the minimum of the fee market, of which BigInt   *)
(* gives the integer behind the decimal.                                   *)
GasPrice(baseFee) ==
  LET result == IF baseFee = Nil THEN RPCMinGasPrice
                ELSE SuggestGasTipCap(baseFee) + baseFee
      minGasPriceInt == MinGasPriceParam * DecScale
  IN IF result < minGasPriceInt THEN minGasPriceInt ELSE result

SuggestGasPrice ==
  /\ fill.stage = "idle" /\ HasHead
  /\ fill' = [fill EXCEPT !.stage = "suggested", !.baseFee = HeadBaseFee,
                          !.price = GasPrice(HeadBaseFee)]

mixesFees(a) == a.gasPrice # Nil /\ (a.maxFeePerGas # Nil \/ a.maxPriorityFeePerGas # Nil)

(* The fees the caller left out.  With a base fee a transaction without    *)
(* gas price has dynamic fees.                                             *)
withFees(a, baseFee) ==
  LET tip == IF a.maxPriorityFeePerGas = Nil THEN SuggestGasTipCap(baseFee)
             ELSE a.maxPriorityFeePerGas
  IN IF a.maxPriorityFeePerGas # Nil /\ a.maxFeePerGas # Nil THEN a
     ELSE IF baseFee # Nil /\ a.gasPrice = Nil
     THEN [a EXCEPT !.maxPriorityFeePerGas = tip,
                    !.maxFeePerGas = IF @ = Nil THEN tip + 2 * baseFee ELSE @]
     ELSE [a EXCEPT !.gasPrice = IF @ = Nil THEN SuggestGasTipCap(baseFee) ELSE @]

(* One of the dynamic fees without a base fee, or a tip above the cap.     *)
feesRefused(a, baseFee) ==
  LET given == {f \in feeFields \ {"gasPrice"} : a[f] # Nil}
      filled == withFees(a, baseFee)
  IN \/ baseFee = Nil /\ Cardinality(given) = 1
     \/ /\ filled.maxFeePerGas # Nil /\ filled.maxPriorityFeePerGas # Nil
        /\ filled.maxFeePerGas < filled.maxPriorityFeePerGas

-----------------------------------------------------------------------------
(* SetTxDefaults reads the head ...                                        *)
SetTxDefaults(a) ==
  /\ fill.stage = "idle"
  /\ IF mixesFees(a) \/ ~HasHead THEN FillFails
     ELSE fill' = [fill EXCEPT !.stage = "defaults", !.given = a, !.args = a,
                               !.baseFee = HeadBaseFee]

payloadRefused(a) ==
  \/ a.data # Nil /\ a.input # Nil /\ a.data # a.input
  \/ /\ a.to = Nil
     /\ <<>> = IF a.data # Nil THEN a.data ELSE IF a.input # Nil THEN a.input ELSE <<>>

(* ... fills what it can ...                                               *)
FillDefaults ==
  /\ fill.stage = "defaults"
  /\ IF feesRefused(fill.args, fill.baseFee) \/ payloadRefused(fill.args) THEN FillFails
     ELSE fill' = [fill EXCEPT !.args = withFees(@, fill.baseFee),
                     !.stage = IF fill.args.gas = Nil THEN "estimate" ELSE "filled"]

(* ... and has the gas estimated for block number 0.                       *)
EstimateDefault ==
  /\ fill.stage = "estimate"
  /\ \/ FillFails
     \/ /\ HasState(Int64(0))
        /\ \E gas \in GasLimits :
             fill' = [fill EXCEPT !.args.gas = gas, !.stage = "filled", !.state = Int64(0)]

FillNext ==
  \/ SuggestGasPrice
  \/ \E a \in Args : SetTxDefaults(a)
  \/ FillDefaults \/ EstimateDefault

fillVars == <<chainVars, fill>>

(* A request on its own, while the chain grows.                            *)
FillSpec ==
  /\ ChainInit /\ FillInit
  /\ [][\/ ChainNext /\ UNCHANGED fill
        \/ FillNext /\ UNCHANGED chainVars]_fillVars

-----------------------------------------------------------------------------
(* What is made of the arguments.                                          *)

GetData(a) == IF a.input # Nil THEN a.input ELSE IF a.data # Nil THEN a.data ELSE <<>>

ToTransaction(a) ==
  LET dynamic == a.maxFeePerGas # Nil
      type == IF dynamic THEN "dynamic" ELSE IF a.accessList # Nil THEN "accessList"
              ELSE "legacy"
  IN [type |-> type, to |-> a.to, gas |-> a.gas, data |-> GetData(a),
      cap |-> IF dynamic THEN a.maxFeePerGas ELSE a.gasPrice,
      tip |-> IF dynamic THEN a.maxPriorityFeePerGas ELSE a.gasPrice,
      accesses |-> IF a.accessList = Nil THEN <<>> ELSE a.accessList]

(* Validate of the three types of transaction.                             *)
Validate(tx) == {tx.cap, tx.tip} \subseteq Nat /\ tx.tip <= tx.cap

least(x, y) == IF x <= y THEN x ELSE y

(* The price a transaction pays: GetEffectiveGasPrice, or the gas price.   *)
EffectivePrice(tx, baseFee) ==
  IF tx.type = "dynamic" THEN least(tx.tip + baseFee, tx.cap) ELSE tx.cap

ToMessage(a, globalGasCap, baseFee) ==
  LET value(f) == IF a[f] = Nil THEN 0 ELSE a[f]
      cap == value("maxFeePerGas")
      tip == value("maxPriorityFeePerGas")
      dynamic == baseFee # Nil /\ a.gasPrice = Nil
  IN [to |-> a.to, data |-> GetData(a),
      gas |-> IF globalGasCap = 0 THEN a.gas ELSE least(a.gas, globalGasCap),
      price |-> IF ~dynamic THEN value("gasPrice")
                ELSE IF cap = 0 /\ tip = 0 THEN 0 ELSE least(tip + baseFee, cap),
      cap |-> IF dynamic THEN cap ELSE value("gasPrice"),
      tip |-> IF dynamic THEN tip ELSE value("gasPrice"),
      accesses |-> IF a.accessList = Nil THEN <<>> ELSE a.accessList]

-----------------------------------------------------------------------------
(* "calculate the maximum base fee delta in current block, assuming all    *)
(* block gas limit is consumed" (SuggestGasTipCap), as the fee market      *)
(* computes it.                                                            *)
MaxDelta(baseFee) ==
  LET GasTarget == FullBlock \div Elasticity
  IN ((baseFee * (FullBlock - GasTarget)) \div GasTarget) \div Denominator

(* Arguments SetTxDefaults has filled keep what the caller gave, make a    *)
(* transaction that validates, and make the same of it for a simulated     *)
(* call: with the base fee of the head, ToMessage and the transaction come *)
(* to the same price, caps and payload, though each decides on its own     *)
(* which fees count.                                                       *)
(* The prices the node chooses, here and in eth_gasPrice, also pay the     *)
(* base fee of the block after the head, which is the next the transaction *)
(* can be in.                                                              *)
FilledTxSound ==
  /\ fill.stage = "filled" =>
       LET tx == ToTransaction(fill.args)
           msg == ToMessage(fill.args, RPCGasCap, fill.baseFee)
           chosen == \A f \in feeFields : fill.given[f] = Nil
       IN /\ Validate(tx)
          /\ \A f \in DOMAIN fill.args : fill.given[f] \in {Nil, fill.args[f]}
          /\ <<tx.to, tx.data, tx.accesses>> = <<msg.to, msg.data, msg.accesses>>
          /\ RPCGasCap = 0 \/ tx.gas <= RPCGasCap => tx.gas = msg.gas
          /\ fill.baseFee # Nil =>
               /\ <<msg.cap, msg.tip>> = <<tx.cap, tx.tip>>
               /\ msg.price = EffectivePrice(tx, fill.baseFee)
               /\ chosen => tx.cap >= fill.baseFee + MaxDelta(fill.baseFee)
  /\ fill.stage = "suggested" /\ fill.baseFee # Nil =>
       fill.price >= fill.baseFee + MaxDelta(fill.baseFee)

(* Backend.EstimateGas: "if the provided height is 0, it will return an    *)
(* empty context and the gRPC query will use the latest block height for   *)
(* querying".  The gas of a transaction comes from the latest state.       *)
GasOfLatestState ==
  fill.stage = "filled" /\ fill.given.gas = Nil /\ app > 1 => fill.state > 1

=============================================================================
