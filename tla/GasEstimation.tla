---------------------------- MODULE GasEstimation ----------------------------
(***************************************************************************)
(* eth_estimateGas: EstimateGas of x/evm/keeper/grpc_query.go with its     *)
(* binary search, BinSearch of x/evm/types/utils.go.  The message is run   *)
(* without commit on one state, with one gas limit after the other.  What  *)
(* a run gives is a function of the limit and of nothing else; it need not *)
(* be monotone, for a contract can see the gas it has left.                *)
(***************************************************************************)
EXTENDS Integers

CONSTANTS
  TxGas,   \* gas every transaction costs at least
  GasCap,  \* gas cap of the server's configuration
  GasArg,  \* gas limits a caller may give, NoGas among them
  MaxGas,  \* block gas limits, 0 or less for none
  Uint64   \* integers are taken modulo this

NoGas == -1    \* args.Gas is nil

ASSUME GasAssumption == TxGas \in Nat \ {0} /\ GasCap \in Nat /\ Uint64 \in Nat
ASSUME ArgAssumption == GasArg \subseteq Nat \cup {NoGas} /\ MaxGas \subseteq Int
(* The sum of two limits below the cap does not wrap.  The default cap is  *)
(* 25000000.                                                               *)
ASSUME WidthAssumption == 2 * GasCap < Uint64

Result == {"ok", "reverted", "outOfGas", "vmError", "intrinsicGas", "error"}

(* ApplyMessageWithConfig as a function of the gas limit.  A call or       *)
(* creation that the parameters disable is an error for every limit, a     *)
(* limit below the intrinsic gas, at least TxGas, is the error that only   *)
(* asks for more.                                                          *)
Outcomes ==
  {f \in [0 .. GasCap -> Result] :
     /\ \A g \in 0 .. GasCap : g < TxGas => f[g] \in {"intrinsicGas", "error"}
     /\ \A g, h \in 0 .. GasCap : f[g] = "error" => f[h] = "error"}

VARIABLES
  stage,    \* where the request is
  outcome,  \* the outcome of the message for each limit
  lo, hi,   \* the bounds of the search
  cap,      \* the highest limit allowed
  estimate  \* the answer

estimateVars == <<stage, outcome, lo, hi, cap, estimate>>

EstimateInit ==
  /\ stage = "idle" /\ outcome = [g \in 0 .. GasCap |-> "intrinsicGas"]
  /\ lo = 0 /\ hi = 0 /\ cap = 0 /\ estimate = 0

-----------------------------------------------------------------------------
atMost(x, bound) == IF x > bound THEN bound ELSE x

(* The gas the caller gives, else the block gas limit if there is one,     *)
(* else the cap; and never above the cap.                                  *)
highest(gas, maxGas) ==
  atMost(IF gas # NoGas /\ gas >= TxGas THEN gas
         ELSE IF maxGas > 0 THEN maxGas ELSE GasCap, GasCap)

(* A request, with its message.                                            *)
StartEstimate(gas, maxGas) ==
  /\ stage = "idle" /\ outcome' \in Outcomes
  /\ IF GasCap < TxGas
     THEN stage' = "refused" /\ UNCHANGED <<lo, hi, cap>>
     ELSE /\ stage' = "searching"
          /\ lo' = TxGas - 1 /\ hi' = highest(gas, maxGas) /\ cap' = highest(gas, maxGas)
  /\ UNCHANGED estimate

middle(a, b) == ((a + b) % Uint64) \div 2

Probe_bails ==   \* faulty variant: too little gas is an error as any other
  LET mid == middle(lo, hi)
      failed == outcome[mid] # "ok"
  IN /\ stage = "searching" /\ lo + 1 < hi
     /\ IF outcome[mid] \in {"error", "intrinsicGas"}
        THEN stage' = "failed" /\ UNCHANGED <<lo, hi>>
        ELSE /\ lo' = IF failed THEN mid ELSE lo
             /\ hi' = IF failed THEN hi ELSE mid
             /\ UNCHANGED stage
     /\ UNCHANGED <<outcome, cap, estimate>>

(* One iteration of BinSearch; an error ends the request.                  *)
Probe ==
  LET mid == middle(lo, hi)
      failed == outcome[mid] # "ok"
  IN /\ stage = "searching" /\ lo + 1 < hi
     /\ IF outcome[mid] = "error"
        THEN stage' = "failed" /\ UNCHANGED <<lo, hi>>
        ELSE /\ lo' = IF failed THEN mid ELSE lo
             /\ hi' = IF failed THEN hi ELSE mid
             /\ UNCHANGED stage
     /\ UNCHANGED <<outcome, cap, estimate>>

EndSearch_untested ==   \* faulty variant: the cap is not tried
  /\ stage = "searching" /\ lo + 1 >= hi
  /\ stage' = "estimated" /\ estimate' = hi
  /\ UNCHANGED <<outcome, lo, hi, cap>>

(* After the search: the highest limit allowed was not tried by it.        *)
EndSearch ==
  /\ stage = "searching" /\ lo + 1 >= hi
  /\ IF hi = cap /\ outcome[hi] # "ok"
     THEN stage' = "failed" /\ UNCHANGED estimate
     ELSE stage' = "estimated" /\ estimate' = hi
  /\ UNCHANGED <<outcome, lo, hi, cap>>

EstimateNext ==
  \/ \E gas \in GasArg, maxGas \in MaxGas : StartEstimate(gas, maxGas)
  \/ Probe \/ EndSearch

EstimateSpec == EstimateInit /\ [][EstimateNext]_estimateVars

-----------------------------------------------------------------------------
(* The bounds are limits up to the cap, and so is the answer.              *)
EstimateTypeOK ==
  /\ stage \in {"idle", "refused", "searching", "estimated", "failed"}
  /\ outcome \in Outcomes
  /\ {lo, hi, cap, estimate} \subseteq 0 .. GasCap

(* More gas never hurts, as for most messages.                             *)
Monotone ==
  \A g, h \in 0 .. GasCap : g <= h /\ outcome[g] = "ok" => outcome[h] = "ok"

(* The answer of EstimateGas is a limit the message succeeds with, though  *)
(* the search never tries its upper end, and with one less it fails,       *)
(* whatever shape the outcomes have.                                       *)
EstimateTight ==
  stage = "estimated" => outcome[estimate] = "ok" /\ outcome[estimate - 1] # "ok"

(* For a message that more gas does not hurt, the answer is the least      *)
(* limit, and an error means that no limit up to the one allowed will do.  *)
EstimateLeast ==
  Monotone =>
    \A g \in 0 .. cap :
      outcome[g] = "ok" => /\ stage # "failed"
                           /\ stage = "estimated" => estimate <= g

(* Each iteration of BinSearch tries a limit strictly inside the interval, *)
(* also where the sum of the bounds is large, so either bound it becomes   *)
(* shrinks the interval, and the search ends.                              *)
SearchShrinks ==
  stage = "searching" /\ lo + 1 < hi => lo < middle(lo, hi) /\ middle(lo, hi) < hi

=============================================================================
