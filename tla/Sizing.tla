------------------------------- MODULE Sizing -------------------------------
(***************************************************************************)
(* How many shares a maker order asks for (quoter.rs): the size starts at  *)
(* MaxOrderSize and halves, floored at MinOrderSize, each time the side    *)
(* has accumulated the batch; after MaxBatches batches a side stops.       *)
(*                                                                         *)
(* The code computes with exact decimals.  The unit of this model must be  *)
(* small enough for every halving to be exact (HalvingExact).              *)
(***************************************************************************)
EXTENDS Integers

CONSTANTS
    MaxOrderSize,   \* quoting.max_order_size
    MinOrderSize,   \* quoting.min_order_size
    MaxBatches      \* quoting.max_batches

\* The running "size" of the two loops: its value in iteration k.
BatchSize[k \in 0..MaxBatches] ==
    IF k = 0 THEN MaxOrderSize
    ELSE IF BatchSize[k - 1] \div 2 >= MinOrderSize
         THEN BatchSize[k - 1] \div 2
         ELSE MinOrderSize

\* The running "total" (and "threshold") before iteration k.
BatchTotal[k \in 0..MaxBatches] ==
    IF k = 0 THEN 0 ELSE BatchTotal[k - 1] + BatchSize[k - 1]

MaxTotalShares == BatchTotal[MaxBatches]

\* The size of the batch that the side's shares have not used up.
InBatch(j, shares) == BatchTotal[j] <= shares /\ shares < BatchTotal[j + 1]
DynamicOrderSize(shares) ==
    LET Batches == 0..(MaxBatches - 1)
    IN  IF \E j \in Batches : InBatch(j, shares)
        THEN BatchSize[CHOOSE j \in Batches : InBatch(j, shares)]
        ELSE MinOrderSize

\* evaluate_side's order size: capped by what the side may still accumulate.
OrderSize(shares) ==
    LET remaining == MaxTotalShares - shares
    IN  IF DynamicOrderSize(shares) <= remaining
        THEN DynamicOrderSize(shares)
        ELSE remaining

HalvingExact ==
    \A k \in 0..(MaxBatches - 1) :
        BatchSize[k] % 2 = 0 \/ BatchSize[k] \div 2 < MinOrderSize

ASSUME SizingAssumption ==
    /\ MaxOrderSize \in Nat \ {0}
    /\ MinOrderSize \in Nat \ {0}
    /\ MaxBatches \in Nat \ {0}
    /\ HalvingExact

=============================================================================
