------------------------------- MODULE Sizing -------------------------------
(***************************************************************************)
(* What a model takes of a GPU and of a disk (internal/sizing, and the disk *)
(* of internal/daemon/up.go).  Memory is counted in units of which GiB make  *)
(* one gigabyte of a card, with the same truncations as the code's; the      *)
(* factors are the code's, in hundredths.                                    *)
(***************************************************************************)
EXTENDS Integers, FiniteSetsExt

CONSTANTS
  GiB,
  Bits,            \* a quantization's bits per weight, in hundredths, of those known
  MinContext,      \* no context is reduced below it
  RuntimeImage,    \* what the engine's image takes to fetch and store
  DefaultDisk

ASSUME SizingAssumption ==
  /\ {GiB, MinContext, DefaultDisk} \subseteq Nat \ {0} /\ RuntimeImage \in Nat
  /\ \A q \in DOMAIN Bits : Bits[q] \in Nat \ {0}

Shorter(a, b) == IF a < b THEN a ELSE b
Larger(a, b) == IF a > b THEN a ELSE b

\* The part of a card an engine can allocate.
MaxGPUUtilisation == 95
UsableVRAM(memory) == (memory * MaxGPUUtilisation) \div 100

-----------------------------------------------------------------------------
(* Shards                                                                  *)

\* Whether tensor parallelism of degree n divides the model's heads.
shardable(f, n) ==
  /\ f.heads % n = 0
  /\ f.kvHeads % n = 0 \/ n % f.kvHeads = 0

\* A power of two has no odd divisor but one.
PowerOfTwo(n) == \A d \in 2..n : n % d = 0 => d % 2 = 0

\* How many of a host's cards an engine can put the model on: all, if it splits
\* by layer; otherwise the most that divide it, and a power of two of unknown heads.
Shards(f, gpus, tensorParallel) ==
  IF gpus <= 1 THEN 1
  ELSE IF ~tensorParallel THEN gpus
  ELSE IF f.heads = 0 THEN Max({n \in 1..gpus : PowerOfTwo(n)})
  ELSE Max({1} \cup {n \in 2..gpus : shardable(f, n)})

ShardVRAM(vram, shards) == UsableVRAM(vram * shards * GiB)

-----------------------------------------------------------------------------
(* Memory                                                                  *)

kvBytes(f, context) == f.kvToken * context
activationBytes(f, context) == f.actToken * context

\* Each card has a CUDA context and an allocator of its own.
overheadBytes(held, gpus) == Larger(GiB * Larger(gpus, 1), (held * 8) \div 100)

Required(f, weights, context, gpus) ==
  LET held == weights + kvBytes(f, context)
  IN ((held + activationBytes(f, context) + overheadBytes(held, gpus)) * 110) \div 100

\* Facts that support an estimate, and weights whose size is known or can be.
Sizable(q) ==
  /\ q.facts.known
  /\ q.weights > 0 \/ (q.facts.params > 0 /\ q.quant \in DOMAIN Bits)

WeightsOf(q) ==
  IF q.weights > 0 THEN q.weights ELSE (q.facts.params * Bits[q.quant]) \div 800

\* The largest halving of a context that fits, if one does.
reduceContext(q, from) ==
  LET halved == {from \div n : n \in {m \in 2..from : PowerOfTwo(m)}}
      fitting == {c \in halved : c >= MinContext /\ Required(q.facts, WeightsOf(q), c, q.gpus) <= q.available}
  IN IF fitting = {} THEN from ELSE Max(fitting)

\* The part of the memory asked of the engine, a fraction: what is required, no
\* less than a tenth and no more than is usable.
Utilization(required, available) ==
  IF 10 * required < available THEN <<1, 10>>
  ELSE IF 100 * required > MaxGPUUtilisation * available THEN <<MaxGPUUtilisation, 100>>
  ELSE <<required, available>>

\* Size a model for a number of cards, and where their memory is known, judge it,
\* with as much of the context asked for as fits.
Plan(q) ==
  LET weights == WeightsOf(q)
      asked == IF q.facts.maxContext > 0 THEN Shorter(q.context, q.facts.maxContext) ELSE q.context
      judged == q.available > 0
      context == IF judged /\ Required(q.facts, weights, asked, q.gpus) > q.available
                 THEN reduceContext(q, asked) ELSE asked
      required == Required(q.facts, weights, context, q.gpus)
      fits == judged => required <= q.available
  IN [weights |-> weights, context |-> context, required |-> required, shards |-> q.gpus,
      fits |-> fits,
      utilization |-> IF ~judged THEN <<90, 100>>
                      ELSE IF fits THEN Utilization(required, q.available) ELSE <<0, 1>>]

-----------------------------------------------------------------------------
(* Disk                                                                    *)

coldStartBytes(plan) == RuntimeImage + plan.weights

\* What a rental downloads, and some headroom, to the next whole unit.
DiskNeed(plan) == (coldStartBytes(plan) * 115 + 99) \div 100

\* A disk that was named is honoured or refused, zero is refusal; one that was not
\* is the model's need, and not less than the default.
sizeDisk(asked, plan) ==
  IF asked = 0 THEN Larger(DiskNeed(plan), DefaultDisk)
  ELSE IF asked < DiskNeed(plan) THEN 0 ELSE asked
=============================================================================
