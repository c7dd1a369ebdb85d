------------------------------ MODULE MCParts ------------------------------
(***************************************************************************)
(* Five parts that share no state, for TLC side by side: a behaviour is of   *)
(* one of them, and the others stand where they begin.                       *)
(***************************************************************************)
EXTENDS Market, Cost, Adapter, Weights, Watchdog

VARIABLE part
pvars == <<part, mvars, cvars, avars, wvars, vars>>
Parts == {"market", "cost", "adapter", "weights", "watchdog"}

-----------------------------------------------------------------------------
(* Market: four models, one of unknown heads and one of unknown facts; offers  *)
(* that differ in cards, memory, price, link, tier, stock and engine; a        *)
(* default request, and requests that differ from it in a respect or two.      *)
(* Memory and disks are in tenths of a gigabyte, contexts in units of 512      *)
(* tokens, prices in cents.                                                    *)

MCBits == [fp16 |-> 1600, q8 |-> 850, q4 |-> 485]
MCQuantizations == <<"q8", "q4">>
MCContexts == {8, 16, 32}

Facts(params, kvToken, maxContext, heads, kvHeads) ==
  [known |-> TRUE, params |-> params, kvToken |-> kvToken, actToken |-> 1,
   maxContext |-> maxContext, heads |-> heads, kvHeads |-> kvHeads]
Small == Facts(65, 1, 0, 40, 8)
Middle == Facts(175, 2, 32, 28, 4)
Packed == Facts(0, 3, 0, 0, 8)
Unknown == [Small EXCEPT !.known = FALSE]

Asks(facts, quant, context, weights) ==
  [facts |-> facts, quant |-> quant, context |-> context, weights |-> weights,
   disk |-> 0, loads |-> TRUE, tensorParallel |-> TRUE,
   criteria |-> [spot |-> "forbid", maxPrice |-> 0, gpus |-> 0, maxGpus |-> 0, vramEach |-> 0,
                 vramAll |-> 0, certifiedOnly |-> FALSE, allowDeverified |-> TRUE,
                 minNet |-> 0, lowStock |-> FALSE]]

Models ==
  {Asks(Small, "fp16", 8, 0), Asks(Small, "fp16", 64, 0), Asks(Middle, "q8", 64, 0),
   Asks(Middle, "fp16", 16, 0), Asks(Packed, "odd", 16, 250), Asks(Packed, "odd", 64, 500)}

MCRequests ==
  Models
    \cup {[m EXCEPT !.tensorParallel = FALSE] : m \in Models}
    \cup {[m EXCEPT !.criteria.maxGpus = n] : m \in Models, n \in {1, 2}}
    \cup {[m EXCEPT !.criteria.gpus = 2, !.criteria.maxGpus = 1] : m \in Models}
    \cup {[m EXCEPT !.criteria.gpus = 2, !.disk = d] : m \in Models, d \in {200, 900}}
    \cup {[m EXCEPT !.criteria.spot = s, !.criteria.minNet = 20] : m \in Models, s \in {"allow", "require"}}
    \cup {[m EXCEPT !.criteria.lowStock = TRUE, !.criteria.allowDeverified = d] : m \in Models, d \in BOOLEAN}
    \cup {[m EXCEPT !.criteria.certifiedOnly = TRUE, !.criteria.maxPrice = 100] : m \in Models}
    \cup {[m EXCEPT !.criteria.vramEach = 24, !.criteria.vramAll = 48] : m \in Models}
    \cup {Asks(Small, "odd", 8, 0), Asks(Unknown, "fp16", 8, 200),
          [Asks(Small, "fp16", 8, 0) EXCEPT !.loads = FALSE]}

Offer(id, model, gpus, vram, price, net, reliability) ==
  [id |-> id, model |-> model, gpus |-> gpus, vram |-> vram, price |-> price, net |-> net,
   reliability |-> reliability, disk |-> 2000, runs |-> TRUE, spot |-> FALSE, low |-> FALSE,
   tier |-> "unverified", certified |-> FALSE]
MCListing ==
  {Offer(1, "ada", 1, 24, 20, 5, 98), Offer(2, "ada", 2, 24, 44, 100, 99),
   [Offer(3, "ada", 4, 24, 90, 0, 97) EXCEPT !.tier = "verified"],
   [Offer(4, "turing", 6, 12, 40, 50, 0) EXCEPT !.tier = "deverified"],
   [Offer(5, "hopper", 1, 80, 150, 80, 95) EXCEPT !.low = TRUE, !.certified = TRUE],
   [Offer(6, "ada", 1, 24, 6, 40, 96) EXCEPT !.spot = TRUE],
   [Offer(7, "pascal", 8, 12, 10, 60, 80) EXCEPT !.runs = FALSE, !.disk = 650],
   Offer(8, "hopper", 2, 80, 300, 10, 80)}

MCHosts ==
  {[gpus |-> 1, card |-> 240], [gpus |-> 2, card |-> 240], [gpus |-> 3, card |-> 235],
   [gpus |-> 6, card |-> 120], [gpus |-> 1, card |-> 800]}

-----------------------------------------------------------------------------
(* Adapter                                                                   *)

MCDetails == <<"version">>

-----------------------------------------------------------------------------
(* Weights: files of one part and of several, one of them unpublished in size, *)
(* missing, or in two folders; files that are no model, and one that names no  *)
(* format; names that hold another's format in theirs.                         *)

Lone(stem, tag) == [name |-> [dir |-> ".", stem |-> stem, part |-> 0, parts |-> 0], tag |-> tag,
  words |-> {}, holds |-> tag, auxiliary |-> FALSE, size |-> 2, published |-> TRUE, length |-> 3]
Part(dir, stem, i, n, tag) == [Lone(stem, tag) EXCEPT !.name = [dir |-> dir, stem |-> stem, part |-> i, parts |-> n], !.length = 5]
Projector == [Lone("mmproj", "f16") EXCEPT !.holds = "other", !.auxiliary = TRUE, !.length = 2, !.size = 1]
Draft == [Lone("mtp", "q4_k_m") EXCEPT !.holds = "other", !.auxiliary = TRUE, !.length = 2, !.size = 1]
Brain == [Lone("brain", "bf16") EXCEPT !.words = {"f16", "bf16"}, !.length = 2]
Joined == [Lone("joined_bf16", "none") EXCEPT !.holds = "bf16", !.words = {"f16", "bf16"}, !.length = 6]
Plain == [Lone("plain", "none") EXCEPT !.holds = "q8_0", !.words = {"q8_0"}]
MCRepositories ==
  {[files |-> f, packed |-> "gguf", header |-> TRUE] : f \in {
     {Lone("m-q4", "q4_k_m"), [Lone("m-imat", "q4_k_m") EXCEPT !.length = 4], Lone("m-f16", "f16"), Brain, Projector, Draft},
     {Part("A", "m", 1, 2, "q4_k_m"), [Part("A", "m", 2, 2, "q4_k_m") EXCEPT !.published = FALSE], Part("A", "m", 1, 3, "q8_0"), Plain, Joined},
     {Part("A", "m", 1, 2, "q4_k_m"), [Part("A", "m", 2, 2, "q4_k_m") EXCEPT !.size = 3],
      [Part("B", "m", 1, 2, "q4_k_m") EXCEPT !.length = 6, !.size = 4], [Part("B", "m", 2, 2, "q4_k_m") EXCEPT !.length = 6], Brain, Projector}}}
   \cup {[files |-> {}, packed |-> "awq", header |-> FALSE], [files |-> {}, packed |-> "unknown", header |-> FALSE]}
Asked(file, quant) == [tag |-> FALSE, file |-> file, quant |-> quant, runtime |-> "any", fits |-> TRUE]
MCOrders ==
  {Asked(Unset, q) : q \in {"none", "q4_k_m", "q8_0", "fp16", "ud-q4_k_m"}}
  \cup {[Asked(Unset, q) EXCEPT !.runtime = "llamacpp"] : q \in {"none", "fp16", "bf16"}}
  \cup {Asked(f.name, q) : f \in {Part("A", "m", 2, 2, "q4_k_m"), Plain, Draft, Lone("m-f16", "f16")}, q \in {"none", "q4_k_m", "q8_0"}}
  \cup {[Asked(Unset, "none") EXCEPT !.tag = TRUE], [Asked(Unset, "none") EXCEPT !.fits = FALSE]}

-----------------------------------------------------------------------------
\* One slot of a host's watchdogs is like another.
MCSymmetry == Permutations(Slots)

\* Where a part stands that the behaviour is not of.
Idle(p) ==
  CASE p = "market" -> request = Pending /\ market = {} /\ answer = Pending /\ launched = Pending
    [] p = "cost" -> CostInit
    [] p = "adapter" -> /\ machine = [i \in 1..Machines |-> Unused] /\ rig = [r \in Rigs |-> None]
                        /\ listing = None /\ misled = {}
                        /\ sweep = [wronged |-> {}, missed |-> {}, blind |-> FALSE, lost |-> {}]
    [] p = "weights" -> /\ ask = Unset /\ repository = Unset /\ settled = Unset
                        /\ node = Unset /\ endpoint = Unset /\ moved = FALSE
    [] p = "watchdog" -> Init

Begins(p) ==
  CASE p = "market" -> MarketInit [] p = "cost" -> CostInit [] p = "adapter" -> AdapterInit
    [] p = "weights" -> WeightsInit [] p = "watchdog" -> Init

PartsInit ==
  /\ part \in Parts
  /\ Begins(part) /\ \A p \in Parts \ {part} : Idle(p)

PartsNext ==
  \/ part = "market" /\ MarketNext /\ UNCHANGED <<part, cvars, avars, wvars, vars>>
  \/ part = "cost" /\ CostNext /\ UNCHANGED <<part, mvars, avars, wvars, vars>>
  \/ part = "adapter" /\ AdapterNext /\ UNCHANGED <<part, mvars, cvars, wvars, vars>>
  \/ part = "weights" /\ WeightsNext /\ UNCHANGED <<part, mvars, cvars, avars, vars>>
  \/ part = "watchdog" /\ Next /\ UNCHANGED <<part, mvars, cvars, avars, wvars>>

PartsSpec == PartsInit /\ [][PartsNext]_pvars
=============================================================================
