------------------------------- MODULE Market -------------------------------
(***************************************************************************)
(* From a request to a rig that holds the model: the survey sizes the model, *)
(* searches the market and selects an offer or refuses with advice, and the  *)
(* hardware that was placed is checked against the plan before the launch    *)
(* (survey and verifyPlacedHardware of internal/daemon, and the shortfall's  *)
(* report of internal/sizing).  One request and one market, answered once.   *)
(***************************************************************************)
EXTENDS Sizing, Ranking

CONSTANTS
  Requests,        \* what is asked for
  Listing,         \* what a provider has to offer
  Hosts,           \* what is placed: cards, and the memory of each
  Quantizations,   \* the ones suggested, best first
  Contexts         \* the ones suggested

Pending == [kind |-> "none"]

\* What may be asked for, of which model, listed and placed.
ModelFacts == [known : BOOLEAN, params : Nat, kvToken : Nat, actToken : Nat, maxContext : Nat,
               heads : Nat, kvHeads : Nat]
Criteria == [spot : {"forbid", "require", "allow"}, maxPrice : Nat, gpus : Nat, maxGpus : Nat,
             vramEach : Nat, vramAll : Nat, certifiedOnly : BOOLEAN, allowDeverified : BOOLEAN,
             minNet : Nat, lowStock : BOOLEAN]
Request == [facts : ModelFacts, quant : STRING, context : Nat, weights : Nat, disk : Nat,
            loads : BOOLEAN, tensorParallel : BOOLEAN, criteria : Criteria]
Offered == [id : Nat, model : STRING, gpus : Nat \ {0}, vram : Nat \ {0}, price : Nat, net : Nat,
            reliability : Nat, disk : Nat, runs : BOOLEAN, spot : BOOLEAN, low : BOOLEAN,
            tier : STRING, certified : BOOLEAN]

ASSUME MarketAssumption ==
  /\ Requests \subseteq Request
  /\ Listing \subseteq Offered /\ IsFiniteSet(Listing)
  /\ Hosts \subseteq [gpus : Nat \ {0}, card : Nat]

VARIABLES request, market, answer, launched
mvars == <<request, market, answer, launched>>

-----------------------------------------------------------------------------
(* The survey                                                              *)

\* The request for a plan on so many cards, with so much memory.
Sized(r, gpus, available) ==
  [facts |-> r.facts, quant |-> r.quant, context |-> r.context, weights |-> r.weights,
   gpus |-> gpus, available |-> available]

\* What can be rented now, the little that is left of a card only where that will do.
stock(o, c) == o.low => c.lowStock

\* The criteria that a provider is asked for and that ranking applies again.
matches(o, c) ==
  /\ Permits(c.spot, o)
  /\ c.maxPrice = 0 \/ o.price <= c.maxPrice
  /\ o.gpus >= c.gpus /\ (c.maxGpus = 0 \/ o.gpus <= c.maxGpus)

\* What a search lists, all of it with room for the disk.
Search(offers, c, disk) == {o \in offers : stock(o, c) /\ matches(o, c) /\ o.disk >= disk}

\* Mutant of holds: a card's whole memory is counted on, and every card of it.
holdsInAll(r, o) == o.vram * o.gpus * GiB >= Plan(Sized(r, o.gpus, 0)).required

\* The model, with the context asked for, on the cards the engine can use.
holds(r, o) ==
  LET shards == Shards(r.facts, o.gpus, r.tensorParallel)
  IN ShardVRAM(o.vram, shards) >= Plan(Sized(r, shards, 0)).required

\* Whether an offer can serve: engine, network floor, memory.
fits(r, o) ==
  IF ~o.runs THEN "engine"
  ELSE IF o.net > 0 /\ o.net < r.criteria.minNet THEN "network"
  ELSE IF holds(r, o) THEN "eligible" ELSE "vram"

\* A model is sized for one card before any is known; its disk, or if the one
\* named cannot hold it what could, is what the market is searched at.
Baseline(r) == Plan(Sized(r, 1, 0))
DiskSearched(r) ==
  LET disk == sizeDisk(r.disk, Baseline(r)) IN IF disk = 0 THEN DiskNeed(Baseline(r)) ELSE disk

Selected(r, offers) ==
  Select(offers, r.criteria, [o \in offers |-> fits(r, o)], coldStartBytes(Baseline(r)))

\* What an offer's cards are asked to hold.
Placed(r, o) ==
  LET shards == Shards(r.facts, o.gpus, r.tensorParallel)
  IN Plan(Sized(r, shards, ShardVRAM(o.vram, shards)))

-----------------------------------------------------------------------------
(* Advice                                                                  *)

\* The offer with the most memory the engine could use, the cheapest of those:
\* a set of none or one.
Best(r, offers) ==
  LET usable(o) == ShardVRAM(o.vram, Shards(r.facts, o.gpus, r.tensorParallel))
  IN {o \in offers : \A p \in offers \ {o} :
        \/ usable(o) > usable(p)
        \/ usable(o) = usable(p) /\ (o.price < p.price \/ (o.price = p.price /\ o.id < p.id))}

\* Mutant of suggestOn: alternatives are sized for one card.
suggestOnOne(r, best, alternatives) ==
  {a \in alternatives :
     /\ Sizable(a)
     /\ \A o \in best : Plan(Sized(a, 1, 0)).required
                         <= ShardVRAM(o.vram, Shards(r.facts, o.gpus, r.tensorParallel))}

\* Whether an alternative fits on the best offer; without one, everything does.
fitsOnBest(r, best, a) ==
  \A o \in best :
    LET shards == Shards(r.facts, o.gpus, r.tensorParallel)
    IN Plan(Sized(a, shards, 0)).required <= ShardVRAM(o.vram, shards)
suggestOn(r, best, alternatives) == {a \in alternatives : Sizable(a) /\ fitsOnBest(r, best, a)}

\* The best quantization that fits, and the longest of the shorter contexts.  A
\* measured size is the size of the file asked for, and of no other.
suggest(r, best) ==
  LET quantized == {[r EXCEPT !.quant = Quantizations[i], !.weights = 0] : i \in DOMAIN Quantizations}
      shortened == {[r EXCEPT !.context = c] : c \in {k \in Contexts : k < r.context}}
      rank(q) == SelectInSeq(Quantizations, LAMBDA e : e = q)
      finest == suggestOn(r, best, quantized)
      longest == suggestOn(r, best, shortened)
  IN {a \in finest : \A b \in finest : rank(a.quant) <= rank(b.quant)}
       \cup {a \in longest : \A b \in longest : a.context >= b.context}

\* The request with a ceiling on cards raised to what would have fitted without
\* one, and the request with low stock allowed.
moreCardsWouldFit(r) ==
  LET free == [r EXCEPT !.criteria.maxGpus = 0]
      found == Selected(free, Search(market, free.criteria, DiskSearched(r)))
  IN {[r EXCEPT !.criteria.maxGpus = o.gpus] :
        o \in {f \in found : r.criteria.maxGpus > 0 /\ f.gpus > r.criteria.maxGpus}}

lowStockWouldFit(r) ==
  LET allowed == [r EXCEPT !.criteria.lowStock = TRUE]
  IN {allowed : o \in {f \in Selected(allowed, Search(market, allowed.criteria, DiskSearched(r))) :
                         ~r.criteria.lowStock /\ f.low}}

-----------------------------------------------------------------------------
\* Everything that is refused before an offer is selected.
Unanswerable(r) ==
  \/ r.criteria.maxGpus > 0 /\ r.criteria.gpus > r.criteria.maxGpus
  \/ ~Sizable(Sized(r, 1, 0)) \/ ~r.loads

Survey ==
  /\ answer = Pending
  /\ LET r == request
         offers == Search(market, r.criteria, DiskSearched(r))
         selected == Selected(r, offers)
     IN answer' \in
          IF Unanswerable(r) THEN {[kind |-> "unanswerable"]}
          ELSE IF selected = {}
          THEN {[kind |-> "refused", best |-> Best(r, offers),
                 suggestions |-> suggest(r, Best(r, offers)),
                 hints |-> moreCardsWouldFit(r) \cup lowStockWouldFit(r)]}
          ELSE IF sizeDisk(r.disk, Baseline(r)) = 0 THEN {[kind |-> "disk"]}
          ELSE {[kind |-> "chosen", offer |-> o, plan |-> Placed(r, o),
                 disk |-> DiskSearched(r)] : o \in selected}
  /\ UNCHANGED <<request, market, launched>>

-----------------------------------------------------------------------------
(* The hardware that was placed                                            *)

\* Mutant of Resharded: every card that is there is sharded onto.
ReshardedOnAll(plan, host, known) == host.gpus

\* Fewer cards than listed are sharded onto as selection would have; where the
\* model's facts cannot be had again, as planned, and no further than there are cards.
Resharded(plan, host, known) ==
  Shorter(IF known THEN Shards(request.facts, host.gpus, request.tensorParallel) ELSE plan.shards,
          host.gpus)

\* The larger of two fractions.
Fraction(a, b) == IF a[1] * b[2] > b[1] * a[2] THEN a ELSE b

\* What the engine is told: as much of each card as its share of the model takes.
Raised(plan, shards, card) ==
  LET memory == shards * card
      wanted == IF 100 * plan.required > MaxGPUUtilisation * memory THEN <<MaxGPUUtilisation, 100>>
                ELSE <<plan.required, memory>>
  IN [plan EXCEPT !.shards = shards, !.utilization = Fraction(wanted, plan.utilization)]

\* A host whose memory can be read is measured: in all, and on the cards the
\* engine will use.  One that cannot be read keeps the plan.
verifyPlacedHardware(host, readable, known) ==
  LET plan == answer.plan
      shards == Resharded(plan, host, known)
      again == Plan([Sized(request, shards, UsableVRAM(host.card * shards))
                       EXCEPT !.weights = plan.weights])
      failed == [kind |-> "host_failure"]
      starting(p) == [kind |-> "launched", plan |-> p, host |-> host, known |-> known]
  IN /\ answer.kind = "chosen" /\ launched = Pending
     /\ launched' = IF ~readable THEN [starting(plan) EXCEPT !.kind = "unread"]
               ELSE IF host.gpus * host.card < plan.required THEN failed
               ELSE IF ~known THEN starting(Raised(plan, shards, host.card))
               ELSE IF ~again.fits THEN failed
               ELSE starting(Raised([again EXCEPT !.utilization = plan.utilization], shards, host.card))
     /\ UNCHANGED <<request, market, answer>>

MarketInit == request \in Requests /\ market \in SUBSET Listing /\ answer = Pending /\ launched = Pending

MarketNext ==
  \/ Survey
  \/ \E host \in Hosts, readable, known \in BOOLEAN : verifyPlacedHardware(host, readable, known)

MarketSpec == MarketInit /\ [][MarketNext]_mvars

-----------------------------------------------------------------------------
(* Properties                                                              *)

\* The whole memory of a plan's cards that its engine is told to take.
Covers(plan, card) ==
  plan.utilization[1] * card * plan.shards >= plan.required * plan.utilization[2]

\* An engine starts: its degree divides the model's heads, where it must, and is
\* the safest guess where their number is not known.
Starts(r, shards) ==
  r.tensorParallel =>
    IF r.facts.heads > 0 THEN shards = 1 \/ shardable(r.facts, shards) ELSE PowerOfTwo(shards)

\* What is wanted of an offer, whatever the order of the checks.
Wanted(r, o, offers) ==
  /\ o.runs /\ (o.net > 0 => o.net >= r.criteria.minNet)
  /\ \E n \in 1..o.gpus :
       Starts(r, n) /\ UsableVRAM(o.vram * n * GiB) >= Required(r.facts, Baseline(r).weights, Baseline(r).context, n)
  /\ o.gpus >= r.criteria.gpus /\ o.vram >= r.criteria.vramEach /\ o.vram * o.gpus >= r.criteria.vramAll
  /\ ~Outlier(o, offers) /\ (o.reliability > 0 => o.reliability >= ReliabilityFloor)
  /\ o.tier = "deverified" => r.criteria.allowDeverified
  /\ r.criteria.certifiedOnly => o.certified \/ o.tier = "verified"

\* A selection is the least bill for hardware that will do: the offer holds the
\* model with the context asked for, in cards its engine can use and memory the
\* engine is told to take, its disk holds the download, and no other offer that
\* is wanted serves the session for less; and nothing is refused while one is.
RentalServes ==
  LET offers == Search(market, request.criteria, DiskSearched(request))
      wanted == {o \in offers : Wanted(request, o, offers)}
      bytes == coldStartBytes(Baseline(request))
      bill(o) == sessionCost(o, bytes, medianNet(offers))
  IN /\ answer.kind = "chosen" =>
          /\ answer.offer \in wanted /\ answer.plan.fits /\ Starts(request, answer.plan.shards)
          /\ answer.plan.context = Baseline(request).context
          /\ Covers(answer.plan, answer.offer.vram * GiB)
          /\ answer.disk >= coldStartBytes(answer.plan)
          /\ \A o \in wanted : bill(answer.offer)[1] * bill(o)[2] <= bill(o)[1] * bill(answer.offer)[2]
     /\ answer.kind = "refused" => wanted = {}

\* How an offer is classified, of those that a request's search lists.
Verdict(r, o) ==
  LET offers == Search(market, r.criteria, DiskSearched(r))
  IN classify(o, r.criteria, offers, [p \in offers |-> fits(r, p)])

\* Advice is of what would hold: what a refusal suggests does on the offer it
\* names as best, and of a request changed as it hints the survey finds an offer
\* that passes every check but, it may be, the last, of its price.  Where no
\* offer meets the other criteria none is named, and nothing is said of what is
\* suggested.
AdviceWorks ==
  answer.kind = "refused" =>
    /\ \A a \in answer.suggestions : \A o \in answer.best : holds(a, o)
    /\ \A a \in answer.hints :
         \E o \in Search(market, a.criteria, DiskSearched(a)) : Verdict(a, o) \in {"eligible", "outlier"}

\* "Suggestions are measured against the largest VRAM the market actually
\* offered, not against nothing": not checked, it does not hold where no offer
\* meets the other criteria (the target of suggest is then zero).
SuggestionsJudged ==
  answer.kind = "refused" => \A a \in answer.suggestions : \E o \in answer.best : holds(a, o)

\* "would fit -- raise --max-gpus to": of a request changed as a refusal hints the
\* survey selects an offer (what moreCardsWouldFit tells the operator).
HintsSelect ==
  answer.kind = "refused" =>
    \A a \in answer.hints : Selected(a, Search(market, a.criteria, DiskSearched(a))) # {}

\* What is launched starts and holds on the cards that are there: no more cards
\* than the host has, a degree the model divides by, and of each card no more
\* than can be used and at least the model's share.
LaunchHolds ==
  launched.kind = "launched" =>
    /\ launched.plan.shards <= launched.host.gpus
    /\ launched.plan.utilization[1] * 100 <= MaxGPUUtilisation * launched.plan.utilization[2]
    /\ launched.known => Starts(request, launched.plan.shards) /\ Covers(launched.plan, launched.host.card)
=============================================================================
