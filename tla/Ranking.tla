------------------------------- MODULE Ranking -------------------------------
(***************************************************************************)
(* Which offer to rent (internal/rank): criteria and floors filter, and of   *)
(* what is left the one that serves a session at the least cost is taken,    *)
(* the billed download included.  Prices are whole cents and speeds whole    *)
(* units, and costs are compared as fractions.                               *)
(***************************************************************************)
EXTENDS Integers, Sequences, FiniteSets, SequencesExt

CONSTANTS
  ReliabilityFloor, OutlierFactor, MinClassSample, SessionHours,
  Hour           \* what a link of speed one downloads in an hour

ASSUME RankingAssumption ==
  {ReliabilityFloor, OutlierFactor, MinClassSample, SessionHours, Hour} \subseteq Nat \ {0}

\* The k-th least value of a function of some offers, each counted.
KthLeast(offers, field, k) ==
  CHOOSE v \in {field[o] : o \in offers} :
    /\ Cardinality({o \in offers : field[o] < v}) < k
    /\ k <= Cardinality({o \in offers : field[o] <= v})

\* The typical link of the market, for an offer that names none.
medianNet(offers) ==
  LET named == {o \in offers : o.net > 0}
  IN IF named = {} THEN 0
     ELSE KthLeast(named, [o \in named |-> o.net], Cardinality(named) \div 2 + 1)

\* Twice the median price: of an even number it lies between two.
TwiceMedian(offers) ==
  LET n == Cardinality(offers)
      kth(k) == KthLeast(offers, [o \in offers |-> o.price], k)
  IN kth((n + 1) \div 2) + kth(n \div 2 + 1)

priceClass(o, offers) == {p \in offers : p.model = o.model /\ p.price > 0}

\* A price far below its class's, where the class is large enough to have one.
Outlier(o, offers) ==
  /\ o.price > 0 /\ Cardinality(priceClass(o, offers)) >= MinClassSample
  /\ 2 * o.price * OutlierFactor < TwiceMedian(priceClass(o, offers))

Permits(spot, o) ==
  CASE spot = "forbid" -> ~o.spot [] spot = "require" -> o.spot [] spot = "allow" -> TRUE

\* Each check in turn, and whether the offer fails it; fit says what sizing found.
Checks(o, c, offers, fit) ==
  <<<<"interruptible", ~Permits(c.spot, o)>>,
    <<"max_price", c.maxPrice > 0 /\ o.price > c.maxPrice>>,
    <<"hardware", o.gpus < c.gpus \/ (c.maxGpus > 0 /\ o.gpus > c.maxGpus)
                  \/ o.vram < c.vramEach \/ o.vram * o.gpus < c.vramAll>>,
    <<fit[o], fit[o] # "eligible">>,
    <<"deverified", c.certifiedOnly /\ ~o.certified /\ o.tier # "verified">>,
    <<"deverified", ~c.allowDeverified /\ o.tier = "deverified">>,
    <<"reliability", o.reliability > 0 /\ o.reliability < ReliabilityFloor>>,
    <<"outlier", Outlier(o, offers)>>>>

\* The first it fails.
classify(o, c, offers, fit) ==
  LET checks == Checks(o, c, offers, fit)
      failed == SelectInSeq(checks, LAMBDA check : check[2])
  IN IF failed = 0 THEN "eligible" ELSE checks[failed][1]

\* What a session costs, as a fraction: the hours of the download and of the use,
\* at the hourly rate.
sessionCost(o, bytes, median) ==
  LET speed == IF o.net > 0 THEN o.net ELSE median
  IN IF speed = 0 THEN <<o.price * SessionHours, 1>>
     ELSE <<o.price * (bytes + SessionHours * Hour * speed), Hour * speed>>

\* The order of the candidates: cost, price, reliability, name.
Before(a, b, bytes, median) ==
  LET ca == sessionCost(a, bytes, median)
      cb == sessionCost(b, bytes, median)
  IN IF ca[1] * cb[2] # cb[1] * ca[2] THEN ca[1] * cb[2] < cb[1] * ca[2]
     ELSE IF a.price # b.price THEN a.price < b.price
     ELSE IF a.reliability # b.reliability THEN a.reliability > b.reliability
     ELSE a.id <= b.id

\* The first eligible candidate, in a set of none or one.
Select(offers, c, fit, bytes) ==
  LET eligible == {o \in offers : classify(o, c, offers, fit) = "eligible"}
      median == medianNet(offers)
  IN {o \in eligible : \A p \in eligible : Before(o, p, bytes, median)}
=============================================================================
