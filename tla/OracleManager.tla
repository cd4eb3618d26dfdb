--------------------------- MODULE OracleManager ---------------------------
(***************************************************************************)
(* contracts/OracleManager.sol: the price of an asset from several feeds,  *)
(* checked against each other and against the prices answered before.      *)
(* Nothing the contract keeps of one asset is read for another, so one     *)
(* asset is modelled.  A feed's answer is a price and its time; price 0    *)
(* stands for whatever _fetchPrice discards besides age: a price that is   *)
(* not positive, a round not complete, a call that fails.                  *)
(***************************************************************************)
EXTENDS Integers, Sequences, FiniteSets, Functions

CONSTANTS
  Feeds,                \* aggregator addresses
  Answers,              \* prices a feed may answer
  MaxFeeds,             \* bound: feeds listed at once
  StartTime, MaxTime,   \* timestamp of deployment; bound: the last timestamp
  BasisPoints,          \* 10000, a whole in basis points
  MAX_PRICE_DEVIATION, MAX_PRICE_AGE, MIN_ORACLES, TWAP_PERIOD, MAX_HISTORY_SIZE

ASSUME OracleConstants ==
  /\ Answers \subseteq Nat /\ 0 \in Answers /\ MaxFeeds \in Nat
  /\ StartTime \in Nat \ {0} /\ MAX_PRICE_AGE \in 0..StartTime
  /\ {BasisPoints, MIN_ORACLES, MAX_HISTORY_SIZE} \subseteq Nat \ {0}
  /\ {MAX_PRICE_DEVIATION, TWAP_PERIOD, MaxTime} \subseteq Nat

VARIABLES
  now,            \* block.timestamp
  priceFeeds,     \* the asset's feeds, in the array's order
  priceHistory,   \* the asset's PricePoints, in the array's order
  historyIndex,   \* where the full array is overwritten next
  answer          \* feed -> what latestRoundData answers (external)

vars == <<now, priceFeeds, priceHistory, historyIndex, answer>>

Init ==
  /\ now = StartTime
  /\ priceFeeds = << >>
  /\ priceHistory = << >>
  /\ historyIndex = 0
  /\ answer = [f \in Feeds |-> [price |-> 0, updatedAt |-> 0]]

AddPriceFeed(feed) ==
  /\ priceFeeds' = Append(priceFeeds, feed)
  /\ UNCHANGED <<now, priceHistory, historyIndex, answer>>

(* The last feed takes the place of the one that goes.                     *)
RemovePriceFeed(i) ==
  /\ i \in DOMAIN priceFeeds
  /\ priceFeeds' = SubSeq([priceFeeds EXCEPT ![i] = priceFeeds[Len(priceFeeds)]],
                          1, Len(priceFeeds) - 1)
  /\ UNCHANGED <<now, priceHistory, historyIndex, answer>>

-----------------------------------------------------------------------------
(* What the listed feeds say now, by their place in the list, and how far  *)
(* it may lie apart.                                                       *)
Fresh(feed) == answer[feed].price > 0 /\ answer[feed].updatedAt >= now - MAX_PRICE_AGE

ValidPrices ==
  [i \in {k \in DOMAIN priceFeeds : Fresh(priceFeeds[k])} |-> answer[priceFeeds[i]].price]
Count(prices) == Cardinality(DOMAIN prices)

(* The k-th smallest of the prices, which is what sorting puts at k.       *)
Below(prices, i) ==
  {j \in DOMAIN prices : prices[j] < prices[i] \/ (prices[j] = prices[i] /\ j < i)}
Ranked(prices, k) == prices[CHOOSE i \in DOMAIN prices : Cardinality(Below(prices, i)) = k - 1]

MedianUnsorted(prices) ==
  prices[CHOOSE i \in DOMAIN prices :
           Cardinality({j \in DOMAIN prices : j < i}) = Count(prices) \div 2]
CalculateMedian(prices) ==
  LET half == Count(prices) \div 2 IN
  IF Count(prices) % 2 = 0
  THEN (Ranked(prices, half) + Ranked(prices, half + 1)) \div 2
  ELSE Ranked(prices, half + 1)

CalculateDeviation(p, q) ==
  IF q = 0 THEN 0 ELSE ((IF p > q THEN p - q ELSE q - p) * BasisPoints) \div q

WithinDeviation(prices) ==
  \A i \in DOMAIN prices :
    CalculateDeviation(prices[i], CalculateMedian(prices)) <= MAX_PRICE_DEVIATION

(* getTWAP over the last TWAP_PERIOD: a point weighs the more the later it *)
(* was taken, and one taken just at the cutoff weighs nothing.             *)
CutoffTime == IF now > TWAP_PERIOD THEN now - TWAP_PERIOD ELSE 0
Window == {i \in DOMAIN priceHistory : priceHistory[i].timestamp >= CutoffTime}
WeightFromOne(i) == priceHistory[i].timestamp - CutoffTime + 1
Weight(i) == priceHistory[i].timestamp - CutoffTime

TotalWeight == SumFunction([i \in Window |-> Weight(i)])
WeightedSum == SumFunction([i \in Window |-> priceHistory[i].price * Weight(i)])
GetTWAP == IF TotalWeight = 0 THEN 0 ELSE WeightedSum \div TotalWeight

TwapUnchecked(price) == TRUE
WithinTwap(price) ==
  GetTWAP > 0 => CalculateDeviation(price, GetTWAP) <= MAX_PRICE_DEVIATION * 2

-----------------------------------------------------------------------------
(* getAssetPriceView answers Price when PriceAnswers, else it reverts;     *)
(* getAssetPrice does the same, then records what it has answered.         *)
Price == CalculateMedian(ValidPrices)
PriceAnswers ==
  /\ Len(priceFeeds) >= MIN_ORACLES
  /\ Count(ValidPrices) >= MIN_ORACLES
  /\ WithinDeviation(ValidPrices)
  /\ WithinTwap(Price)

PushPoint(point) == priceHistory' = Append(priceHistory, point) /\ UNCHANGED historyIndex
IndexStays(point) ==
  IF Len(priceHistory) < MAX_HISTORY_SIZE
  THEN PushPoint(point)
  ELSE priceHistory' = [priceHistory EXCEPT ![historyIndex + 1] = point] /\ UNCHANGED historyIndex
UpdatePriceHistory(point) ==
  IF Len(priceHistory) < MAX_HISTORY_SIZE
  THEN PushPoint(point)
  ELSE /\ priceHistory' = [priceHistory EXCEPT ![historyIndex + 1] = point]
       /\ historyIndex' = (historyIndex + 1) % MAX_HISTORY_SIZE

GetAssetPrice ==
  /\ PriceAnswers
  /\ UpdatePriceHistory([price |-> Price, timestamp |-> now])
  /\ UNCHANGED <<now, priceFeeds, answer>>

-----------------------------------------------------------------------------
(* The environment: feeds answer anew or fail, and time passes.            *)
FeedAnswers(feed, price) ==
  /\ answer' = [answer EXCEPT ![feed] =
                  [price |-> price, updatedAt |-> IF price = 0 THEN 0 ELSE now]]
  /\ UNCHANGED <<now, priceFeeds, priceHistory, historyIndex>>

Tick ==
  /\ now < MaxTime
  /\ now' = now + 1
  /\ UNCHANGED <<priceFeeds, priceHistory, historyIndex, answer>>

Next ==
  \/ \E feed \in Feeds : Len(priceFeeds) < MaxFeeds /\ AddPriceFeed(feed)
  \/ \E i \in 1..MaxFeeds : RemovePriceFeed(i)
  \/ GetAssetPrice
  \/ \E feed \in Feeds, price \in Answers : FeedAnswers(feed, price)
  \/ Tick

Spec == Init /\ [][Next]_vars

-----------------------------------------------------------------------------
(* Types; the history never outgrows its ring, and the index stays in it.  *)
TypeOK ==
  /\ now \in Nat
  /\ priceFeeds \in Seq(Feeds)
  /\ priceHistory \in Seq([price : Nat, timestamp : Nat])
  /\ Len(priceHistory) <= MAX_HISTORY_SIZE
  /\ historyIndex \in 0..(MAX_HISTORY_SIZE - 1)
  /\ answer \in [Feeds -> [price : Answers, updatedAt : 0..now]]

(* The ring holds the latest prices and no others: read from historyIndex  *)
(* round, its points are in the order of their times, so the one that is   *)
(* overwritten next is the oldest (OracleManager.sol:202-203).             *)
Oldest(k) == priceHistory[((historyIndex + k - 1) % Len(priceHistory)) + 1]
RingInOrder ==
  \A j, k \in DOMAIN priceHistory : j <= k => Oldest(j).timestamp <= Oldest(k).timestamp

(* The price is a middle one: no more than half of the valid answers lie   *)
(* above it, and no more than half below (OracleManager.sol:207-222).      *)
MedianInMiddle ==
  LET prices == ValidPrices IN
  Count(prices) >= MIN_ORACLES =>
    /\ 2 * Cardinality({i \in DOMAIN prices : prices[i] > Price}) <= Count(prices)
    /\ 2 * Cardinality({i \in DOMAIN prices : prices[i] < Price}) <= Count(prices)

(* No jumps: a price recorded while the window still counts for something  *)
(* lies within ten percent of the range of the window's prices, whatever   *)
(* order feeds, calls and blocks came in (OracleManager.sol:124-130).      *)
NewPoints == {priceHistory'[i] : i \in DOMAIN priceHistory'}
               \ {priceHistory[i] : i \in DOMAIN priceHistory}
Reach == 2 * MAX_PRICE_DEVIATION + 1
NoJumps ==
  [][TotalWeight > 0 =>
       \A new \in NewPoints :
         /\ \E i \in Window : new.price * BasisPoints < priceHistory[i].price * (BasisPoints + Reach)
         /\ \E i \in Window : new.price * BasisPoints > priceHistory[i].price * (BasisPoints - Reach)]_vars

(* A price the feeds agree on is refused for TWAP_PERIOD at most: refused  *)
(* calls record nothing, so the window empties, and then the feeds'        *)
(* agreement is enough (OracleManager.sol:125-130, :147).                  *)
FeedsAgree == Count(ValidPrices) >= MIN_ORACLES /\ WithinDeviation(ValidPrices)
WindowPassed == \A i \in DOMAIN priceHistory : priceHistory[i].timestamp + TWAP_PERIOD <= now
LockoutEnds == FeedsAgree /\ WindowPassed => PriceAnswers
=============================================================================
