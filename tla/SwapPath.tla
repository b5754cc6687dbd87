------------------------------- MODULE SwapPath -------------------------------
(***************************************************************************)
(* The way of one swap: from the transaction of a followed wallet, or from *)
(* a button of the bot, to the swap record.                                *)
(*   parse    RawTXParser: what did the wallet do                          *)
(*   decide   _process_copytrade: the swap event of a follower             *)
(*   route    TradingExecutor.find_route and TradingService                *)
(*   build    the builders of the four routes: amount and budget           *)
(*   send     the sender                                                   *)
(*   poll     validate, up to Polls requests for the status                *)
(*   analyze, record   SwapSettlementProcessor.process                     *)
(* TradingPipeline has the retries around exec and process, and what       *)
(* happens to several swaps; here it is what one swap says and amounts to. *)
(*                                                                         *)
(* Token amounts are raw units, Unit of them are one token. An amount the  *)
(* code carries as a float is a fraction, num / den tokens; int() of a     *)
(* float that should be an integer may be one less (Truncated).  The       *)
(* amounts of SOL use the same Unit. Prices and slippage are left out.     *)
(***************************************************************************)
EXTENDS Integers

CONSTANTS
  Decimals,     \* the decimals of the token
  Unit,         \* 10 ^ Decimals
  Amount,       \* bound: the balances and amounts tried
  Percent,      \* bound: the percentages a user sells
  Polls         \* requests for the status, 60 in the code

ASSUME ConstantsAssumption ==
  /\ Decimals \in Nat \ {0} /\ Unit \in Nat \ {0}
  /\ Amount \subseteq Nat /\ Percent \subseteq 1..100
  /\ Polls \in Nat \ {0}

VARIABLES
  step,         \* the step that comes next
  trade,        \* balances of the wallet before and after, and what it did
  order,        \* the swap event, the follower's or user's holding and, when the
                \* amount is one of tokens or SOL, what was asked for in raw units
  program,      \* program_id of the swap event
  route,
  sold,         \* the raw amount the instructions name
  budget,       \* pairs of compute budget instructions in the transaction
  sender,
  chain,        \* what the chain knows of the transaction
  polls,        \* requests answered so far
  status        \* status of the swap record

pathVars == <<step, trade, order, program, route, sold, budget, sender, chain, polls, status>>

NoTrade == [pre |-> 0, post |-> 0]
NoOrder == [by |-> "user", side |-> "buy", inType |-> "qty", num |-> 0, den |-> 1,
            asked |-> 0, holding |-> 0]

Ends == {"dismissed", "skipped", "failed", "recorded"}
Steps == {"start", "decide", "route", "build", "send", "poll", "analyze", "record"} \cup Ends
Chain == {"unknown", "sent", "dropped", "processed", "confirmed", "finalized",
          "processedErr", "confirmedErr", "finalizedErr"}

\* The order is there from routing on, amounts are natural numbers, and the
\* record's status appears with the last poll.
TypeOK ==
  /\ step \in Steps
  /\ trade \in [pre : Nat, post : Nat]
  /\ order \in [by : {"user", "copytrade"}, side : {"buy", "sell"}, inType : {"qty", "pct"},
                num : Nat, den : Nat \ {0}, asked : Nat, holding : Nat]
  /\ program \in {"none", "pump", "raydium", "meteora"}
  /\ route \in {"none", "PUMP", "RAYDIUM_V4", "DEX", "METEORA_DBC"}
  /\ sold \in Nat /\ budget \in 0..2
  /\ sender \in {"none", "default", "jito"}
  /\ chain \in Chain /\ polls \in 0..Polls
  /\ status \in {"none", "SUCCESS", "FAILED", "EXPIRED"}
  /\ step \in {"start", "decide"} => order = NoOrder
  /\ step \in {"analyze", "record", "recorded"} <=> status # "none" /\ step # "failed"

Init ==
  /\ step = "start" /\ trade = NoTrade /\ order = NoOrder
  /\ program = "none" /\ route = "none" /\ sold = 0 /\ budget = 0 /\ sender = "none"
  /\ chain = "unknown" /\ polls = 0 /\ status = "none"

-----------------------------------------------------------------------------
(***************************************************************************)
(* RawTXParser.get_tx_type                                                 *)
(***************************************************************************)
TxTypeStrict(pre, post) ==    \* mutant: any rest below a token counts as nothing
  CASE post > pre /\ pre = 0          -> "open"
    [] post > pre /\ pre # 0          -> "add"
    [] post < pre /\ post < Unit      -> "close"
    [] post < pre /\ ~(post < Unit)   -> "reduce"
    [] OTHER                          -> "unchanged"

\* A rest below a thousandth of a token counts as nothing.
TxType(pre, post) ==
  CASE post > pre /\ pre = 0                          -> "open"
    [] post > pre /\ pre # 0                          -> "add"
    [] post < pre /\ pre > 0 /\ post * 1000 < Unit    -> "close"
    [] post < pre /\ ~(pre > 0 /\ post * 1000 < Unit) -> "reduce"
    [] OTHER                                          -> "unchanged"

\* No change raises ZeroChangeAmountError.
Parse ==
  /\ step = "start"
  /\ \E pre, post \in Amount :
       /\ trade' = [pre |-> pre, post |-> post]
       /\ step' = IF TxType(pre, post) = "unchanged" THEN "dismissed" ELSE "decide"
  /\ UNCHANGED <<order, program, route, sold, budget, sender, chain, polls, status>>

-----------------------------------------------------------------------------
(***************************************************************************)
(* The swap event                                                          *)
(***************************************************************************)
\* round(x, 4), in ten-thousandths
Rounded(n, d) == (2 * 10000 * n + d) \div (2 * d)

SellShare(pre, post) ==
  IF TxType(pre, post) = "close" THEN 10000 ELSE Rounded(pre - post, pre)

Ordered(o) == order' = o /\ step' = "route"

\* int() of the float n / d
Truncated(n, d) == {n \div d} \cup (IF n % d = 0 /\ n > 0 THEN {n \div d - 1} ELSE {})

\* int(int(balance.balance * balance.decimals) * sell_pct): balance.balance is a
\* number of tokens, and it is multiplied by the NUMBER of decimals.
CopiedParts(holding, share) ==
  UNION {IF share = 10000 THEN {t} ELSE Truncated(t * share, 10000) :
           t \in Truncated(holding * Decimals, Unit)}

\* A buy is copied with the follower's fixed amount. A sale is copied with that many
\* Decimals-ths of a token, and calls itself a share.
CopyOrders(pre, post, amount, holding) ==
  IF TxType(pre, post) \in {"open", "add"}
  THEN {[by |-> "copytrade", side |-> "buy", inType |-> "qty", num |-> amount, den |-> Unit,
         asked |-> amount, holding |-> holding]}
  ELSE {[by |-> "copytrade", side |-> "sell", inType |-> "pct", num |-> k, den |-> Decimals,
         asked |-> 0, holding |-> holding] : k \in CopiedParts(holding, SellShare(pre, post))}

\* Settings, errors and a zero holding end it (CopyTrade).
Decide ==
  /\ step = "decide"
  /\ \/ step' = "skipped" /\ UNCHANGED <<order, program>>
     \/ /\ \E amount, holding \in Amount \ {0} :
             \E o \in CopyOrders(trade.pre, trade.post, amount, holding) : Ordered(o)
        /\ program' \in {"none", "pump", "raydium", "meteora"}
  /\ UNCHANGED <<trade, route, sold, budget, sender, chain, polls, status>>

\* The buttons of the bot. The amounts of a sale come from the balance; nothing
\* left to sell is refused.
UserBuy ==
  /\ step = "start"
  /\ \E amount \in Amount \ {0} :
       Ordered([NoOrder EXCEPT !.num = amount, !.den = Unit, !.asked = amount])
  /\ UNCHANGED <<trade, program, route, sold, budget, sender, chain, polls, status>>

UserSell ==
  /\ step = "start"
  /\ \E holding \in Amount, percent \in Percent :
       LET amount == IF percent = 100 THEN holding ELSE (holding * percent) \div 100
       IN IF amount = 0 THEN step' = "skipped" /\ UNCHANGED order
          ELSE Ordered([NoOrder EXCEPT !.side = "sell", !.num = amount, !.den = Unit,
                                       !.asked = amount, !.holding = holding])
  /\ UNCHANGED <<trade, program, route, sold, budget, sender, chain, polls, status>>

-----------------------------------------------------------------------------
(***************************************************************************)
(* TradingExecutor.find_route                                              *)
(***************************************************************************)
\* pumpNamed: the mint ends in "pump"; known: the launch cache answered, an
\* error of it is logged.  METEORA_DBC_PROGRAM is a Pubkey, program_id a string:
\* they are never equal, and neither is Raydium's after a failed pump.
FindRoute(p, pumpNamed, launched, known) ==
  IF known /\ (p = "pump" \/ (pumpNamed /\ ~launched)) THEN "PUMP"
  ELSE IF p = "raydium" THEN "RAYDIUM_V4"
  ELSE IF p = "none" THEN "DEX"
  ELSE "unsupported"

Route ==
  /\ step = "route"
  /\ \E pumpNamed, launched, known \in BOOLEAN :
       LET r == FindRoute(program, pumpNamed, launched, known)
       IN IF r = "unsupported" THEN step' = "failed" /\ UNCHANGED route
          ELSE step' = "build" /\ route' = r
  /\ UNCHANGED <<trade, order, program, sold, budget, sender, chain, polls, status>>

-----------------------------------------------------------------------------
(***************************************************************************)
(* The builders                                                            *)
(***************************************************************************)
\* int(ui_amount * 10 ** decimals)
Quantity(o) == Truncated(o.num * Unit, o.den)

PumpShare(o) ==       \* mutant: a sale is always taken for a share
  IF o.side = "buy" THEN Quantity(o)
  ELSE IF o.num >= o.den THEN {o.holding}
  ELSE {(o.holding * o.num) \div o.den}

\* A share of one or more sells everything (and closes the account).
PumpAmounts(o) ==
  IF o.inType = "qty" THEN Quantity(o)
  ELSE IF o.num >= o.den THEN {o.holding}
  ELSE {(o.holding * o.num) \div o.den}

\* A percentage is at most 100, and a hundredth of it is sold.
RaydiumAmounts(o) ==
  IF o.side = "buy" \/ o.inType = "qty" THEN Quantity(o)
  ELSE IF o.num = 0 \/ o.num > 100 * o.den THEN {}
  ELSE Truncated(o.holding * o.num, 100 * o.den)

DexShare(o) ==        \* mutant: the copied amount reaches Jupiter undivided
  IF o.inType = "pct" THEN {o.num * Unit} ELSE Quantity(o)

\* Jupiter takes every amount for a number of tokens.
DexAmounts(o) == Quantity(o)

Amounts(r, o) ==
  CASE r = "PUMP"        -> PumpAmounts(o)
    [] r = "METEORA_DBC" -> PumpAmounts(o)
    [] r = "RAYDIUM_V4"  -> RaydiumAmounts(o)
    [] r = "DEX"         -> DexAmounts(o)
    [] OTHER             -> {}

\* build_transaction: the budget is inserted once, and once more for a fee that is
\* not paid through Jito.  Jupiter builds its own.
BudgetPairs(r, jito, fee) == IF r = "DEX" THEN 1 ELSE IF fee /\ ~jito THEN 2 ELSE 1

\* use_route is called without use_jito, so that the default sender is selected.
\* An amount of zero is refused, here or by the program it names, and any request of
\* a builder may fail.
Build ==
  /\ step = "build"
  /\ \/ step' = "failed" /\ UNCHANGED <<sold, budget, sender>>
     \/ /\ sold' \in Amounts(route, order) \ {0}
        /\ \E jito, fee \in BOOLEAN :
             /\ (route = "DEX" /\ jito) => fee
             /\ budget' = BudgetPairs(route, jito, fee)
        /\ sender' = "default" /\ step' = "send"
  /\ UNCHANGED <<trade, order, program, route, chain, polls, status>>

\* A transaction with the budget twice is rejected, by the node or, without its
\* preflight check, by the leader.
Send ==
  /\ step = "send"
  /\ \/ step' = "failed" /\ UNCHANGED chain
     \/ step' = "poll" /\ chain' = IF budget = 1 THEN "sent" ELSE "dropped"
  /\ UNCHANGED <<trade, order, program, route, sold, budget, sender, polls, status>>

-----------------------------------------------------------------------------
(***************************************************************************)
(* The chain, and the settlement                                           *)
(***************************************************************************)
Advances(c) ==
  CASE c = "sent"         -> {"dropped", "processed", "processedErr"}
    [] c = "processed"    -> {"confirmed"}
    [] c = "confirmed"    -> {"finalized"}
    [] c = "processedErr" -> {"confirmedErr"}
    [] c = "confirmedErr" -> {"finalizedErr"}
    [] OTHER              -> {}

ChainStep ==
  /\ step \in {"poll", "analyze", "record"}
  /\ chain' \in Advances(chain)
  /\ UNCHANGED <<step, trade, order, program, route, sold, budget, sender, polls, status>>

Landed == chain \in {"confirmed", "finalized", "confirmedErr", "finalizedErr"}

\* validate_transaction knows "confirmed" alone: "processed" and "finalized" are no
\* answer.
Answer ==
  CASE chain = "confirmed"    -> "SUCCESS"
    [] chain = "confirmedErr" -> "FAILED"
    [] OTHER                  -> "none"

PollForever ==        \* mutant: an error of the request is not counted
  /\ step = "poll" /\ polls < Polls
  /\ IF Answer # "none" THEN status' = Answer /\ step' = "analyze" /\ UNCHANGED polls
     ELSE UNCHANGED <<status, step, polls>>
  /\ UNCHANGED <<trade, order, program, route, sold, budget, sender, chain>>

\* A failed request is no answer either. The last one makes the record EXPIRED.
Poll ==
  /\ step = "poll" /\ polls < Polls
  /\ polls' = polls + 1
  /\ \E answered \in BOOLEAN :
       IF answered /\ Answer # "none" THEN status' = Answer /\ step' = "analyze"
       ELSE IF polls' = Polls THEN status' = "EXPIRED" /\ step' = "analyze"
       ELSE UNCHANGED <<status, step>>
  /\ UNCHANGED <<trade, order, program, route, sold, budget, sender, chain>>

AnalyzeLoose ==       \* mutant: a transaction Helius does not know gives empty data
  /\ step = "analyze" /\ step' \in {"record", "failed"}
  /\ UNCHANGED <<trade, order, program, route, sold, budget, sender, chain, polls, status>>

\* Helius has the transactions that are on the chain, sooner or later; the others
\* raise.
Analyze ==
  /\ step = "analyze"
  /\ step' = "failed" \/ (Landed /\ step' = "record")
  /\ UNCHANGED <<trade, order, program, route, sold, budget, sender, chain, polls, status>>

RecordResult ==
  /\ step = "record"
  /\ step' \in {"recorded", "failed"}
  /\ UNCHANGED <<trade, order, program, route, sold, budget, sender, chain, polls, status>>

Step ==
  \/ Parse \/ Decide \/ UserBuy \/ UserSell \/ Route \/ Build \/ Send
  \/ Poll \/ Analyze \/ RecordResult

Next == Step \/ ChainStep

Spec == Init /\ [][Next]_pathVars

\* Every request of the path has a timeout.
FairSpec == Spec /\ WF_pathVars(Step)

-----------------------------------------------------------------------------
(***************************************************************************)
(* Properties                                                              *)
(***************************************************************************)
Built == step \in {"send", "poll", "analyze", "record", "recorded"}

\* Whatever is rounded, capped or taken for another unit on the way, no route
\* ever asks the chain to sell more than the wallet holds.
NeverOversells == (Built /\ order.side = "sell") => sold <= order.holding

\* A user's order, and a follower's fixed buy, is carried out to the unit: the
\* same amount on every route, or one less where a float is truncated.
AskedIsTraded ==
  (Built /\ order.inType = "qty") => sold \in {order.asked, order.asked - 1}

\* A swap record is written only for a transaction that is on the chain, and
\* success or failure is the chain's.
RecordHonest ==
  step = "recorded" =>
    /\ Landed
    /\ status = "SUCCESS" => chain \in {"confirmed", "finalized"}
    /\ status = "FAILED" => chain \in {"confirmedErr", "finalizedErr"}

\* What a copied sale sells against the share the wallet sold, on the way that takes
\* the amount for the number of tokens it is: the share up to the four digits it is
\* rounded to, or everything when the wallet has less than a thousandth of a token
\* left; and less than that by no more than the two int() of Decimals-ths of a token
\* and the one of raw units lose.
Exact == order.holding * (trade.pre - trade.post)
Rounding == (order.holding * trade.pre) \div 20000 + 1
Lost == (2 * Unit) \div Decimals + 2
Emptied == trade.post * 1000 < Unit

CopiedSale == Built /\ order.by = "copytrade" /\ order.side = "sell"

ShareFollows ==
  (CopiedSale /\ route = "DEX") =>
    IF Emptied THEN sold <= order.holding /\ order.holding <= sold + Lost
    ELSE /\ sold * trade.pre <= Exact + Rounding
         /\ Exact <= (sold + Lost) * trade.pre + Rounding

\* What becomes of an order between the user or the copied wallet, the builder of a
\* route and the record: an amount is the one asked for, through Jupiter a copied sale
\* is the share that was sold, and a status is the chain's.
Inv == TypeOK /\ AskedIsTraded /\ ShareFollows /\ RecordHonest

\* Every swap comes to an end: dismissed, skipped, failed or recorded.
EverySwapEnds == <>(step \in Ends)

(***************************************************************************)
(* What the code says of itself and does not do                            *)
(***************************************************************************)
\* copytrade.py:73 "卖出比例" (the share to sell), types/swap.py:19 amount_pct "百分比
\* 0-1": on every route a copied sale sells at most the share the wallet sold.  The
\* builders of Pump and Raydium take the number of tokens for a share or a percentage.
CopiesTheShare == CopiedSale => Emptied \/ sold * trade.pre <= Exact + Rounding

\* copytrade.py:71 "全部卖出" (sell everything): when the wallet closes, so does the copy.
CloseSellsAll ==
  (CopiedSale /\ trade.post = 0) => sold = order.holding

\* processor.py:56 EXPIRED "交易超时": an expired transaction is not on the chain.
ExpiredMeansAbsent == (step = "recorded" /\ status = "EXPIRED") => ~Landed

\* constants.py:46 and the branch at executor.py:85: swaps of Meteora DBC have a route.
MeteoraRouted == [][(step = "route" /\ program = "meteora") => step' = "build"]_pathVars

\* tx.py:50 "Priority fee": a custom fee makes a transaction the chain accepts.
OneBudget == budget <= 1
===============================================================================
