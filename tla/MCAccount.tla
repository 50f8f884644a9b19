------------------------------- MODULE MCAccount -------------------------------
(***************************************************************************)
(* What surrounds the trades of an account, side by side as nothing is     *)
(* shared: the bars its bots read, the size of their entries, what they do *)
(* when the key is refused, and the records of one bot.  A behaviour is    *)
(* one of one part, chosen at the start.                                   *)
(***************************************************************************)
EXTENDS Ledger, Sizing, Candles, KeyGuard

CONSTANT MaxTrades   \* bound: trades per behaviour

VARIABLE part

vars == <<part, records, funds, candles, guards>>

OfRecords(A) == part = "records" /\ A /\ UNCHANGED <<part, funds, candles, guards>>
OfFunds(A)   == part = "funds" /\ A /\ UNCHANGED <<part, records, candles, guards>>
OfCandles(A) == part = "candles" /\ A /\ UNCHANGED <<part, records, funds, guards>>
OfKeys(A)    == part = "keys" /\ A /\ UNCHANGED <<part, records, funds, candles>>

SomeTrades == 1..MaxTrades

\* A loss that is a drawdown, and a profit.
SomeResults == {-200, 100}

Init ==
    /\ part \in {"records", "funds", "candles", "keys"}
    /\ LedgerInit /\ SizingInit /\ CandlesInit /\ KeyGuardInit
    /\ part # "funds" => account.symbols = Symbols /\ account.riskBased /\ account.unified

Next == OfRecords(LedgerNext) \/ OfFunds(SizingNext) \/ OfCandles(CandlesNext)
        \/ OfKeys(KeyGuardNext)

\* The bot's task is scheduled, its calls return and a stopped bot starts again.
Spec == Init /\ [][Next]_vars /\ WF_vars(OfRecords(BotRuns) \/ OfKeys(Steps))
=============================================================================
