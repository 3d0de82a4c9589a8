----------------------------- MODULE MCPipeline ----------------------------
(* Instances of Pipeline for TLC.                                          *)
EXTENDS Pipeline, TLC

CONSTANTS S1, S2, S3, T1, T2, T3

\* The code's ceilings; the total and per-strategy ones are scaled down so that
\* each of the four binds somewhere in a book of three strategies and tickers.
SmallGlobal == [perTradePct |-> 2, total |-> 2, perStrategy |-> 1, perTicker |-> 1,
                openRiskPct |-> 5]
Loose == [perTradePct |-> 3, total |-> 9, perStrategy |-> 9, perTicker |-> 9,
          openRiskPct |-> 9]

LooseParams == [s \in Strategies |-> Loose]

\* One strategy, one ticker: the decisions on proposals are what matters.
OneDraft == {[strategy |-> S1, ticker |-> T1, side |-> "long", entry |-> 5, stop |-> 4]}

\* A second ticker for one strategy, a second strategy for one ticker, a third
\* strategy for the total.
BookDrafts ==
  {[strategy |-> k[1], ticker |-> k[2], side |-> k[3], entry |-> 5, stop |-> k[4]] :
     k \in {<<S1, T1, "long", 4>>, <<S1, T2, "long", 4>>, <<S2, T1, "short", 6>>,
            <<S3, T3, "short", 6>>}}

\* The handlers are interchangeable.
RequestSymmetry == Permutations(Requests)
============================================================================
