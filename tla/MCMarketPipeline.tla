-------------------------- MODULE MCMarketPipeline --------------------------
EXTENDS MarketPipeline
CONSTANTS BTC, ETH
OneSymbol  == << BTC >>
TwoSymbols == << BTC, ETH >>
=============================================================================
