------------------------- MODULE MCIngestionProcess -------------------------
EXTENDS IngestionProcess
CONSTANTS BTC, ETH
TwoSymbols == << BTC, ETH >>
=============================================================================
