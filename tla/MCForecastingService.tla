------------------------ MODULE MCForecastingService ------------------------
EXTENDS ForecastingService
CONSTANTS BTC, ETH
OneSymbol  == << BTC >>
TwoSymbols == << BTC, ETH >>
=============================================================================
