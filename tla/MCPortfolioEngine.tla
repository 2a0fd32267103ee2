------------------------- MODULE MCPortfolioEngine -------------------------
EXTENDS PortfolioEngine
\* A loss of more than everything, no change, a gain.
MCReturns == { -2, 0, 1 }
=============================================================================
