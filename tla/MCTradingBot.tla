---------------------------- MODULE MCTradingBot ----------------------------
EXTENDS TradingBotProps
NoFaults == {}
NoInputs == {}
AllInputs == InputKind
=============================================================================
