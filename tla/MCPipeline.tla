----------------------------- MODULE MCPipeline -----------------------------
EXTENDS Pipeline

CONSTANTS spot, vix

MCTimeframes == <<2, 3>>
MCWanted == {{spot}, {vix, spot}}

Tick(tok, time, ltp) == [tok |-> tok, time |-> time, ltp |-> ltp]
(* Ticks on the boundaries of candles, several in a second, a late one,    *)
(* and a gap that closes both candles at once.                             *)
MCTapes ==
    {<<Tick(spot, 0, 2), Tick(spot, 2, 1), Tick(spot, 4, 3)>>,
     <<Tick(spot, 1, 1), Tick(vix, 1, 1), Tick(spot, 1, 2)>>,
     <<Tick(spot, 2, 2), Tick(spot, 1, 3), Tick(spot, 6, 1)>>}
=============================================================================
