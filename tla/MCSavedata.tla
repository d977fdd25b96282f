----------------------------- MODULE MCSavedata -----------------------------
EXTENDS Savedata

CONSTANTS US, EU

MCDirs      == {US, EU}
MCFallbacks == <<US, EU>>
MCBoth      == {US, EU}
MCContents  == 0 .. 1
=============================================================================
