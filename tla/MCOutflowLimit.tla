--------------------------- MODULE MCOutflowLimit ---------------------------
\* Windows of one, two and three slots and a disabled limiter; outflows of a
\* half, one and two tokens; three windows of the longest configuration.
EXTENDS OutflowLimit

MCConfigs == {Config(0, 2), Config(1, 2), Config(2, 2), Config(3, 2), Config(3, 0)}
MCQuantities == {WAD \div 2, WAD, 2 * WAD}
MCMaxReleased == 5 * WAD
=============================================================================
