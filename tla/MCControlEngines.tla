--------------------------- MODULE MCControlEngines ---------------------------
EXTENDS ControlEngines, ControlPrograms

\* The LETs keep the tables out of the cost model TLC builds for coverage.
ShortCircuitSources == LET sources == ShortCircuitTrees IN sources
ShortCircuitPrograms == LET programs == ShortCircuitPrepared IN programs
MCShortCircuitRaising == {"right"}
=============================================================================
