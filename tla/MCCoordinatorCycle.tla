--------------------------- MODULE MCCoordinatorCycle ---------------------------
\* The coordinator's own graph of nodes, two cycles at a time, one override mode.
EXTENDS CoordinatorCycle, PipelineNodes

MCNodes    == DOMAIN Pipeline
MCOutput   == [n \in MCNodes |-> Pipeline[n].output]
MCConsumes == [n \in MCNodes |-> Pipeline[n].consumes]
MCOptional == [n \in MCNodes |-> Pipeline[n].optional]

MCAbsent == {{}, {"InverterModeReading"}, {"PriceFeedData"}}
MCFlaky  == {{}, {"Profitability", "ObservedGrid"}}
=============================================================================
