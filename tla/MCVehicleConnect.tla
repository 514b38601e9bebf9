--------------------------- MODULE MCVehicleConnect ---------------------------
(* Vehicles that support everything, or rally points but no geofence; one    *)
(* that does not answer supports nothing.                                    *)
EXTENDS VehicleConnect

AllCapabilities == {Bits}
SomeCapabilities == {Bits \ {"Fence"}}

\* A request that fails has the effect of one that is given up unanswered.
AllAcknowledgements == CommandAck
OnlyAccepted == [command : Handshake, result : {"Accepted"}]

\* Nothing the runs check depends on the signals of the last step.
WithoutResults == <<queueVars, vehicleVars, planVars, active>>
=============================================================================
