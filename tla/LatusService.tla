----------------------------- MODULE LatusService -----------------------------
(***************************************************************************)
(* The LATUS service facade (src/trams/latus/LATUS_Service.cpp).           *)
(*                                                                         *)
(* The constructor registers one service context per module: the          *)
(* simulator (SIM), the travel-solution provider (TSP) and two inventories *)
(* (INV1, INV2), each inventory with its owner airline code.  Every setter *)
(* forwards its value to the context of one module, looked up by module   *)
(* name.  simulate() generates the inventories from the TSP context, runs *)
(* the simulator on the SIM context, and then has the factory supervisor  *)
(* clean every BOM and service object.                                     *)
(*                                                                         *)
(* LATUS_ServiceAbstract and FacSupervisor are not under src/: the         *)
(* registry is a map from module names to contexts, a context a map from  *)
(* attribute names to values, and cleanFactory() empties the registry.    *)
(* A call whose module has no context is recorded in the flag             *)
(* missingContext (the lookup fails; what it does then is not under src/).*)
(***************************************************************************)
EXTENDS Naturals

CONSTANTS
    RunNumbers,        \* values given to setSimulationRunNumber()
    FileNames,         \* values given to the two input-file setters
    Dates,             \* values given to setStartDate() / setEndDate()
    Inv1AirlineCode,   \* DEFAULT_LATUS_INV1_AIRLINE_CODE
    Inv2AirlineCode,   \* DEFAULT_LATUS_INV2_AIRLINE_CODE
    Unset,             \* an attribute never set
    ReuseAfterSimulate \* whether the caller keeps using the service
                       \* after simulate()

ASSUME ReuseAfterSimulateAssumption == ReuseAfterSimulate \in BOOLEAN

SIM == "SIM"
TSP == "TSP"
INV1 == "INV1"
INV2 == "INV2"

VARIABLES
    serviceContexts,   \* registry: module name -> attribute -> value
    logConfigured,     \* the logger has been given its parameters
    constructed,       \* the LATUS_Service object exists
    simulated,         \* simulate() has returned at least once
    missingContext     \* ghost: a call looked up a module with no context

vars == <<serviceContexts, logConfigured, constructed, simulated,
          missingContext>>

Attributes == {"runNumber", "scheduleFile", "demandFile", "startDate",
               "endDate", "ownerAirline"}

NewContext == [a \in Attributes |-> Unset]

\* A call that looks up the context of module m and sets attribute a to v.
SetAttribute(m, a, v) ==
    IF m \in DOMAIN serviceContexts
    THEN /\ serviceContexts' = [serviceContexts EXCEPT ![m][a] = v]
         /\ UNCHANGED missingContext
    ELSE /\ UNCHANGED serviceContexts
         /\ missingContext' = TRUE

\* A call that only reads the context of module m.
ReadContext(m) ==
    missingContext' = (missingContext \/ m \notin DOMAIN serviceContexts)

\* The caller may still call: the object exists and, unless it keeps
\* using the service afterwards, simulate() has not run yet.
Usable == constructed /\ (ReuseAfterSimulate \/ ~simulated)

Init ==
    /\ serviceContexts = <<>>
    /\ logConfigured = FALSE
    /\ constructed = FALSE
    /\ simulated = FALSE
    /\ missingContext = FALSE

\* init() calling setOwnerAirlineCode() on each inventory before
\* registering it: the lookups run on the empty registry.
InitOwnerFirst ==
    /\ serviceContexts' = [m \in {SIM, TSP, INV1, INV2} |-> NewContext]
    /\ ReadContext(INV1)

\* LATUS_Service() calls init(): register SIM, TSP, then each inventory
\* followed by setOwnerAirlineCode() on it.
InitServices ==
    /\ serviceContexts' =
           [m \in {SIM, TSP, INV1, INV2} |->
               CASE m = INV1 -> [NewContext EXCEPT !["ownerAirline"] =
                                                      Inv1AirlineCode]
                 [] m = INV2 -> [NewContext EXCEPT !["ownerAirline"] =
                                                      Inv2AirlineCode]
                 [] OTHER    -> NewContext]
    /\ UNCHANGED missingContext

Construct ==
    /\ ~constructed
    /\ InitServices
    /\ constructed' = TRUE
    /\ UNCHANGED <<logConfigured, simulated>>

\* setLogParameters(): configures the logger singleton, no context.
SetLogParameters ==
    /\ Usable
    /\ logConfigured' = TRUE
    /\ UNCHANGED <<serviceContexts, constructed, simulated, missingContext>>

SetSimulationRunNumber(n) ==
    /\ Usable
    /\ SetAttribute(SIM, "runNumber", n)
    /\ UNCHANGED <<logConfigured, constructed, simulated>>

SetScheduleInputFilename(f) ==
    /\ Usable
    /\ SetAttribute(TSP, "scheduleFile", f)
    /\ UNCHANGED <<logConfigured, constructed, simulated>>

SetDemandInputFilename(f) ==
    /\ Usable
    /\ SetAttribute(SIM, "demandFile", f)
    /\ UNCHANGED <<logConfigured, constructed, simulated>>

SetStartDate(d) ==
    /\ Usable
    /\ SetAttribute(SIM, "startDate", d)
    /\ UNCHANGED <<logConfigured, constructed, simulated>>

SetEndDate(d) ==
    /\ Usable
    /\ SetAttribute(SIM, "endDate", d)
    /\ UNCHANGED <<logConfigured, constructed, simulated>>

\* simulate() cleaning the factory before running the simulator.
SimulateCleanFirst ==
    /\ Usable
    /\ missingContext' = TRUE
    /\ serviceContexts' = <<>>
    /\ simulated' = TRUE
    /\ UNCHANGED <<logConfigured, constructed>>

\* simulate(): generateInventories(TSP), LATUS_SIM::simulate(SIM), then
\* FacSupervisor::cleanFactory() frees every BOM and service object.
Simulate ==
    /\ Usable
    /\ missingContext' = (missingContext \/ TSP \notin DOMAIN serviceContexts
                                         \/ SIM \notin DOMAIN serviceContexts)
    /\ serviceContexts' = <<>>
    /\ simulated' = TRUE
    /\ UNCHANGED <<logConfigured, constructed>>

Next ==
    \/ Construct
    \/ SetLogParameters
    \/ \E n \in RunNumbers : SetSimulationRunNumber(n)
    \/ \E f \in FileNames : SetScheduleInputFilename(f)
    \/ \E f \in FileNames : SetDemandInputFilename(f)
    \/ \E d \in Dates : SetStartDate(d)
    \/ \E d \in Dates : SetEndDate(d)
    \/ Simulate

Spec == Init /\ [][Next]_vars

-----------------------------------------------------------------------------
\* Every call the facade makes (init()'s setOwnerAirlineCode(), each
\* setter, generateInventories() and LATUS_SIM::simulate()) finds the
\* service context of the module it names, over any order of setter calls
\* before simulate().
ContextsReached == ~missingContext

=============================================================================
