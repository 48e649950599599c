------------------------- MODULE LatusService_proofs -------------------------
(***************************************************************************)
(* Proofs about the LATUS facade of LATUS_Service.cpp, for a caller that   *)
(* uses the service once (ReuseAfterSimulate = FALSE): simulate() is its   *)
(* last call.  A caller that goes on using the object after simulate()     *)
(* reaches a registry emptied by cleanFactory(), which the run            *)
(* latus_reuse shows.                                                      *)
(***************************************************************************)
EXTENDS LatusService, TLAPS

\* The inductive strengthening of ContextsReached: while the caller may
\* still call, the registry holds the contexts that the setters and
\* simulate() look up.
IInv ==
    /\ ContextsReached
    /\ Usable => {SIM, TSP} \subseteq DOMAIN serviceContexts

\* Setting an attribute of a context never adds or removes a module of
\* the registry.
LEMMA SetAttributeKeepsModules ==
    ASSUME NEW m, NEW a, NEW v, SetAttribute(m, a, v)
    PROVE  DOMAIN serviceContexts' = DOMAIN serviceContexts
BY DEF SetAttribute

\* Every step of a single-use caller preserves the invariant.
LEMMA NextIInv ==
    ASSUME ReuseAfterSimulate = FALSE
    PROVE  IInv /\ [Next]_vars => IInv'
<1> SUFFICES ASSUME IInv, [Next]_vars PROVE IInv'
    OBVIOUS
<1>. USE DEF IInv, ContextsReached, Usable
<1>1. CASE Construct
    BY <1>1 DEF Construct, InitServices
<1>2. CASE SetLogParameters
    BY <1>2 DEF SetLogParameters
<1>3. ASSUME NEW m \in {SIM, TSP}, NEW a, NEW v,
             Usable, SetAttribute(m, a, v),
             UNCHANGED <<logConfigured, constructed, simulated>>
      PROVE  IInv'
    BY <1>3, SetAttributeKeepsModules DEF SetAttribute
<1>4. CASE \E n \in RunNumbers : SetSimulationRunNumber(n)
    BY <1>4, <1>3 DEF SetSimulationRunNumber
<1>5. CASE \E f \in FileNames : SetScheduleInputFilename(f)
    BY <1>5, <1>3 DEF SetScheduleInputFilename
<1>6. CASE \E f \in FileNames : SetDemandInputFilename(f)
    BY <1>6, <1>3 DEF SetDemandInputFilename
<1>7. CASE \E d \in Dates : SetStartDate(d)
    BY <1>7, <1>3 DEF SetStartDate
<1>8. CASE \E d \in Dates : SetEndDate(d)
    BY <1>8, <1>3 DEF SetEndDate
<1>9. CASE Simulate
    BY <1>9 DEF Simulate
<1>10. CASE UNCHANGED vars
    BY <1>10 DEF vars
<1>. QED
    BY <1>1, <1>2, <1>4, <1>5, <1>6, <1>7, <1>8, <1>9, <1>10 DEF Next

\* For a caller that uses the service once, every lookup the facade makes
\* (init()'s setOwnerAirlineCode(), each setter, generateInventories() and
\* LATUS_SIM::simulate()) finds its module's context, whatever the values
\* and the order of the setter calls: ContextsReached holds in every
\* reachable state.
THEOREM ContextsReachedHolds ==
    ASSUME ReuseAfterSimulate = FALSE
    PROVE  Spec => []ContextsReached
<1>1. Init => IInv
    BY DEF Init, IInv, ContextsReached, Usable
<1>2. IInv /\ [Next]_vars => IInv'
    BY NextIInv
<1>3. IInv => ContextsReached
    BY DEF IInv
<1>. QED
    BY <1>1, <1>2, <1>3, PTL DEF Spec

=============================================================================
