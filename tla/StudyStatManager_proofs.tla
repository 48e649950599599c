----------------------- MODULE StudyStatManager_proofs -----------------------
(***************************************************************************)
(* Proofs about the aggregator registry of StudyStatManager.cpp.           *)
(*                                                                         *)
(* getStatAggregator(name) inserts a new aggregator under its              *)
(* describeKey() and then finds the NAME again.  The registry keeps every  *)
(* measure exactly when each name is its own aggregator's key, which is    *)
(* the hypothesis KeyedByName below; when it fails for a name that is      *)
(* used, the second find() returns end() and MeasuresKept is violated     *)
(* (the hazard at StudyStatManager.cpp:72).                               *)
(***************************************************************************)
EXTENDS StudyStatManager, TLAPS

\* Every aggregator the callers can create is registered under the name
\* it was built from.
KeyedByName == \A n \in StatNames : DescribeKey(n) = n

\* The inductive strengthening of MeasuresKept: the per-name ghost is a
\* function over the names, so that an addMeasure() for one name leaves
\* the others' entries where MeasuresKept compares them.
IInv ==
    /\ requested \in [StatNames -> Seq(MeasureValues)]
    /\ MeasuresKept

-----------------------------------------------------------------------------
\* What the find-or-insert of getStatAggregator(name) leaves in the map:
\* the name is a key afterwards, and every entry that was there is kept.
LEMMA AfterLookupKeeps ==
    ASSUME KeyedByName, NEW list, NEW name \in StatNames
    PROVE  LET l2 == AfterLookup(list, name)
           IN  /\ name \in DOMAIN l2
               /\ DOMAIN l2 = DOMAIN list \cup {name}
               /\ \A k \in DOMAIN list : l2[k] = list[k]
               /\ name \notin DOMAIN list => l2[name] = <<>>
BY DEF KeyedByName, AfterLookup

\* Init establishes the invariant: no aggregator exists and no measure has
\* been requested.
LEMMA InitIInv == Init => IInv
BY DEF Init, IInv, MeasuresKept

\* Every step of the manager preserves the invariant.
LEMMA NextIInv ==
    ASSUME KeyedByName
    PROVE  IInv /\ [Next]_vars => IInv'
<1> SUFFICES ASSUME IInv, [Next]_vars PROVE IInv'
    OBVIOUS
<1>1. CASE \E name \in StatNames : GetStatAggregatorCall(name)
    <2>1. PICK name \in StatNames : GetStatAggregatorCall(name)
        BY <1>1
    <2>. DEFINE l2 == AfterLookup(statAggregatorStructList, name)
    <2>2. /\ name \in DOMAIN l2
          /\ DOMAIN l2 = DOMAIN statAggregatorStructList \cup {name}
          /\ \A k \in DOMAIN statAggregatorStructList :
                 l2[k] = statAggregatorStructList[k]
          /\ name \notin DOMAIN statAggregatorStructList => l2[name] = <<>>
        BY AfterLookupKeeps
    <2>3. /\ statAggregatorStructList' = l2
          /\ invalidAccess' = invalidAccess
          /\ requested' = requested
        BY <2>1, <2>2 DEF GetStatAggregatorCall, GetStatAggregator,
                          StatAggregatorFound
    <2>4. ASSUME NEW n \in StatNames
          PROVE  requested[n] = IF n \in DOMAIN l2 THEN l2[n] ELSE <<>>
        BY <2>2 DEF IInv, MeasuresKept
    <2>. QED
        BY <2>3, <2>4 DEF IInv, MeasuresKept
<1>2. CASE \E name \in StatNames, v \in MeasureValues : AddMeasure(name, v)
    <2>1. PICK name \in StatNames, v \in MeasureValues : AddMeasure(name, v)
        BY <1>2
    <2>. DEFINE l2 == AfterLookup(statAggregatorStructList, name)
    <2>2. /\ name \in DOMAIN l2
          /\ DOMAIN l2 = DOMAIN statAggregatorStructList \cup {name}
          /\ \A k \in DOMAIN statAggregatorStructList :
                 l2[k] = statAggregatorStructList[k]
          /\ name \notin DOMAIN statAggregatorStructList => l2[name] = <<>>
        BY AfterLookupKeeps
    <2>3. /\ statAggregatorStructList' = [l2 EXCEPT ![name] = Append(@, v)]
          /\ requested' = [requested EXCEPT ![name] = Append(@, v)]
          /\ invalidAccess' = invalidAccess
        BY <2>1, <2>2 DEF AddMeasure, GetStatAggregator
    <2>4. l2[name] = requested[name]
        BY <2>2 DEF IInv, MeasuresKept
    <2>. QED
        BY <2>2, <2>3, <2>4 DEF IInv, MeasuresKept
<1>3. CASE UNCHANGED vars
    BY <1>3 DEF vars, IInv, MeasuresKept
<1>. QED
    BY <1>1, <1>2, <1>3 DEF Next

\* Whenever every name is its own aggregator's key, each measure handed to
\* addMeasure(name, v) is kept, in call order, in the one aggregator
\* registered for that name, and getStatAggregator() never dereferences
\* end(): MeasuresKept holds in every reachable state, for any set of
\* names, of measures and any bound on the calls.
THEOREM MeasuresKeptHolds ==
    ASSUME KeyedByName
    PROVE  Spec => []MeasuresKept
<1>1. Init => IInv
    BY InitIInv
<1>2. IInv /\ [Next]_vars => IInv'
    BY NextIInv
<1>3. IInv => MeasuresKept
    BY DEF IInv
<1>. QED
    BY <1>1, <1>2, <1>3, PTL DEF Spec

=============================================================================
