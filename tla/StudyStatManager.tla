--------------------------- MODULE StudyStatManager --------------------------
(***************************************************************************)
(* The registry of named statistic aggregators of RMOL                     *)
(* (src/rmol/rmol/bom/StudyStatManager.cpp).                               *)
(*                                                                         *)
(* The manager keeps a std::map from a key to a StatAggregatorStruct.      *)
(* getStatAggregator(name) looks the name up, and on a miss builds an      *)
(* aggregator for the name, inserts it under the aggregator's own          *)
(* describeKey(), and looks the NAME up again before dereferencing the     *)
(* result.  addMeasure(name, v) appends v to the aggregator it gets back.  *)
(*                                                                         *)
(* StatAggregatorStruct is not under src/: an aggregator is abstracted to  *)
(* the sequence of measures it was given, and its describeKey() is the     *)
(* constant operator DescribeKey.  Dereferencing the end() iterator is     *)
(* undefined; the model records it in the flag invalidAccess and leaves   *)
(* the map as it is.                                                       *)
(***************************************************************************)
EXTENDS Integers, Sequences

CONSTANTS
    StatNames,       \* aggregator names the callers use
    MeasureValues,   \* measures they add
    MaxMeasures,     \* bound on the addMeasure() calls per name
    DescribeKey(_)   \* StatAggregatorStruct(name).describeKey()

ASSUME MaxMeasuresAssumption == MaxMeasures \in Nat

VARIABLES
    statAggregatorStructList,  \* _statAggregatorStructList: key -> measures
    requested,                 \* ghost: measures passed per name
    invalidAccess              \* ghost: end() was dereferenced

vars == <<statAggregatorStructList, requested, invalidAccess>>

\* The map after the find-or-insert of getStatAggregator(name): on a miss,
\* a fresh aggregator is inserted under its describeKey(), unless that key
\* is taken (std::map::insert leaves an existing entry alone).
AfterLookup(list, name) ==
    IF name \in DOMAIN list \/ DescribeKey(name) \in DOMAIN list
    THEN list
    ELSE [k \in DOMAIN list \cup {DescribeKey(name)} |->
              IF k \in DOMAIN list THEN list[k] ELSE <<>>]

\* getStatAggregator() replacing the entry on every call, as
\* `_statAggregatorStructList[name] = StatAggregatorStruct_T(...)` would.
AfterLookupReplacing(list, name) ==
    [k \in DOMAIN list \cup {DescribeKey(name)} |->
        IF k = DescribeKey(name) THEN <<>> ELSE list[k]]

\* getStatAggregator(name): the reference returned is the entry found by
\* the second find(name); a miss there is a dereference of end().
GetStatAggregator(list, name) == AfterLookup(list, name)

StatAggregatorFound(name) ==
    name \in DOMAIN GetStatAggregator(statAggregatorStructList, name)

Init ==
    /\ statAggregatorStructList = <<>>
    /\ requested = [n \in StatNames |-> <<>>]
    /\ invalidAccess = FALSE

\* A caller takes a reference to an aggregator and adds nothing yet.
GetStatAggregatorCall(name) ==
    /\ statAggregatorStructList' =
           GetStatAggregator(statAggregatorStructList, name)
    /\ invalidAccess' = invalidAccess \/ ~StatAggregatorFound(name)
    /\ UNCHANGED requested

\* addMeasure(name, v): get (or create) the aggregator, then append v.
AddMeasure(name, v) ==
    LET list == GetStatAggregator(statAggregatorStructList, name)
    IN  /\ Len(requested[name]) < MaxMeasures
        /\ requested' = [requested EXCEPT ![name] = Append(@, v)]
        /\ IF name \in DOMAIN list
           THEN /\ statAggregatorStructList' =
                       [list EXCEPT ![name] = Append(@, v)]
                /\ UNCHANGED invalidAccess
           ELSE /\ statAggregatorStructList' = list
                /\ invalidAccess' = TRUE

Next ==
    \/ \E name \in StatNames : GetStatAggregatorCall(name)
    \/ \E name \in StatNames, v \in MeasureValues : AddMeasure(name, v)

Spec == Init /\ [][Next]_vars

-----------------------------------------------------------------------------
\* Every measure handed to addMeasure(name, v), over any sequence of calls
\* for several names, ends up in the one aggregator registered for that
\* name, in call order: a later getStatAggregator() neither loses nor
\* duplicates what an earlier call recorded, and no call dereferences the
\* end() of the map.
MeasuresKept ==
    /\ ~invalidAccess
    /\ \A n \in StatNames :
           requested[n] = IF n \in DOMAIN statAggregatorStructList
                          THEN statAggregatorStructList[n] ELSE <<>>

=============================================================================
