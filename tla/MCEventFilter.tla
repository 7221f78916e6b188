--------------------------- MODULE MCEventFilter ---------------------------
(* A small instance of EventFilter for TLC: filters of three keys, two of   *)
(* them sharing a list.                                                     *)
EXTENDS EventFilter

MCFilter(kind, rel, include, value) ==
    [kind |-> kind, rel |-> rel, include |-> include, value |-> value]

MCFilters == {MCFilter("PID", "LargerThan", TRUE, 8),
              MCFilter("PID", "SmallerThan", TRUE, 8),
              MCFilter("EventPath", "Contain", FALSE, {"sys"}),
              MCFilter("EventPath", "NotContain", TRUE, {"tmp"}),
              MCFilter("BriefResult", "Is", TRUE, {"success"})}

\* The attributes no filter of the instance looks at.
MCRest == [kind \in Kinds \ {"PID", "EventPath", "BriefResult"} |-> 0]

MCEvents == {[PID |-> pid, EventPath |-> path, BriefResult |-> result] @@ MCRest :
               pid \in {4, 8, 12}, path \in SUBSET {"sys", "tmp"},
               result \in {{"success"}, {"denied"}}}
=============================================================================
