----------------------------- MODULE FindObject -----------------------------
(* The search loop of find_message_object over the developer's array, one      *)
(* iteration a step: the index and the count are eui_variable_count_t, and the *)
(* loop is left by setting the index to the count.                             *)
EXTENDS Integers, FiniteSets

CONSTANTS
    CountValues,        \* 2^width of eui_variable_count_t: 256, or 65536
    dev_tracked_num,    \* number of tracked objects
    Matches             \* sets of indices whose id may equal the search id

ASSUME CountAssumption ==
    /\ CountValues \in Nat \ {0}
    /\ dev_tracked_num \in 0 .. CountValues - 1
    /\ \A named \in Matches : named \subseteq 0 .. dev_tracked_num - 1

None == -1

VARIABLES
    named,          \* the indices of the objects with the search id
    position,       \* the loop's index
    found,          \* found_obj_ptr: an index, or None
    returned        \* the loop was left

search_vars == <<named, position, found, returned>>

SearchInit ==
    /\ named \in Matches
    /\ position = 0
    /\ found = None
    /\ returned = FALSE

\* slips in the next definition: the search goes on, the exit is one past the count
IterateTo(exit) ==
    /\ ~returned /\ position < dev_tracked_num
    /\ IF position \in named
       THEN found' = position /\ position' = exit % CountValues
       ELSE position' = (position + 1) % CountValues /\ UNCHANGED found
    /\ UNCHANGED <<named, returned>>
IterateOn     == IterateTo(position + 1)
IterateBeyond == IterateTo(dev_tracked_num + 2)

\* one pass of the body and the increment
Iterate ==
    /\ ~returned /\ position < dev_tracked_num
    /\ IF position \in named
       THEN found' = position /\ position' = (dev_tracked_num + 1) % CountValues
       ELSE position' = (position + 1) % CountValues /\ UNCHANGED found
    /\ UNCHANGED <<named, returned>>

\* the loop's condition is false
Return ==
    /\ ~returned /\ position >= dev_tracked_num
    /\ returned' = TRUE
    /\ UNCHANGED <<named, position, found>>

SearchNext == Iterate \/ Return

SearchSpec == SearchInit /\ [][SearchNext]_search_vars /\ WF_search_vars(SearchNext)

-----------------------------------------------------------------------------
(* Properties *)

SearchTypeOK ==
    /\ named \in Matches
    /\ position \in 0 .. CountValues - 1
    /\ found \in {None} \cup named
    /\ returned \in BOOLEAN

\* The search returns the first object of that id, and none only if there is none.
FirstMatch ==
    returned =>
        IF named = {} THEN found = None
        ELSE found \in named /\ \A k \in named : found <= k

\* A search that has looked at an object ends.
Terminates == position > 0 ~> returned
=============================================================================
