---------------------------- MODULE MCFindObject ----------------------------
(* Positions of the searched id for TLC: nowhere, the ends, the middle, twice. *)
EXTENDS FindObject

Positions == {{}, {0}, {1}, {100}, {dev_tracked_num - 1}, {0, dev_tracked_num - 1},
              {100, 101}, {dev_tracked_num - 2, dev_tracked_num - 1}}
=============================================================================
