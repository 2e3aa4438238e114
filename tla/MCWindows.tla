------------------------------ MODULE MCWindows ------------------------------
(* Windows with the values TLC gives its constants. *)
EXTENDS Windows

OneMore    == 1..3
OnlyMain   == {2}
OnlyBottom == {1}

Scene(lines, threshold, names, maxdot, activities, depth) ==
  [ ScreenLength |-> lines, SplitHeightThreshhold |-> threshold, names |-> names,
    maxdot |-> maxdot, activities |-> activities, depth |-> depth ]

AllScenes ==
  { Scene(8, 6, {2, 3}, 2, {}, 0),                   \* three windows
    Scene(6, 5, {3}, 2, {"getstr", "excursion"}, 1), \* answers and excursions
    Scene(7, 6, {2, 3}, 1, {"windows"}, 1) }         \* whole layouts put back
==============================================================================
