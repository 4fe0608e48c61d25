--------------------------- MODULE MCSensorHistory ---------------------------
(* Settings of a sensor, which a user changes. *)
EXTENDS SensorHistory

Plain == [incremental |-> FALSE, round |-> 0, store |-> TRUE, duplicate |-> TRUE,
          max |-> 0, expire |-> 0]

AllSettings ==
  { Plain,
    [Plain EXCEPT !.duplicate = FALSE],
    [Plain EXCEPT !.round = 2],
    [Plain EXCEPT !.round = 2, !.duplicate = FALSE, !.max = 2],
    [Plain EXCEPT !.duplicate = FALSE, !.max = 1, !.expire = 2],
    [Plain EXCEPT !.incremental = TRUE, !.round = 2],
    [Plain EXCEPT !.incremental = TRUE, !.duplicate = FALSE, !.max = 1],
    [Plain EXCEPT !.duplicate = FALSE, !.store = FALSE] }

\* A value is stored at once or two seconds late.
SomeLags == {0, 2}

=============================================================================
