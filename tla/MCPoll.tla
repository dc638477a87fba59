-------------------------------- MODULE MCPoll --------------------------------
(***************************************************************************)
(* Two binary points, which is as many as the stop octet of this instance  *)
(* can number, one analog input and one counter; two goroutines update     *)
(* them while the master polls.                                            *)
(***************************************************************************)
EXTENDS Poll

Kinds3 == {"binary", "analog", "counter"}

PointConfig ==
    [kind \in Kinds3 |->
        CASE kind = "binary" -> <<[class |-> 1, deadband |-> 0], [class |-> 1, deadband |-> 0]>>
          [] kind = "analog" -> <<[class |-> 1, deadband |-> 1]>>
          [] kind = "counter" -> <<[class |-> 2, deadband |-> 1]>>]

UpdateValues ==
    [kind \in Kinds3 |->
        CASE kind = "binary" -> {[value |-> 1, flags |-> 129]}
          [] kind = "analog" -> {[value |-> 1, flags |-> 1], [value |-> -2, flags |-> 1]}
          [] kind = "counter" -> {[value |-> 70000, flags |-> 1]}]

Variations == [kind \in Kinds3 |-> CASE kind = "binary" -> 2 [] kind = "analog" -> 5
                                     [] kind = "counter" -> 5]

MasterScans ==
    {BuildIntegrityPoll, BuildEventPoll, BuildClassRead(<<{1, 2, 3}>>),
     BuildRangeRead(Group["binary"], 2, 0, 1), BuildRangeRead(Group["binary"], 1, 0, 2),
     BuildRangeRead(Group["analog"], 1, 0, 0), BuildRangeRead(Group["analog"], 2, 0, 0),
     BuildRangeRead(Group["analog"], 3, 0, 0), BuildRangeRead(Group["analog"], 6, 0, 0),
     BuildRangeRead(Group["counter"], 1, 0, 0), BuildRangeRead(Group["counter"], 6, 0, 0)}

\* Bound: a third update, or a clear, is made only where no poll is.
MCSpec ==
    Init /\ [][Next /\ (polls' > 0 => updates' < MaxUpdates /\ clears' = 0)]_vars
=============================================================================
