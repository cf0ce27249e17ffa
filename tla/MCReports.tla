----------------------------- MODULE MCReports -----------------------------
(* Three reports, each empty or about one or two clients, over a           *)
(* connection that holds one report and that reads can empty at once.  A   *)
(* line has one or two characters before its newline, so that writes and   *)
(* reads end inside it too.                                                *)
EXTENDS Reports

CONSTANT MaxReports

MCShapes ==
    {<< >>, << "text", "text", "newline" >>,
     << "text", "newline", "text", "newline" >>}

Bounded == Len(reports) < MaxReports

(* Beyond the last report only the stream drains.                          *)
MCNext ==
    \/ Bounded /\ \E shape \in Shapes : SendRaport(shape)
    \/ ContinueWrite
    \/ \E n \in 1 .. ReadSize : Read(n)
    \/ ReadDropped

MCSpec == Init /\ [][MCNext]_vars

=============================================================================
