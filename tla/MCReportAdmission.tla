--------------------------- MODULE MCReportAdmission ---------------------------
EXTENDS ReportAdmission

\* Two assignments; the report of the first creates a node that links to its task, and
\* what the second one reports goes with a graph that does not have that node.
MCNote   == {"problem", "task1", "task2", "result1"}
MCLinks  == [problem |-> {}, task1 |-> {"problem"}, task2 |-> {"problem"}, result1 |-> {"task1"}]
MCTask   == <<"task1", "task2">>
MCResult == <<{"result1"}, {}>>
MCTaskTitle == <<"t", "u">>

\* Reports of one finding and of two, one of them under the title of a task.
MCReports    == {<<"f">>, <<"f", "t">>}
MCAdmissible == <<{have \in SUBSET MCNote : "task1" \in have},
                  {have \in SUBSET MCNote : "result1" \notin have}>>
MCOtherTasks == {Title("t")}
===============================================================================
