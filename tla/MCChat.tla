-------------------------------- MODULE MCChat --------------------------------
EXTENDS Chat

CONSTANTS t1, t2, u1, u2

\* A task, and a meeting on three days.
MCTasks0 == [t \in Tasks |->
  IF t = t1 THEN [title |-> "a", due |-> None, status |-> "todo"] ELSE None]

MCSeries0 == [u \in Uids |->
  IF u = u1 THEN [master |-> [title |-> "a", start |-> 20, dur |-> 1, day |-> FALSE,
                              rule |-> [Every("daily", 1) EXCEPT !.count = 3],
                              out |-> {}],
                  over |-> {}]
  ELSE None]

DropTask == [Call("delete_task") EXCEPT !.uid = t1]
DropRest == [Call("delete_event") EXCEPT !.uid = u1, !.at = 22, !.scope = "following"]
DropSeries == [Call("delete_event") EXCEPT !.uid = u1]
Rename == [Call("update_event") EXCEPT !.uid = u1, !.title = "b", !.at = 22,
                                       !.scope = "this"]
Move == [Call("update_event") EXCEPT !.uid = u1, !.start = 25, !.end = 26, !.at = 24,
                                     !.scope = "following"]
Book == [Call("create_event") EXCEPT !.title = "b", !.start = 20, !.end = 21, !.cal = "home"]
BookInMirror == [Book EXCEPT !.cal = "mirror"]
AddTask == [Call("create_task") EXCEPT !.title = "b"]
Finish == [Call("complete_task") EXCEPT !.uid = t1]

MCAnswers ==
  { <<>>, <<AddTask, DropTask>>, <<DropTask, DropSeries>>, <<Rename, DropRest>>,
    <<BookInMirror, Move>>, <<Finish, Book>> }
=============================================================================
