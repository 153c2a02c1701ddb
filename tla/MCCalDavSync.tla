---------------------------- MODULE MCCalDavSync ----------------------------
(***************************************************************************)
(* Instances of CalDavSync for TLC: a calendar and a task list, two items  *)
(* of one of them, and a task list whose calendar names no account.        *)
(***************************************************************************)
EXTENDS CalDavSync

Of(kind1, kind2, broken, home) ==
  [kind |-> <<kind1, kind2>>, broken |-> broken, home |-> home]

MCSetups == {Of("events", "tasks", {}, <<1, 1>>),
             Of("events", "tasks", {}, <<1, 2>>),
             Of("events", "tasks", {1}, <<2, 2>>)}

\* Two task lists.
MCTwoLists == {Of("tasks", "tasks", {}, <<1, 2>>)}
=============================================================================
