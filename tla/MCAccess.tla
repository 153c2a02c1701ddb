------------------------------ MODULE MCAccess ------------------------------
(***************************************************************************)
(* The web server's administration for TLC; a behaviour is one of Access,  *)
(* of Accounts or of Pages.  Clients are interchangeable, and so are a     *)
(* server's threads.                                                       *)
(***************************************************************************)
EXTENDS Administration, TLC

VARIABLE focus

MCHandColls == <<>>

\* On the page one user is signed in.
BothInit ==
  /\ Init /\ Files!Init /\ Page!Init /\ focus \in {"access", "accounts", "pages"}
  /\ signed = <<"ann">> /\ stored["ann"] = "todo"
  /\ focus # "access" => exists = {}

BothNext ==
  /\ UNCHANGED focus
  /\ \/ focus = "access" /\ Next /\ UNCHANGED <<fileVars, pageVars>>
     \/ focus = "accounts" /\ Files!Next /\ UNCHANGED <<vars, pageVars>>
     \/ focus = "pages" /\ Page!Next /\ UNCHANGED <<vars, fileVars>>

BothSpec == BothInit /\ [][BothNext]_<<focus, vars, fileVars, pageVars>>

Symmetry == Permutations(Clients) \cup Permutations(Workers)
=============================================================================
