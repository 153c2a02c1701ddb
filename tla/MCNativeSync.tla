---------------------------- MODULE MCNativeSync ----------------------------
(***************************************************************************)
(* Instances of NativeSync for TLC.  A body is a number whose tens are its *)
(* `modified` stamp (0 for none) and whose units are its text.             *)
(***************************************************************************)
EXTENDS NativeSync

CONSTANTS hub, club, daemon, cli

MCStamp == [b \in Bodies |-> b \div 10]

Wild(calendar, e) ==
  [calendar |-> calendar, workers |-> {daemon, cli}, pairings |-> {hub},
   edits |-> e, faults |-> 1,
   midPass |-> TRUE, crashes |-> TRUE, restores |-> TRUE]

OrderlyRegime(P, e, f) ==
  [calendar |-> FALSE, workers |-> {daemon}, pairings |-> P,
   edits |-> e, faults |-> f,
   midPass |-> FALSE, crashes |-> FALSE, restores |-> FALSE]

SafetyRegimes == {Wild(FALSE, 3), Wild(TRUE, 2), OrderlyRegime({hub}, 5, 2),
                   OrderlyRegime({hub, club}, 4, 1)}

=============================================================================
