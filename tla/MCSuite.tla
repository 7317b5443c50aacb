------------------------------- MODULE MCSuite -------------------------------
(***************************************************************************)
(* A small world for Suite: a release, a merge that brings the sibling     *)
(* verbs, and a feature branch without the roster, off the mainline.       *)
(***************************************************************************)
EXTENDS Suite

MCCommit == {"release", "feature", "merge"}
MCMainline == {"release", "merge"}
MCCommitTime == [c \in MCCommit |-> IF c = "release" THEN 1 ELSE 2]
MCOffers ==
  [release |-> {"plugin"},
   feature |-> {"plugin", "send_to_sibling"},
   merge |-> {"plugin", "list_siblings", "send_to_sibling"}]
MCSdk ==
  [release |-> {"turn_attribution"},
   feature |-> {"sibling_name"},
   merge |-> {"sibling_name", "turn_attribution"}]
MCDaemons ==
  {[started |-> 1, code |-> "release"], [started |-> 2, code |-> "release"]}

Usual == [socket |-> TRUE, git |-> TRUE, remote |-> TRUE, readable |-> TRUE,
          profiles |-> TRUE, rules |-> FALSE, credential |-> "plain"]
MCSetups ==
  {Usual,
   [Usual EXCEPT !.socket = FALSE],
   [Usual EXCEPT !.git = FALSE, !.credential = "dangling"],
   [Usual EXCEPT !.remote = FALSE, !.readable = FALSE, !.rules = TRUE, !.credential = "unasked"]}
=============================================================================
