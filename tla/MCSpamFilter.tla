---------------------------- MODULE MCSpamFilter ----------------------------
(* Messages for the model checker: one nothing speaks against, and one whose *)
(* headers bring an increment that a lookup may lose.                        *)
EXTENDS SpamFilter, TLC

Clean == [large |-> FALSE, sender |-> "plain", listed |-> FALSE, free |-> FALSE, keywords |-> 0,
          subject |-> "plain", exclamations |-> 0, empty |-> FALSE, urls |-> 0,
          suspiciousUrls |-> 0, headers |-> {"message-id", "date"}, spamHeaders |-> 0]

Undated == [Clean EXCEPT !.headers = {"message-id"}]

CleanAndUndated == {Clean, Undated}

CheckerSymmetry == Permutations(Checkers)
=============================================================================
