-------------------------- MODULE MCMessageSender ---------------------------
(* The page and the producer with a few messages and topics. *)
EXTENDS MessageSender, TLC

MCLabel == {"seer-question", "seerquestion", "a/b"}

(* Known to the page is one topic only, so that the others have to be typed. *)
MCKnown == {"seer-question"}

(* createOption drops all characters that are not of a word. *)
MCValue == ("seer-question" :> "seerquestion") @@ ("seerquestion" :> "seerquestion") @@ ("a/b" :> "ab")

MCRoutable == MCLabel \ {"a/b"}
=============================================================================
