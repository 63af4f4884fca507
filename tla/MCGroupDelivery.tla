-------------------------- MODULE MCGroupDelivery ---------------------------
(* The group of main and the requests of one page. *)
EXTENDS GroupDelivery, TLC

MCValue == ("seer-answer" :> "seeranswer") @@ ("stream" :> "stream")
MCMessages == ("seer-answer" :> 2) @@ ("stream" :> 0)
=============================================================================
