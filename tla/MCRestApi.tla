------------------------------ MODULE MCRestApi ------------------------------
(* Small instances of RestApi: two phones, two home networks. *)
EXTENDS RestApi, TLC

CONSTANTS ann, bob, home, shop

MCUsers    == {ann, bob}
MCNetworks == {home, shop}
=============================================================================
