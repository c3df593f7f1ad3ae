---------------------------- MODULE MCProviders ----------------------------
(***************************************************************************)
(* Three entries are listed and a fourth can appear; the configuration is  *)
(* built from the first repository, the second has no commit yet.          *)
(***************************************************************************)
EXTENDS Providers

MCHome == <<"P", "P", "Q", "Q">>
MCFirstListing == <<1, 2, 3>>
MCFirstHeads == <<1, 0, 1, 1>>
=============================================================================
