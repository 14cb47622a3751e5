------------------------------ MODULE MCWebPage ------------------------------
(***************************************************************************)
(* Instances of WebPage: every button pressed once, and the buttons whose  *)
(* calls meet each other pressed in turn.                                  *)
(***************************************************************************)
EXTENDS WebPage

OverlapButtons == {"routing.update", "setEntry", "add", "searchFirst", "send"}
===============================================================================
