----------------------------- MODULE MCSession -----------------------------
(* All pages but devices and log, whose refresh is the activity page's, with *)
(* everything config.js can switch on.                                       *)
EXTENDS Session

MCPages == {"dashboard", "activity", "statistics"} \cup Forms

=============================================================================
