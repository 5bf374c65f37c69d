-------------------------- MODULE MCAdministration -------------------------
(* Instances of Administration for TLC.                                     *)
EXTENDS Administration, TLC

CONSTANTS h1, h2

MCDefault == [s \in Service |-> CASE s = "smtp" -> 1 [] s = "pop3" -> 2 [] s = "web" -> 3]

Case(set, n, up) ==
  [ops |-> set, requests |-> n, installed |-> up, restarts |-> 1, grabs |-> 0, busy |-> {},
   ports |-> {<< >>}, refused |-> FALSE, failing |-> FALSE]

(* Two set-ups at once, logins, a reset and the set-up after it; the same   *)
(* with settings and refused settings; what a reset runs into; port changes *)
(* with two requests at once, and three in a row.                           *)
MCScenario ==
  {Case({"setup", "login", "reset"}, 8, FALSE),
   [Case({"setup", "login", "reset", "settings"}, 6, TRUE)
      EXCEPT !.refused = TRUE, !.failing = TRUE, !.ports = {<< >>, [smtp |-> 4]}],
   [Case({"reset", "account", "deliver", "enqueue", "maillogin"}, 7, TRUE)
      EXCEPT !.failing = TRUE, !.restarts = 0],
   [Case({"setup", "login", "settings"}, 4, FALSE)
      EXCEPT !.ports = {[smtp |-> 4], [pop3 |-> 1], [smtp |-> 5, web |-> 4]}, !.busy = {5}],
   [Case({"settings"}, 2, TRUE)
      EXCEPT !.ports = {[smtp |-> 4, pop3 |-> 5], [pop3 |-> 4], [web |-> 4], [web |-> 5]},
             !.grabs = 2, !.failing = TRUE],
   [Case({"settings"}, 3, TRUE)
      EXCEPT !.ports = {[pop3 |-> 4], [pop3 |-> 2], [smtp |-> 5], [web |-> 4], [web |-> 3]}, !.busy = {1}]}
SymmetricHandlers == Permutations(Handler)
MCTaken == {[Case({"settings"}, 1, TRUE) EXCEPT !.ports = {[web |-> 4]}, !.busy = {4}]}
=============================================================================
