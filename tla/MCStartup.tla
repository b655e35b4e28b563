----------------------------- MODULE MCStartup -----------------------------
EXTENDS Startup, TLC

Real ==
  [mode |-> "real", swEcc |-> FALSE, swNuma |-> FALSE, payload |-> FALSE,
   require |-> TRUE, ecc |-> TRUE, sep |-> TRUE, mac |-> TRUE]

\* The platform modes; a server without the gates; and a configuration the
\* validation must refuse, as payload ECC is off.
MCCfgs ==
  {Real,
   [Real EXCEPT !.require = FALSE, !.mac = FALSE],
   [Real EXCEPT !.mode = "synthetic", !.swEcc = TRUE, !.swNuma = TRUE,
                !.payload = TRUE, !.mac = FALSE],
   [Real EXCEPT !.mode = "synthetic", !.swEcc = TRUE, !.swNuma = TRUE,
                !.mac = FALSE]}

\* Each item alone, and a page that moves as the identity changes.
MCDrifts ==
  {"edac" :> 2, "ident" :> 1, "place" :> 1, "dom" :> 2, "latch" :> 2, "key" :> 2,
   "ident" :> 1 @@ "place" :> 1}
============================================================================
