----------------------------- MODULE MCResearch -----------------------------
(***************************************************************************)
(* Research with as_of on day 1, so that the cutoff is day 0.              *)
(***************************************************************************)
EXTENDS Research

Output(kind, proper, upTo, days) ==
    [kind |-> kind, proper |-> proper, upTo |-> upTo, days |-> days]
MCOutputs == {Output("stock", TRUE, 0, {-1}), Output("stock", TRUE, 0, {0, 1}),
              Output("indicator", TRUE, 0, {-1, 0}), Output("indicator", TRUE, 0, {0, 1}),
              Output("snapshot", TRUE, 0, {0}), Output("other", FALSE, 1, {})}
=============================================================================
