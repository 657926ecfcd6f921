------------------------------- MODULE MCRouter -------------------------------
(* The four providers of main.go; chat requests with every hint the default *)
(* rules know and without one, an embedding, a local path and one that no   *)
(* default rule matches, also as no URL; rules for known, unknown and       *)
(* unconfigured targets.                                                    *)
EXTENDS Router

Chat == {"v1/", "v1/chat/completions"}

Request(path, hints) == [path |-> path, parses |-> TRUE, hints |-> hints]

MCConfigured == {"openai", "anthropic", "google", "local"}

MCRequests ==
  { Request(Chat, {}), Request(Chat, {"financial"}), Request(Chat, {"personal"}),
    Request(Chat, {"payment", "healthcare"}),
    Request({"v1/", "v1/embeddings"}, {}),
    Request({"api/"}, {}), Request({"v1/"}, {}),
    [path |-> {"v1/"}, parses |-> FALSE, hints |-> {}] }

MCExtraRules ==
  { Rule("v1/", "local", {}), Rule("v1/chat/completions", "google", {"personal"}),
    Rule("api/", "spg", {}) }
===============================================================================
