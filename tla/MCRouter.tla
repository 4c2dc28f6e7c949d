------------------------------ MODULE MCRouter ------------------------------
(* Bounds for model-checking the router: two threads that may ask the same *)
(* prompt, with three documents, over the ladder of router.yaml.            *)
EXTENDS Router

MCDocLists == {<<"a", "b", "c">>}
MCFallbackChain == <<"sonnet", "haiku">>
=============================================================================
