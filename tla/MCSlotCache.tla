---------------------------- MODULE MCSlotCache ----------------------------
\* Two slots on a few cells; the requests of a configuration share a first token.
EXTENDS SlotCache

CONSTANTS a, b

Completion(prompt, predict) ==
    [kind |-> "completion", prompt |-> prompt, predict |-> predict, keep |-> 0, discard |-> 0,
     reuse |-> TRUE, id_slot |-> NoSlot, children |-> 0]
Base == [n_ctx |-> 5, n_batch |-> 2, ctx_shift |-> FALSE, prompt_cache |-> FALSE, cache_idle |-> FALSE,
         limit |-> 0, requests |-> {}, samples |-> {b}, files |-> FALSE, faults |-> {}]

\* the context is shifted, with and without tokens to keep, under cancellation
Shifting == [Base EXCEPT !.ctx_shift = TRUE, !.faults = {"cancel"},
    !.requests = {Completion(<<a, b, b>>, 3), [Completion(<<a, a>>, 3) EXCEPT !.keep = -1, !.discard = 1]}]
\* prompts move between slots, the prompt cache and a file; the backend fails
Caching == [Base EXCEPT !.prompt_cache = TRUE, !.cache_idle = TRUE, !.limit = 4, !.files = TRUE,
    !.faults = {"compute"},
    !.requests = {Completion(<<a, b, b>>, 1), [Completion(<<b, a>>, 1) EXCEPT !.id_slot = 1]}]
\* embeddings, refused requests, files that cannot be read; the cache has room for all that two slots hold
Embedding == [Base EXCEPT !.n_ctx = 6, !.n_batch = 3, !.faults = {"badfile"},
    !.requests = {[Completion(<<a, b, a>>, 0) EXCEPT !.kind = "embedding"], Completion(<<>>, 1),
                  [Completion(<<a, b>>, 2) EXCEPT !.reuse = FALSE]}]
\* a parent and its child, with room for both
Family == [Base EXCEPT !.n_ctx = 8, !.n_batch = 4,
    !.requests = {[Completion(<<a, b>>, 3) EXCEPT !.children = 1], Completion(<<a>>, 1), Completion(<<b, a>>, 2)}]
\* ... and without
TightFamily == [Family EXCEPT !.n_ctx = 5, !.requests =
    {[Completion(<<a, b, b>>, 2) EXCEPT !.children = 1], Completion(<<b, a>>, 2)}]

AllConfigs == {Shifting, Caching, Embedding, Family}
TightConfigs == {TightFamily}
=============================================================================
