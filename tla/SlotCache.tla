----------------------------- MODULE SlotCache -----------------------------
(***************************************************************************)
(* What the slots of the server believe is in the KV cache, and what is:   *)
(* server_slot::prompt.tokens against the cells of the unified cache,      *)
(* through prompt reuse, context shifts, the division of a batch in views, *)
(* failing decodes, parents and children, the prompt cache in RAM and the  *)
(* slot files (tools/server/server-context.cpp, server-task.cpp).          *)
(*                                                                         *)
(* One thread does all of it.  Tasks are processed while phase is "tasks"; *)
(* UpdateSlots is update_slots() up to the complete batch, and the decode  *)
(* actions are one turn each of its loop over the views of the batch.      *)
(* A function of the code takes the record S of what it changes to the set *)
(* of its outcomes; Each folds one over the slots, as the loops do.        *)
(*                                                                         *)
(* A cell holds a position, the token that was decoded into it and its     *)
(* sequences; KvCache tells how the cells implement this.  A sequence and  *)
(* the slot that owns it have the same number.  Texts, samplers, adapters, *)
(* images, checkpoints (n_swa = 0, partial seq_rm supported), chunk reuse  *)
(* and speculative decoding are left out.                                  *)
(***************************************************************************)
EXTENDS Integers, SequencesExt, FiniteSetsExt

CONSTANTS
    NSlots,     \* params_base.n_parallel
    Tok,        \* tokens
    NoTok,      \* no token
    NoTask,     \* an empty server_slot::task
    NoFile,     \* no slot file was written
    Configs     \* the configurations of the server, one of which a behaviour has

Slots == 1 .. NSlots
NoSlot == 0
Unlimited == -1                         \* n_predict = -1

\* badfile: a slot file cannot be read; compute: the backend fails; cancel: a client leaves
Faults == {"badfile", "compute", "cancel"}

\* a request: n_predict, n_keep, n_discard, cache_prompt, id_slot, the number of its child tasks
Request == [kind : {"completion", "embedding"}, prompt : Seq(Tok), predict : Int, keep : Int, discard : Nat,
            reuse : BOOLEAN, id_slot : Slots \cup {NoSlot}, children : Nat]

Config == [n_ctx : Nat, n_batch : Nat \ {0}, ctx_shift : BOOLEAN, prompt_cache : BOOLEAN,
           cache_idle : BOOLEAN, limit : Nat, requests : SUBSET Request, samples : SUBSET Tok,
           files : BOOLEAN, faults : SUBSET Faults]

ASSUME NSlotsAssumption == NSlots \in Nat \ {0}
\* n_ctx >= 4 or the shift keeps a negative number of tokens; idle slots are saved to the prompt cache
ASSUME ConfigsAssumption ==
    \A c \in Configs : c \in Config /\ c.n_ctx >= 4 /\ (c.cache_idle => c.prompt_cache)

\* how many tokens a context shift keeps of request or task r
NKeep(c, r) == Min({c.n_ctx - 4, IF r.keep < 0 THEN Len(r.prompt) ELSE r.keep})
\* a greater n_discard would cut tokens that are kept from prompt.tokens, but not from the cache
ASSUME DiscardAssumption == \A c \in Configs : \A r \in c.requests : NKeep(c, r) + r.discard < c.n_ctx

\* server_task
ServerTask == [kind : {"completion", "embedding"}, prompt : Seq(Tok), left : Int, keep : Int, discard : Nat,
               reuse : BOOLEAN, children : Nat, child : BOOLEAN, parent : Slots \cup {NoSlot}]
ASSUME NoTaskAssumption == NoTask \notin ServerTask

VARIABLES
    params,     \* params_base
    cells,      \* the cells of the KV cache
    slot,       \* the slots
    saved,      \* server_prompt_cache::states
    file,       \* the slot file of SLOT_SAVE and SLOT_RESTORE
    batch,      \* the batch being decoded
    at,         \* i: where the next view of the batch begins
    n_batch,    \* the size of a view
    phase       \* "tasks" or "decode"

vars == <<params, cells, slot, saved, file, batch, at, n_batch, phase>>

State == [cells |-> cells, slot |-> slot, saved |-> saved]
Each(op(_, _), outcomes) ==
    LET after[s \in 0 .. NSlots] == IF s = 0 THEN outcomes ELSE UNION {op(S, s) : S \in after[s - 1]}
    IN  after[NSlots]

\* the elements of a set of numbers in their order, and those of a sequence at some of its positions
RankIn(A, x) == Cardinality({y \in A : y <= x})
Nth(A, k) == CHOOSE x \in A : RankIn(A, x) = k
Kept(q, keep) == [k \in 1 .. Cardinality(keep) |-> q[Nth(keep, k)]]

-----------------------------------------------------------------------------
\* The memory of the context: llama_memory_seq_rm, seq_cp, seq_add, seq_pos_max

Cells == 1 .. params.n_ctx              \* kv_unified: all slots share the n_ctx cells
Empty == [pos |-> -1, tok |-> NoTok, seqs |-> {}]
End == -1                               \* p1 = -1: to the end of the sequence

OfSeq(c, s, p0, p1) == s \in c.seqs /\ p0 <= c.pos /\ (p1 = End \/ c.pos < p1)
Without(c, s) == IF c.seqs = {s} THEN Empty ELSE [c EXCEPT !.seqs = @ \ {s}]

SeqRm(kv, s, p0, p1) == [i \in DOMAIN kv |-> IF OfSeq(kv[i], s, p0, p1) THEN Without(kv[i], s) ELSE kv[i]]
SeqCp(kv, s, t) == [i \in DOMAIN kv |-> IF s \in kv[i].seqs THEN [kv[i] EXCEPT !.seqs = @ \cup {t}] ELSE kv[i]]
\* a shared cell moves for all its sequences
SeqAdd(kv, s, p0, p1, d) ==
    [i \in DOMAIN kv |-> IF OfSeq(kv[i], s, p0, p1) THEN [kv[i] EXCEPT !.pos = @ + d] ELSE kv[i]]

Positions(kv, s) == {kv[i].pos : i \in {j \in DOMAIN kv : s \in kv[j].seqs}}
PosMax(kv, s) == Max(Positions(kv, s) \cup {-1})

Free(kv) == {i \in DOMAIN kv : kv[i] = Empty}
\* find_slot and apply: the rows take the first empty cells in their order
Place(kv, rows) ==
    [i \in DOMAIN kv |->
        LET k == RankIn(Free(kv), i)
        IN  IF kv[i] = Empty /\ k <= Len(rows)
            THEN [pos |-> rows[k].pos, tok |-> rows[k].tok, seqs |-> {rows[k].slot}]
            ELSE kv[i]]

\* the state of a sequence as it is saved (llama_state_seq_get_data): its rows, in the order of the cells
Rows(kv, s) == LET held == Kept(kv, {i \in DOMAIN kv : s \in kv[i].seqs})
               IN  [k \in DOMAIN held |-> [pos |-> held[k].pos, tok |-> held[k].tok]]
\* ... and restored: the sequence is emptied first, and stays empty when the rows do not fit
Fits(kv, s, rows) == Len(rows) <= Cardinality(Free(SeqRm(kv, s, 0, End)))
Restored(kv, s, rows) ==
    Place(SeqRm(kv, s, 0, End), [k \in DOMAIN rows |-> [slot |-> s, pos |-> rows[k].pos, tok |-> rows[k].tok]])

-----------------------------------------------------------------------------
\* A slot

Processing(S, s) == S.slot[s].st # "IDLE"
Idle(S) == {s \in Slots : ~Processing(S, s)}
IsParent(S, s) == S.slot[s].task # NoTask /\ S.slot[s].task.children > 0
IsChild(S, s) == S.slot[s].task # NoTask /\ S.slot[s].task.child
CanSplit(S, s) == S.slot[s].task.kind # "embedding"
Common(p, q) == Max({n \in 0 .. Min({Len(p), Len(q)}) : \A k \in 1 .. n : p[k] = q[k]})

\* mutant: the tokens are forgotten, the cells stay
PromptForget(S, s) == [S EXCEPT !.slot[s].toks = <<>>]
PromptClear(S, s) == [S EXCEPT !.cells = SeqRm(@, s, 0, End), !.slot[s].toks = <<>>]

\* release() and reset(); the children of a parent keep its id, which nobody has any more
Release(S, s) ==
    LET orphans == {t \in Slots : S.slot[t].task # NoTask /\ S.slot[t].task.parent = s}
        idle == [S EXCEPT !.slot = [t \in Slots |->
                    IF t = s THEN [@[t] EXCEPT !.st = "IDLE", !.task = NoTask, !.sampled = NoTok, !.i_batch = -1]
                    ELSE IF t \in orphans THEN [@[t] EXCEPT !.task.parent = NoSlot] ELSE @[t]]]
    IN  IF IsChild(S, s) THEN PromptClear(idle, s) ELSE idle

InitSlot == [st |-> "IDLE", toks |-> <<>>, task |-> NoTask, sampled |-> NoTok, i_batch |-> -1]

Init ==
    /\ params \in Configs
    /\ cells = [i \in Cells |-> Empty]
    /\ slot = [s \in Slots |-> InitSlot]
    /\ saved = <<>>
    /\ file = NoFile
    /\ batch = <<>> /\ at = 0 /\ n_batch = params.n_batch
    /\ phase = "tasks"

-----------------------------------------------------------------------------
\* The prompt cache in RAM: server_prompt_cache::alloc, load and update

\* nothing is saved that a state begins with; states that the prompt begins with are replaced
PromptSave(S, s) ==
    LET toks == S.slot[s].toks
        kept == Kept(S.saved, {k \in DOMAIN S.saved : ~IsPrefix(S.saved[k].toks, toks)})
    IN  IF \E k \in DOMAIN S.saved : IsPrefix(toks, S.saved[k].toks) THEN S
        ELSE [S EXCEPT !.saved = Append(kept, [toks |-> toks, rows |-> Rows(S.cells, s)])]

\* f_keep = lcp / size and sim = lcp / n_prompt, the size of an empty slot counting as f_keep = -1
Match(toks, prompt) == [lcp |-> Common(toks, prompt), size |-> Len(toks)]
Better(m, n) == /\ n.lcp < m.lcp
                /\ n.size = 0 \/ n.lcp * m.size < m.lcp * n.size
\* the first of the best states, 0 when the slot itself is best; f_keep >= 0.25
BestSaved(S, s, prompt) ==
    LET match(k) == Match(IF k = 0 THEN S.slot[s].toks ELSE S.saved[k].toks, prompt)
        best[k \in 0 .. Len(S.saved)] ==
            IF k = 0 THEN 0
            ELSE IF 4 * match(k).lcp >= match(k).size /\ Better(match(k), match(best[k - 1])) THEN k
            ELSE best[k - 1]
    IN  best[Len(S.saved)]

PromptLoad(S, s, prompt) ==
    LET k == BestSaved(S, s, prompt) IN
    IF k = 0 THEN S
    ELSE IF Fits(S.cells, s, S.saved[k].rows)
         THEN [S EXCEPT !.cells = Restored(@, s, S.saved[k].rows), !.slot[s].toks = S.saved[k].toks,
                        !.saved = RemoveAt(@, k)]
         ELSE PromptClear(S, s)

\* the oldest states go while more than one is there and their tokens exceed the limit
TokensIn(states) == FoldLeft(LAMBDA n, e : n + Len(e.toks), 0, states)
CacheUpdate(S) ==
    LET over == {k \in DOMAIN S.saved : \A j \in 1 .. k :
                  /\ j < Len(S.saved) /\ params.limit > 0
                  /\ TokensIn(SubSeq(S.saved, j, Len(S.saved))) > params.limit}
    IN  [S EXCEPT !.saved = SubSeq(@, Cardinality(over) + 1, Len(@))]

SaveAndClear(S, s) ==
    IF Processing(S, s) \/ S.slot[s].toks = <<>> THEN {S}
    ELSE {CacheUpdate(PromptClear(P, s)) : P \in {PromptSave(S, s)}}

-----------------------------------------------------------------------------
\* process_single_task

\* The first idle slot with the longest prefix in common with the prompt, else the slot that has been
\* idle longest, here any idle one.
Similar(S, r) == {s \in Idle(S) : Common(S.slot[s].toks, r.prompt) > 0}
MostSimilar(S, r) ==
    Min({s \in Similar(S, r) : \A t \in Similar(S, r) :
            Common(S.slot[t].toks, r.prompt) <= Common(S.slot[s].toks, r.prompt)})
Available(S, r) == IF Similar(S, r) # {} THEN {MostSimilar(S, r)} ELSE Idle(S)

\* get_available_slot: a slot that would lose half of its tokens saves them and looks for a better prompt
UpdatesCache(S, r, s) ==
    /\ params.prompt_cache /\ r.kind = "completion"
    /\ Similar(S, r) = {} \/ 2 * Common(S.slot[s].toks, r.prompt) < Len(S.slot[s].toks)
Chosen(S, r, s) ==
    IF ~UpdatesCache(S, r, s) THEN {S}
    ELSE LET kept == {IF S.slot[s].toks = <<>> THEN S ELSE PromptSave(S, s)}
         IN  {CacheUpdate(L) : L \in {PromptLoad(K, s, r.prompt) : K \in kept}}

TaskOf(r, child, parent) ==
    [kind |-> r.kind, prompt |-> r.prompt, left |-> r.predict, keep |-> r.keep, discard |-> r.discard,
     reuse |-> r.reuse, children |-> IF child THEN 0 ELSE r.children, child |-> child, parent |-> parent]

\* the first free slots other than s
ChildSlots(S, r, s) == LET free == Idle(S) \ {s} IN {t \in free : RankIn(free, t) <= r.children}

Started(S, r, s) ==
    LET kids == ChildSlots(S, r, s) IN
    [S EXCEPT !.slot = [t \in Slots |->
        IF t = s THEN [@[t] EXCEPT !.st = "STARTED", !.task = TaskOf(r, FALSE, NoSlot)]
        ELSE IF t \in kids THEN [@[t] EXCEPT !.st = "WAIT_OTHER", !.task = TaskOf(r, TRUE, s)]
        ELSE @[t]]]

Take(S) == cells' = S.cells /\ slot' = S.slot /\ saved' = S.saved
SameBatch == UNCHANGED <<params, batch, at, n_batch, phase>>

Launch(r, s) ==
    /\ phase = "tasks"
    /\ s \in Idle(State)
    /\ r.id_slot = NoSlot => s \in Available(State, r)
    /\ r.id_slot # NoSlot => s = r.id_slot
    /\ \E S \in IF r.id_slot = NoSlot THEN Chosen(State, r, s) ELSE {State} :
          \E L \in IF Cardinality(ChildSlots(S, r, s)) < r.children THEN {S}       \* the parent is deferred
                   ELSE IF params.cache_idle THEN Each(SaveAndClear, {Started(S, r, s)})
                   ELSE {Started(S, r, s)} : Take(L)
    /\ SameBatch /\ UNCHANGED file

Cancel(s) ==
    /\ "cancel" \in params.faults
    /\ phase = "tasks" /\ Processing(State, s)
    /\ Take(Release(State, s))
    /\ SameBatch /\ UNCHANGED file

SlotSave(s) ==
    /\ params.files /\ phase = "tasks" /\ ~Processing(State, s)
    /\ file' = [toks |-> slot[s].toks, rows |-> Rows(cells, s)]
    /\ SameBatch /\ UNCHANGED <<cells, slot, saved>>

SlotErase(s) ==
    /\ params.files /\ phase = "tasks" /\ ~Processing(State, s)
    /\ Take(PromptClear(State, s))
    /\ SameBatch /\ UNCHANGED file

SlotRestore(s) ==
    /\ params.files /\ phase = "tasks" /\ ~Processing(State, s)
    /\ file # NoFile
    /\ Take(IF Fits(cells, s, file.rows)
            THEN [State EXCEPT !.cells = Restored(@, s, file.rows), !.slot[s].toks = file.toks]
            ELSE PromptClear(State, s))
    /\ SameBatch /\ UNCHANGED file

\* the file is missing or of another version: the tokens go, the cells are not touched
SlotRestoreFails(s) ==
    /\ "badfile" \in params.faults
    /\ phase = "tasks" /\ ~Processing(State, s)
    /\ Take([State EXCEPT !.slot[s].toks = <<>>])
    /\ SameBatch /\ UNCHANGED file

-----------------------------------------------------------------------------
\* update_slots: the context shift, the tokens of generating slots, the prompts

\* batched is slot_batched; full is set when the loop over the prompts ends early
Filling(S) == [cells |-> S.cells, slot |-> S.slot, saved |-> S.saved, batch |-> <<>>, batched |-> NoSlot, full |-> FALSE]

Shift(S, s) ==
    LET toks == S.slot[s].toks
        n == Len(toks)
        task == S.slot[s].task
        keep == NKeep(params, task)
        discard == IF task.discard > 0 THEN task.discard ELSE (n - keep) \div 2
        removed == SeqRm(S.cells, s, keep, keep + discard)
    IN  [S EXCEPT !.cells = SeqAdd(removed, s, keep + discard, n, -discard),
                  !.slot[s].toks = SubSeq(toks, 1, keep) \o SubSeq(toks, keep + discard + 1, n)]

ShiftSlot(S, s) ==
    IF S.slot[s].st # "GENERATING" \/ Len(S.slot[s].toks) + 1 < params.n_ctx THEN {S}
    ELSE IF ~params.ctx_shift \/ IsParent(S, s) \/ IsChild(S, s) THEN {Release(S, s)}      \* send_error
    ELSE {Shift(S, s)}

CanBatchWith(S, s) == S.batched = NoSlot \/ S.slot[S.batched].task.kind = S.slot[s].task.kind

Row(s, pos, tok) == [slot |-> s, pos |-> pos, tok |-> tok]
AddToken(S, s, tok) ==
    [S EXCEPT !.batch = Append(@, Row(s, Len(S.slot[s].toks), tok)), !.slot[s].toks = Append(@, tok)]

AddSampled(S, s) ==
    IF S.slot[s].st # "GENERATING" \/ ~CanBatchWith(S, s) THEN {S}
    ELSE {[AddToken(S, s, S.slot[s].sampled) EXCEPT !.slot[s].i_batch = Len(S.batch),
                                                    !.batched = IF @ = NoSlot THEN s ELSE @]}

\* how many tokens of the prompt the slot need not decode: at least one it must
Reused(S, s) ==
    LET task == S.slot[s].task
        past == IF task.reuse /\ CanSplit(S, s) THEN Common(S.slot[s].toks, task.prompt) ELSE 0
    IN  IF past = Len(task.prompt) /\ past > 0 THEN past - 1 ELSE past

TooLong(S, s) == LET n == Len(S.slot[s].task.prompt)
                 IN  IF CanSplit(S, s) THEN n >= params.n_ctx ELSE n > params.n_batch \/ n > params.n_ctx

\* STARTED: what cannot be reused is forgotten
Began(S, s) == IF S.slot[s].st # "STARTED" THEN S
               ELSE LET reused == SubSeq(S.slot[s].toks, 1, Reused(S, s))
                    IN  [S EXCEPT !.slot[s] = [@ EXCEPT !.st = "PROCESSING_PROMPT", !.toks = reused]]

\* the tokens of the prompt that fit in the batch, from the first one not decoded
AddPrompt(S, s, n) ==
    LET prompt == S.slot[s].task.prompt
        from == Len(S.slot[s].toks)
        rows == [k \in 1 .. n |-> Row(s, from + k - 1, prompt[from + k])]
        more == [S.slot[s] EXCEPT !.toks = SubSeq(prompt, 1, from + n)]
        done == [more EXCEPT !.st = "DONE_PROMPT", !.i_batch = Len(S.batch) + n - 1]
    IN  [S EXCEPT !.batch = @ \o rows, !.slot[s] = IF from + n < Len(prompt) THEN more ELSE done]
Fitting(S, s) == Max({0, Min({Len(S.slot[s].task.prompt) - Len(S.slot[s].toks), params.n_batch - Len(S.batch)})})

\* mutant: what the slot held beyond the reused tokens stays in the cache
FillPromptKeepsTail(S, s) == AddPrompt(S, s, Fitting(S, s))

FillPrompt(S, s) ==
    AddPrompt([S EXCEPT !.cells = SeqRm(@, s, Len(S.slot[s].toks), End)], s, Fitting(S, s))

\* one turn of the loop over the prompts
FillSlot(S, s) ==
    LET skip == \/ S.full \/ ~Processing(S, s) \/ ~CanBatchWith(S, s) \/ S.slot[s].st = "WAIT_OTHER"
        prompting == S.slot[s].st \in {"STARTED", "PROCESSING_PROMPT"}
        refused == S.slot[s].st = "STARTED" /\ (S.slot[s].task.prompt = <<>> \/ TooLong(S, s))
        noRoom == prompting /\ ~CanSplit(S, s) /\ Len(S.batch) + Len(S.slot[s].task.prompt) > params.n_batch
        filled == IF prompting THEN {FillPrompt(B, s) : B \in {Began(S, s)}} ELSE {S}
    IN  IF skip THEN {S}
        ELSE IF refused THEN {Release(S, s)}
        ELSE IF noRoom THEN {Began(S, s)}
        ELSE {[F EXCEPT !.batched = IF @ = NoSlot THEN s ELSE @, !.full = Len(F.batch) >= params.n_batch] : F \in filled}

UpdateSlots ==
    /\ phase = "tasks"
    /\ \E s \in Slots : Processing(State, s)
    /\ \E F \in Each(FillSlot, Each(AddSampled, Each(ShiftSlot, {Filling(State)}))) :
          /\ Take(F)
          /\ batch' = F.batch
          /\ phase' = IF F.batch = <<>> THEN "tasks" ELSE "decode"
    /\ at' = 0 /\ n_batch' = params.n_batch
    /\ UNCHANGED <<params, file>>

-----------------------------------------------------------------------------
\* update_slots: the views of the batch

View == SubSeq(batch, at + 1, Min({at + n_batch, Len(batch)}))

\* llama_batch_allocr::init: the positions of a sequence continue what the cache holds
Continues(s) ==
    LET p == {View[k].pos : k \in {j \in DOMAIN View : View[j].slot = s}}
    IN  p # {} /\ PosMax(cells, s) # -1 => Min(p) = PosMax(cells, s) + 1
ValidView == \A s \in Slots : Continues(s)
RoomForView == Len(View) <= Cardinality(Free(cells))

Decoding == phase = "decode"

BatchEnds == phase' = "tasks" /\ batch' = <<>> /\ at' = 0 /\ n_batch' = params.n_batch

\* all processing slots get the error and lose their prompts
FailSlot(S, s) == {IF Processing(S, s) THEN PromptClear(Release(S, s), s) ELSE S}
FailAll == /\ \E F \in Each(FailSlot, {State}) : Take(F)
           /\ BatchEnds
           /\ UNCHANGED <<params, file>>

\* ret = -1, an invalid batch, or ret < -1, a failing backend
DecodeError == Decoding /\ (ValidView => "compute" \in params.faults) /\ FailAll
DecodeExceeded == Decoding /\ ValidView /\ ~RoomForView /\ n_batch = 1 /\ FailAll

Purgeable == {s \in Idle(State) : slot[s].toks # <<>>}

\* mutant: the view is tried again as it was
DecodeRetryFull ==
    /\ Decoding /\ ValidView /\ ~RoomForView /\ n_batch > 1
    /\ Take(IF Purgeable # {} THEN PromptClear(State, Min(Purgeable)) ELSE State)
    /\ UNCHANGED <<params, file, batch, at, n_batch, phase>>

\* try_clear_idle_slots, else half the batch
DecodeRetry ==
    /\ Decoding /\ ValidView /\ ~RoomForView /\ n_batch > 1
    /\ IF Purgeable # {}
       THEN Take(PromptClear(State, Min(Purgeable))) /\ n_batch' = n_batch
       ELSE Take(State) /\ n_batch' = n_batch \div 2
    /\ UNCHANGED <<params, file, batch, at, phase>>

\* copy_state_to, from a parent that has reached the end of its prompt to the children that wait for it
CopyTo(S, s, t) ==
    [S EXCEPT !.cells = SeqCp(SeqRm(@, t, 0, End), s, t),
              !.slot[t].toks = S.slot[s].toks, !.slot[t].i_batch = S.slot[s].i_batch,
              !.slot[t].st = "DONE_PROMPT"]
CopyToChildren(S, s) ==
    LET waiting(t) == S.slot[t].st = "WAIT_OTHER" /\ S.slot[t].task.parent = s
    IN  Each(LAMBDA R, t : {IF waiting(t) THEN CopyTo(R, s, t) ELSE R}, {S})
ActivateChildren(S, s) ==
    IF S.slot[s].st # "DONE_PROMPT" \/ ~IsParent(S, s) THEN {S} ELSE CopyToChildren(S, s)

\* the slots whose logits are in the view
InView(S, s) == at <= S.slot[s].i_batch /\ S.slot[s].i_batch < at + Len(View)
\* process_token: the context is full or the budget is used up; or the sampler drew the end
Stops(S, s) ==
    \/ S.slot[s].task.kind = "embedding"
    \/ ~params.ctx_shift /\ Len(S.slot[s].toks) + 1 >= params.n_ctx
    \/ S.slot[s].task.left = 1

SampleSlot(S, s) ==
    IF ~InView(S, s) \/ S.slot[s].st \notin {"DONE_PROMPT", "GENERATING"} THEN {S}
    ELSE {Release(S, s)} \cup
         IF Stops(S, s) THEN {}
         ELSE LET left == IF S.slot[s].task.left = Unlimited THEN Unlimited ELSE S.slot[s].task.left - 1
              IN  {[S EXCEPT !.slot[s] = [@ EXCEPT !.st = "GENERATING", !.sampled = tok, !.i_batch = -1,
                                                   !.task.left = left]] : tok \in params.samples}

DecodeOk ==
    /\ Decoding /\ ValidView /\ RoomForView
    /\ \E F \in Each(SampleSlot, Each(ActivateChildren, {[State EXCEPT !.cells = Place(@, View)]})) : Take(F)
    /\ IF at + Len(View) = Len(batch) THEN BatchEnds
       ELSE /\ at' = at + Len(View)
            /\ n_batch' = params.n_batch
            /\ UNCHANGED <<batch, phase>>
    /\ UNCHANGED <<params, file>>

Next ==
    \/ \E r \in params.requests, s \in Slots : Launch(r, s)
    \/ \E s \in Slots : Cancel(s) \/ SlotSave(s) \/ SlotErase(s) \/ SlotRestore(s) \/ SlotRestoreFails(s)
    \/ UpdateSlots
    \/ DecodeError \/ DecodeExceeded \/ DecodeRetry \/ DecodeOk

Spec == Init /\ [][Next]_vars

\* the main loop goes on while a slot is busy (SlotScheduler: BusyKeepsRunning)
FairSpec == Spec /\ WF_vars(UpdateSlots \/ DecodeError \/ DecodeExceeded \/ DecodeRetry \/ DecodeOk)

-----------------------------------------------------------------------------
\* Properties

Pending(s) == {batch[k].pos : k \in {j \in at + 1 .. Len(batch) : batch[j].slot = s}}
CellsAt(s, p) == {i \in Cells : s \in cells[i].seqs /\ cells[i].pos = p}

\* What a slot believes to be in the cache is there: every token of prompt.tokens that does not wait in
\* the batch is in exactly one cell of the slot, at its position; and a slot that is done with its prompt
\* attends to nothing else.  prompt.tokens is what the next request reuses without decoding it again, and
\* it is changed before the decode, in other functions than the memory it describes.
KvMatchesPrompt ==
    \A s \in Slots :
        /\ \A k \in DOMAIN slot[s].toks :
              k - 1 \in Pending(s) \/ (/\ Cardinality(CellsAt(s, k - 1)) = 1
                                     /\ \A i \in CellsAt(s, k - 1) : cells[i].tok = slot[s].toks[k])
        /\ slot[s].st \in {"DONE_PROMPT", "GENERATING"} =>
              Positions(cells, s) \subseteq 0 .. Len(slot[s].toks) - 1

\* "Context size has been exceeded." fails all running requests only when they fill the cache themselves:
\* whatever idle slots kept has been purged before (try_clear_idle_slots).
NoNeedlessExhaustion ==
    [][DecodeExceeded => \A i \in Cells : \E s \in cells[i].seqs : Processing(State, s)]_vars

\* When no further request arrives every slot becomes idle: halved batches, purges, failed decodes, shifts
\* and waiting children come to an end.
RequestsEnd ==
    <>[][\A s \in Slots : slot[s].task = NoTask => slot'[s].task = NoTask]_slot
        => []<>(\A s \in Slots : slot[s].task = NoTask)
=============================================================================
